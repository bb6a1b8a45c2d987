----------------------------- MODULE GtagsInv ------------------------------
(***************************************************************************)
(* The inductive invariant of Gtags behind NoDanglingTag, HolesHaveNoTags  *)
(* and OneContentPerFile, by the phases of a run.  It is inductive when    *)
(* runs are not disturbed: files do not change under a run, the langmap    *)
(* is fixed and gtags is not killed.                                       *)
(***************************************************************************)
EXTENDS Gtags

Undisturbed ==
    /\ ~Racy /\ ~MayCrash
    /\ \A l, m \in LangMaps : l = m

(* Tag files x that agree with each other and with a GPATH gp. *)
Good(x, gp) ==
    /\ x["GTAGS"] = x["GRTAGS"]
    /\ \A r \in x["GTAGS"] : gp.pathOf[r.fid] = r.path /\ IsSource(r.path)
    /\ \A r, s \in x["GTAGS"] : r.fid = s.fid => r = s

(* No tag in x belongs to a path of S. *)
NoTagsFor(x, gp, S) == \A p \in S : \A r \in x["GTAGS"] : r.fid # gp.fidOf[p]

(* The type flag says what the langmap says. *)
TypesAgree(gp) ==
    \A p \in Path : HasPath(gp, p) => (gp.typeOf[p] = "source" <=> IsSource(p))

(* gp only adds ids to old. *)
Extends(gp, old) ==
    /\ old.next <= gp.next
    /\ \A f \in Fid : f < old.next => gp.pathOf[f] = old.pathOf[f]

NoHoleHasTags ==
    \A d \in Tag : \A r \in tags[d] : r.fid < gpath.next => gpath.pathOf[r.fid] # NoPath

Updating == mode # "create" /\ pc # "idle"

(* What the scan collects: deletelist and addlist never meet, and the tags *)
(* of every file on either list, if it has any, are under deleteset.       *)
ListsOK ==
    /\ \A p \in addlist : Exists(p) /\ IsSource(p)
    /\ \A p \in deletelist : ~(Exists(p) /\ IsSource(p))
    /\ \A p \in addlist_other : ~IsSource(p)

Covered == \A p \in addlist \cup deletelist :
               HasPath(g, p) /\ IsSource(p) => g.fidOf[p] \in deleteset

IdleInv ==
    pc = "idle" => /\ ready \in {{}, DbFile}
                   /\ ready = DbFile => Good(tags, gpath)
                   /\ addlist = {} /\ deletelist = {} /\ addlist_other = {}

CreateInv ==
    mode = "create" /\ pc # "idle" =>
        /\ pc \in {"find", "closeGtags", "closeGpath", "closeGrtags"}
        /\ Good(t, g)
        /\ \A p \in toFind : ~HasPath(g, p)
        /\ pc \in {"find", "closeGtags"} => ready = {}
        /\ pc = "closeGpath" => ready = {"GTAGS"}
        /\ pc = "closeGrtags" => ready = {"GTAGS", "GPATH"}
        /\ pc \in {"closeGpath", "closeGrtags"} => tags["GTAGS"] = t["GTAGS"]
        /\ pc = "closeGrtags" => gpath = g

ScanInv ==
    Updating /\ pc \in {"find", "ids", "update"} =>
        /\ g = gpath /\ Good(tags, gpath) /\ Covered
        /\ pc \in {"find", "ids"} =>
             \A p \in Path \ toFind : Exists(p) /\ IsSource(p) /\ HasPath(g, p)
                                        => g.fidOf[p] \in findset
        /\ pc = "ids" => toFind = {}

AddInv ==
    Updating /\ pc \in {"add", "closeGtags", "closeGrtags"} =>
        /\ Good(t, g) /\ NoTagsFor(t, g, addlist \cup deletelist)
        /\ Extends(g, gpath)
        /\ pc = "closeGrtags" => tags["GTAGS"] = t["GTAGS"] /\ NoHoleHasTags
        /\ pc # "closeGrtags" => Good(tags, gpath)

GpathInv ==
    Updating /\ pc \in {"gpath", "closeGpath"} =>
        Good(tags, g) /\ NoTagsFor(tags, g, deletelist) /\ NoHoleHasTags

PhaseInv ==
    /\ TypesAgree(gpath) /\ TypesAgree(g)
    /\ Updating => ready = DbFile /\ ListsOK
    /\ IdleInv /\ CreateInv /\ ScanInv /\ AddInv /\ GpathInv
-----------------------------------------------------------------------------
(* The invariant behind FidNeverReused, inductive in every run: what an    *)
(* update holds in memory has at most lost ids of the GPATH on disk.       *)
OnlyRetires(gp, old) ==
    /\ old.next <= gp.next
    /\ \A f \in Fid : f < old.next => gp.pathOf[f] \in {old.pathOf[f], NoPath}

FidInv ==
    /\ mode = "create" /\ pc # "idle" => "GRTAGS" \notin ready
    /\ Updating => OnlyRetires(g, gpath)
-----------------------------------------------------------------------------
(* The invariant behind NoWrongPath, inductive in every run that is not    *)
(* killed.                                                                 *)

(* Every tag in x has an id that gp has allocated, to its path, and gp may *)
(* have lost it since.                                                     *)
Match(x, gp) ==
    \A d \in Tag : \A r \in x[d] :
        r.fid < gp.next /\ gp.pathOf[r.fid] \in {r.path, NoPath}

MatchCreate ==
    mode = "create" /\ pc # "idle" =>
        /\ pc \in {"find", "closeGtags", "closeGpath", "closeGrtags"}
        /\ Match(t, g) /\ \A d \in Tag : tags[d] \subseteq t[d]
        /\ gpath = IF pc = "closeGrtags" THEN g ELSE EmptyGpath

MatchUpdate ==
    Updating =>
        /\ pc \in {"find", "ids", "update"} => g = gpath
        /\ pc \in {"find", "ids", "update", "add", "closeGtags"} => Match(tags, gpath)
        /\ pc \in {"add", "closeGtags", "closeGrtags"} => Match(t, g) /\ Extends(g, gpath)
        /\ pc \in {"closeGrtags", "gpath", "closeGpath"} => Match(tags, g)

MatchInv ==
    /\ NoWrongPath
    /\ pc = "idle" => Match(tags, gpath)
    /\ MatchCreate /\ MatchUpdate
-----------------------------------------------------------------------------
(* The invariant behind CreateRepairs, inductive in every run: what a      *)
(* creation has visited it has indexed, unless the file changed after.     *)

Parsable(p) == Exists(p) /\ IsSource(p)

(* The tags in x under the id f are those of the content v of p; those     *)
(* under the id of p in gp are those of its present content.               *)
TagsHold(x, f, p, v) ==
    \A d \in Tag : TagsOf(x[d], f) = {[fid |-> f, path |-> p, ver |-> v]}

TagsCurrent(x, gp, p) == TagsHold(x, gp.fidOf[p], p, ver[p])

(* Current(p), of any tag files x and GPATH gp. *)
IndexedIn(x, gp, p) ==
    IF Parsable(p)
    THEN HasPath(gp, p) /\ TagsCurrent(x, gp, p)
    ELSE /\ HasPath(gp, p) <=> kind[p] = "text"
         /\ \A d \in Tag : \A r \in x[d] : r.path # p

OwnTags(x, gp) == \A d \in Tag : \A r \in x[d] : gp.pathOf[r.fid] = r.path

CreatedInv ==
    mode = "create" /\ pc # "idle" =>
        /\ pc \in {"find", "closeGtags", "closeGpath", "closeGrtags"}
        /\ OwnTags(t, g)
        /\ \A p \in toFind : ~HasPath(g, p)
        /\ \A p \in Path \ raced : (pc = "find" /\ p \in toFind) \/ IndexedIn(t, g, p)
        /\ pc \in {"closeGpath", "closeGrtags"} => tags["GTAGS"] = t["GTAGS"]
        /\ pc = "closeGrtags" => gpath = g
-----------------------------------------------------------------------------
(* The invariant behind NoLostUpdate and OneContentPerFile, inductive when *)
(* gtags is not killed, the langmap is fixed and --single-update is used   *)
(* as its manual assumes; files may change at any moment.                  *)
Unkilled ==
    /\ ~MayCrash /\ SingleOnlyChange
    /\ \A l, m \in LangMaps : l = m

(* Definitions and references come from the same parses, one per id. *)
OneParse(x) ==
    /\ x["GTAGS"] = x["GRTAGS"]
    /\ \A r, s \in x["GTAGS"] : r.fid = s.fid => r = s

(* A source file of GPATH whose tags are old is newer than GTAGS. *)
Noticed(p) ==
    Parsable(p) /\ HasPath(gpath, p) =>
        TagsCurrent(tags, gpath, p) \/ mtime[p] > tagMtime

(* What is planned for a source file: it will be parsed, or its tags in x  *)
(* are those of its content; and it stays in GPATH.                        *)
Planned(p, x) ==
    Parsable(p) => /\ p \notin deletelist
                   /\ p \in addlist \/ (HasPath(g, p) /\ TagsCurrent(x, g, p))

RestInv ==
    /\ \A p \in Path : mtime[p] <= now
    /\ pc \in {"idle", "find"} => id = 1 /\ deletelist = {}
    /\ pc = "idle" => /\ ready \in {{}, DbFile} /\ toFind = {}
                      /\ addlist = {} /\ addlist_other = {} /\ deleteset = {}
    /\ Updating => ready = DbFile
    /\ mode = "create" /\ pc # "idle" =>
         /\ pc \in {"find", "closeGtags", "closeGpath", "closeGrtags"}
         /\ pc \in {"find", "closeGtags"} => ready = {}
         /\ pc = "closeGpath" => ready = {"GTAGS"}
         /\ pc = "closeGrtags" => ready = {"GTAGS", "GPATH"}
    /\ TypesAgree(gpath) /\ TypesAgree(g)
    /\ \A p \in addlist : IsSource(p)
    /\ \A p \in addlist_other : ~IsSource(p)

(* GTAGS as it was before the run, until the run writes it. *)
Unwritten == pc \in {"idle", "find", "ids", "update"} \/ (pc = "add" /\ addlist # {})

NoticedInv ==
    /\ ready = DbFile /\ Unwritten => \A p \in Path \ raced : Noticed(p)
    /\ mode = "incremental" /\ Updating /\ Unwritten =>
         \A p \in addlist : HasPath(gpath, p) => mtime[p] > tagMtime
    /\ mode = "single" /\ pc = "add" => \A p, q \in addlist : p = q

CollectInv ==
    Updating /\ pc \in {"find", "ids", "update"} =>
        /\ g = gpath /\ oldMtime = tagMtime
        /\ pc = "update" \/ mode = "incremental"
        /\ \A p \in toFind : p \notin addlist \cup addlist_other
        /\ pc # "find" => toFind = {}
        /\ mode = "single" => \A p, q \in addlist : p = q
        /\ \A p \in addlist : HasPath(g, p) => g.fidOf[p] \in deleteset
        /\ \A f \in deleteset : g.pathOf[f] \in addlist \cup deletelist
        /\ pc \in {"find", "ids"} =>
             \A p \in Path \ (raced \cup toFind) :
                 Exists(p) /\ (IsSource(p) \/ ~IsBinary(p)) /\ HasPath(g, p)
                     => g.fidOf[p] \in findset
        /\ \A p \in Path \ raced : (pc = "find" /\ p \in toFind) \/ Planned(p, tags)

WriteInv ==
    Updating /\ pc \in {"add", "closeGtags", "closeGrtags"} =>
        /\ \A p \in addlist : HasPath(g, p) => \A d \in Tag : TagsOf(t[d], g.fidOf[p]) = {}
        /\ \A p \in Path \ raced : Planned(p, t)
        /\ pc # "add" => addlist = {}
        /\ pc = "closeGrtags" => tags["GTAGS"] = t["GTAGS"]

FinishInv ==
    Updating /\ pc \in {"gpath", "closeGpath"} =>
        /\ \A p \in Path \ raced : Planned(p, tags)
        /\ addlist = {}

OneParseInv ==
    /\ pc # "idle" /\ (mode = "create" \/ pc \in {"add", "closeGtags", "closeGrtags"})
         => OneParse(t)
    /\ ready = DbFile /\ pc # "closeGrtags" => OneParse(tags)

LostInv ==
    RestInv /\ NoticedInv /\ CollectInv /\ WriteInv /\ FinishInv /\ OneParseInv
-----------------------------------------------------------------------------
(* The invariant behind CatchesUp, inductive when a run is not disturbed:  *)
(* what is planned for the files that have no language.                    *)

(* The delete list loop has still to come to the id of p. *)
Unchecked(p) == pc = "find" \/ (pc = "ids" /\ id <= g.fidOf[p])

PlannedOther(p) ==
    IF kind[p] = "text"
    THEN p \notin deletelist /\ (p \in addlist_other \/ HasPath(g, p))
    ELSE p \notin addlist_other /\ (HasPath(g, p) => p \in deletelist \/ Unchecked(p))

OtherInv ==
    Updating =>
        /\ \A p \in Path : ~Parsable(p) => (pc = "find" /\ p \in toFind) \/ PlannedOther(p)
        /\ pc = "closeGpath" => deletelist = {} /\ addlist_other = {}
=============================================================================
