------------------------- MODULE GtagsServedProofs -------------------------
(***************************************************************************)
(* Proofs about what gtags promises its users: creation indexes every      *)
(* file, no change is lost, a run catches up, and every run appears as one *)
(* replacement of the index.                                               *)
(***************************************************************************)
EXTENDS GtagsServed, GtagsProofs

(* The tag files of a reachable state, and what ids and tags they hold.    *)
LEMMA Parts ==
    ASSUME TypeInv
    PROVE  /\ g \in GpathRec /\ gpath \in GpathRec
           /\ GpathConsistent(g) /\ GpathConsistent(gpath)
           /\ t \in [Tag -> SUBSET TagRec] /\ tags \in [Tag -> SUBSET TagRec]
           /\ "source" \in FileType /\ "other" \in FileType
           /\ "GTAGS" \in Tag /\ "GRTAGS" \in Tag /\ Tag = {"GTAGS", "GRTAGS"}
BY DEF TypeInv, TypeOK, GpathSound, FileType, Tag

LEMMA TagParts ==
    ASSUME NEW x \in [Tag -> SUBSET TagRec], NEW d \in Tag, NEW r \in x[d]
    PROVE  r.fid \in Fid /\ r.path \in Path /\ r.ver \in Version
BY DEF TagRec

(* A path with an id is what its id leads to, and conversely.              *)
LEMMA IdOfPath ==
    ASSUME NEW gp \in GpathRec, GpathConsistent(gp), NEW p \in Path
    PROVE  /\ HasPath(gp, p) => /\ gp.fidOf[p] \in Fid /\ gp.fidOf[p] < gp.next
                                /\ gp.pathOf[gp.fidOf[p]] = p
           /\ \A f \in Fid : gp.pathOf[f] = p => HasPath(gp, p) /\ gp.fidOf[p] = f
           /\ \A q \in Path : HasPath(gp, p) /\ gp.fidOf[p] = gp.fidOf[q] => p = q
<1>1. gp.fidOf \in [Path -> Fid \cup {NoFid}] /\ gp.pathOf \in [Fid -> Path \cup {NoPath}]
  BY DEF GpathRec
<1>2. HasPath(gp, p) => /\ gp.fidOf[p] \in Fid /\ gp.fidOf[p] < gp.next
                        /\ gp.pathOf[gp.fidOf[p]] = p
  BY <1>1 DEF HasPath, GpathConsistent
<1>3. ASSUME NEW f \in Fid, gp.pathOf[f] = p PROVE HasPath(gp, p) /\ gp.fidOf[p] = f
  <2>1. gp.fidOf[p] = f
    BY <1>3, GpathAssumption DEF GpathConsistent
  <2>2. f # NoFid
    BY SMT DEF Fid, NoFid
  <2> QED BY <2>1, <2>2 DEF HasPath
<1>4. ASSUME NEW q \in Path, HasPath(gp, p), gp.fidOf[p] = gp.fidOf[q] PROVE p = q
  BY <1>2, <1>4 DEF HasPath, GpathConsistent
<1> QED BY <1>2, <1>3, <1>4

(* One more record leaves the tags of the other ids alone, and is all the  *)
(* tags of an id that had none.                                            *)
LEMMA OneMoreTag ==
    ASSUME NEW x, NEW y, NEW f, NEW p, NEW v,
           \A d \in Tag : y[d] = x[d] \cup {[fid |-> f, path |-> p, ver |-> v]}
    PROVE  /\ \A h, q, w : h # f /\ TagsHold(x, h, q, w) => TagsHold(y, h, q, w)
           /\ (\A d \in Tag : TagsOf(x[d], f) = {}) => TagsHold(y, f, p, v)
<1> DEFINE new == [fid |-> f, path |-> p, ver |-> v]
<1>1. new.fid = f
  OBVIOUS
<1>2. \A d \in Tag : y[d] = x[d] \cup {new}
  OBVIOUS
<1> HIDE DEF new
<1>3. \A d \in Tag : TagsOf(y[d], f) = TagsOf(x[d], f) \cup {new}
  BY <1>1, <1>2 DEF TagsOf
<1>4. \A d \in Tag : \A h : h # f => TagsOf(y[d], h) = TagsOf(x[d], h)
  BY <1>1, <1>2 DEF TagsOf
<1>5. (\A d \in Tag : TagsOf(x[d], f) = {}) => TagsHold(y, f, p, v)
  BY <1>3 DEF TagsHold, new
<1> QED BY <1>4, <1>5 DEF TagsHold
-----------------------------------------------------------------------------
(* Creation.                                                               *)

(* createtags gives a path that had no id one, and its tags, if it is a    *)
(* source file; the other files keep what they have.                       *)
LEMMA VisitIndexes ==
    ASSUME TypeInv, OwnTags(t, g), NEW p \in Path, ~HasPath(g, p), VisitCreate(p)
    PROVE  /\ OwnTags(t, g)'
           /\ \A q \in Path \ {p} : g'.fidOf[q] = g.fidOf[q]
           /\ \A q \in Path \ {p} : IndexedIn(t, g, q) => IndexedIn(t, g, q)'
           /\ IndexedIn(t, g, p)'
<1> USE Parts
<1>0. UNCHANGED <<kind, ver, langmap>>
  BY DEF VisitCreate
<1>1. ASSUME NEW d \in Tag, NEW r \in t[d] PROVE r.fid \in Fid /\ r.path \in Path /\ r.path # p
  <2>1. r.fid \in Fid /\ r.path \in Path /\ g.pathOf[r.fid] = r.path
    BY <1>1, TagParts DEF OwnTags
  <2> QED BY <2>1, IdOfPath
<1>2. CASE Parsable(p)
  <2>1. PutPath(p, "source") /\ Parse(p, g'.fidOf[p]) /\ IsSource(p)
    BY <1>2 DEF VisitCreate, Parsable
  <2> DEFINE f == g'.fidOf[p]
  <2>2. /\ \A h \in Fid : g.pathOf[h] # NoPath => g'.pathOf[h] = g.pathOf[h]
        /\ \A q \in Path \ {p} : g'.fidOf[q] = g.fidOf[q] /\ g'.fidOf[q] # f
        /\ f \in Fid /\ g'.pathOf[f] = p /\ g.pathOf[f] = NoPath
    BY <2>1, PutKeeps
  <2>3. \A d \in Tag : t'[d] = t[d] \cup {[fid |-> f, path |-> p, ver |-> ver[p]]}
    BY <2>1 DEF Parse
  <2> HIDE DEF f
  <2>4. OwnTags(t, g)'
    <3> SUFFICES ASSUME NEW d \in Tag, NEW r \in t'[d] PROVE g'.pathOf[r.fid] = r.path
      BY DEF OwnTags
    <3>1. CASE r \in t[d]
      <4>1. g.pathOf[r.fid] = r.path /\ r.path # NoPath /\ r.fid \in Fid
        BY <1>1, <3>1, GpathAssumption DEF OwnTags
      <4> QED BY <4>1, <2>2
    <3>2. CASE r = [fid |-> f, path |-> p, ver |-> ver[p]]
      BY <3>2, <2>2
    <3> QED BY <2>3, <3>1, <3>2
  <2>5. \A d \in Tag : TagsOf(t[d], f) = {}
    <3> SUFFICES ASSUME NEW d \in Tag, NEW r \in t[d], r.fid = f PROVE FALSE
      BY DEF TagsOf
    <3> QED BY <1>1, <2>2, GpathAssumption DEF OwnTags
  <2>6. TagsHold(t', f, p, ver[p]) /\ \A h, q, w : h # f /\ TagsHold(t, h, q, w) => TagsHold(t', h, q, w)
    BY <2>3, <2>5, OneMoreTag
  <2>7. HasPath(g', p)
    BY <2>2, SMT DEF HasPath, NoFid, Fid, f
  <2>8. IndexedIn(t, g, p)'
    BY <1>0, <1>2, <2>6, <2>7 DEF IndexedIn, TagsCurrent, Parsable, Exists, IsSource, f
  <2>9. ASSUME NEW q \in Path \ {p}, IndexedIn(t, g, q) PROVE IndexedIn(t, g, q)'
    <3>1. CASE Parsable(q)
      <4>1. HasPath(g, q) /\ TagsHold(t, g.fidOf[q], q, ver[q])
        BY <2>9, <3>1 DEF IndexedIn, TagsCurrent
      <4>2. HasPath(g', q) /\ TagsHold(t', g'.fidOf[q], q, ver[q])
        BY <4>1, <2>2, <2>6 DEF HasPath
      <4> QED BY <1>0, <3>1, <4>2 DEF IndexedIn, TagsCurrent, Parsable, Exists, IsSource
    <3>2. CASE ~Parsable(q)
      <4>1. HasPath(g', q) <=> kind[q] = "text"
        BY <2>9, <3>2, <2>2 DEF IndexedIn, HasPath
      <4>2. ASSUME NEW d \in Tag, NEW r \in t'[d] PROVE r.path # q
        BY <2>3, <2>9, <3>2, <4>2 DEF IndexedIn
      <4> QED BY <1>0, <3>2, <4>1, <4>2 DEF IndexedIn, Parsable, Exists, IsSource
    <3> QED BY <3>1, <3>2
  <2> QED BY <2>2, <2>4, <2>8, <2>9 DEF f
<1>3. CASE ~Parsable(p)
  <2>1. t' = t /\ IF kind[p] = "text" THEN PutPath(p, "other") ELSE g' = g
    BY <1>3 DEF VisitCreate, Parsable
  <2>2. /\ \A h \in Fid : g.pathOf[h] # NoPath => g'.pathOf[h] = g.pathOf[h]
        /\ \A q \in Path \ {p} : g'.fidOf[q] = g.fidOf[q]
        /\ HasPath(g', p) <=> kind[p] = "text"
    <3>1. CASE kind[p] = "text"
      <4>1. PutPath(p, "other")
        BY <2>1, <3>1
      <4>2. g'.fidOf[p] \in Fid
        BY <4>1, PutKeeps
      <4>3. HasPath(g', p)
        BY <4>2, SMT DEF HasPath, NoFid, Fid
      <4> QED BY <3>1, <4>1, <4>3, PutKeeps
    <3>2. CASE kind[p] # "text"
      BY <2>1, <3>2
    <3> QED BY <3>1, <3>2
  <2>3. OwnTags(t, g)'
    <3> SUFFICES ASSUME NEW d \in Tag, NEW r \in t[d] PROVE g'.pathOf[r.fid] = r.path
      BY <2>1 DEF OwnTags
    <3>1. g.pathOf[r.fid] = r.path /\ r.path # NoPath /\ r.fid \in Fid
      BY <1>1, GpathAssumption DEF OwnTags
    <3> QED BY <3>1, <2>2
  <2>4. IndexedIn(t, g, p)'
    BY <1>0, <1>1, <1>3, <2>1, <2>2 DEF IndexedIn, Parsable, Exists, IsSource
  <2>5. ASSUME NEW q \in Path \ {p}, IndexedIn(t, g, q) PROVE IndexedIn(t, g, q)'
    BY <1>0, <2>1, <2>2, <2>5 DEF IndexedIn, TagsCurrent, HasPath, Parsable, Exists, IsSource
  <2> QED BY <2>2, <2>3, <2>4, <2>5
<1> QED BY <1>2, <1>3

(* A change of a file leaves every other file indexed as it was.           *)
LEMMA ChangeKeepsOthers ==
    ASSUME NEW p \in Path, NEW k, Change(p, k), TypeInv
    PROVE  /\ UNCHANGED <<now, langmap, pc, mode>> /\ UNCHANGED disk /\ UNCHANGED mem
           /\ raced' = IF Quiet THEN raced \ {p} ELSE raced \cup {p}
           /\ mtime'[p] = now
           /\ \A q \in Path \ {p} : kind'[q] = kind[q] /\ ver'[q] = ver[q] /\ mtime'[q] = mtime[q]
BY DEF Change, TypeInv, TypeOK

(* Every step of a creation keeps what is indexed, and a crash ends it.    *)
LEMMA StepCreatedInv == TypeInv /\ CreatedInv /\ [Next]_vars => CreatedInv'
<1> SUFFICES ASSUME TypeInv, CreatedInv, [Next]_vars PROVE CreatedInv'
  OBVIOUS
<1> USE Parts
<1>1. CASE ~(mode = "create" /\ pc # "idle")
  <2>1. CASE StartCreate
    <3>1. /\ pc' = "find" /\ mode' = "create" /\ g' = EmptyGpath
          /\ \A d \in Tag : t'[d] = {}
          /\ toFind' = {p \in Path : Exists(p)} /\ UNCHANGED <<kind, ver, langmap, raced>>
      BY <2>1 DEF StartCreate, CreatedTags, NoTags, env
    <3>2. \A p \in Path : ~HasPath(EmptyGpath, p)
      BY DEF EmptyGpath, HasPath
    <3>3. ASSUME NEW p \in Path, p \notin toFind' PROVE IndexedIn(t, g, p)'
      BY <3>1, <3>2, <3>3 DEF IndexedIn, Parsable, Exists, IsSource
    <3> QED BY <3>1, <3>2, <3>3 DEF CreatedInv, OwnTags
  <2>2. CASE ~StartCreate
    <3>1. ~(mode' = "create" /\ pc' # "idle")
      BY <1>1, <2>2
         DEF Next, User, Tick, ChangeLangmap, Edit, Create, Remove, Change, Start,
             StartIncremental, StartSingle, Step, Crash, FindDone, CheckId, IdsDone, UpdateTags,
             UpdateTagsDies, SkipTags, AddDone, CloseGtags, CloseGrtags, Touch, CloseGpath,
             VisitCreate, Visit, VisitVanished, AddFile, AddVanished, DeletePath, AddOther,
             Die, Exit, vars
    <3> QED BY <3>1 DEF CreatedInv
  <2> QED BY <2>1, <2>2
<1>2. CASE mode = "create" /\ pc # "idle"
  <2>0. /\ pc \in {"find", "closeGtags", "closeGpath", "closeGrtags"}
        /\ OwnTags(t, g) /\ \A p \in toFind : ~HasPath(g, p)
        /\ \A p \in Path \ raced : (pc = "find" /\ p \in toFind) \/ IndexedIn(t, g, p)
        /\ pc \in {"closeGpath", "closeGrtags"} => tags["GTAGS"] = t["GTAGS"]
        /\ pc = "closeGrtags" => gpath = g
    BY <1>2 DEF CreatedInv
  <2>1. ASSUME NEW p \in Path, Edit(p) \/ Create(p) \/ Remove(p) PROVE CreatedInv'
    <3>1. PICK k : Change(p, k)
      BY <2>1 DEF Edit, Create, Remove
    <3>2. /\ UNCHANGED <<langmap, pc, mode, g, t, toFind, gpath, tags>> /\ raced' = raced \cup {p}
          /\ \A q \in Path \ {p} : kind'[q] = kind[q] /\ ver'[q] = ver[q]
      BY <3>1, <1>2, ChangeKeepsOthers DEF Quiet, disk, mem
    <3>3. ASSUME NEW q \in Path \ raced', IndexedIn(t, g, q) PROVE IndexedIn(t, g, q)'
      BY <3>2, <3>3 DEF IndexedIn, TagsCurrent, Parsable, Exists, IsSource
    <3> QED BY <2>0, <3>2, <3>3 DEF CreatedInv, OwnTags
  <2>2. ASSUME NEW p \in Path, VisitCreate(p) PROVE CreatedInv'
    <3>1. /\ p \in toFind /\ toFind' = toFind \ {p} /\ pc = "find" /\ UNCHANGED <<pc, mode>>
          /\ raced' \in {raced, raced \ {p}}
      BY <2>2 DEF VisitCreate
    <3>2. /\ OwnTags(t, g)' /\ IndexedIn(t, g, p)'
          /\ \A q \in Path \ {p} : g'.fidOf[q] = g.fidOf[q]
          /\ \A q \in Path \ {p} : IndexedIn(t, g, q) => IndexedIn(t, g, q)'
      BY <2>0, <2>2, <3>1, VisitIndexes
    <3>3. \A q \in toFind' : ~HasPath(g', q)
      BY <2>0, <3>1, <3>2 DEF HasPath, TypeInv, TypeOK
    <3> QED BY <2>0, <3>1, <3>2, <3>3 DEF CreatedInv
  <2>3. ASSUME UNCHANGED <<kind, ver, langmap, raced>>, UNCHANGED <<g, t, toFind, mode>>,
               pc' \in {"find", "closeGtags", "closeGpath", "closeGrtags"},
               pc' # pc /\ pc = "find" => toFind = {},
               pc' = "find" => pc = "find",
               pc' \in {"closeGpath", "closeGrtags"} => tags'["GTAGS"] = t["GTAGS"],
               pc' = "closeGrtags" => gpath' = g
        PROVE  CreatedInv'
    <3>1. \A p \in Path : IndexedIn(t, g, p)' <=> IndexedIn(t, g, p)
      BY <2>3 DEF IndexedIn, TagsCurrent, Parsable, Exists, IsSource
    <3> QED BY <2>0, <2>3, <3>1 DEF CreatedInv, OwnTags
  <2>4. CASE Tick \/ FindDone \/ CloseGtags \/ CloseGpath \/ UNCHANGED vars
    BY <1>2, <2>0, <2>3, <2>4
       DEF Tick, FindDone, CloseGtags, CloseGpath, vars, env, disk, mem
  <2>5. CASE CloseGrtags \/ Crash
    <3>1. pc' = "idle"
      BY <1>2, <2>5 DEF CloseGrtags, Crash, Die, Exit
    <3> QED BY <3>1 DEF CreatedInv
  <2> QED
    BY <1>2, <2>0, <2>1, <2>2, <2>4, <2>5
       DEF Next, User, ChangeLangmap, Start, StartCreate, OpenForUpdate, StartIncremental,
           StartSingle, Step, CheckId, IdsDone, UpdateTags, UpdateTagsDies, SkipTags, AddDone,
           Touch, Visit, VisitVanished, AddFile, AddVanished, DeletePath, AddOther
<1> QED BY <1>1, <1>2

LEMMA CreatedHolds == Spec => [](TypeInv /\ CreatedInv)
<1>1. Init => CreatedInv
  BY DEF Init, CreatedInv
<1> QED BY <1>1, InitTypeInv, StepTypeInv, StepCreatedInv, PTL DEF Spec

(* What a creation leaves when it closes its last file.                    *)
LEMMA CreationEnds ==
    ASSUME TypeInv, CreatedInv, CloseGrtags, mode = "create", NEW p \in Path \ raced
    PROVE  Current(p)'
<1>1. IndexedIn(t, g, p) /\ gpath = g /\ tags["GTAGS"] = t["GTAGS"]
  BY DEF CreatedInv, CloseGrtags
<1>2. /\ gpath' = g /\ \A d \in Tag : tags'[d] = t[d]
      /\ UNCHANGED <<kind, ver, langmap>>
  BY <1>1, Parts DEF CloseGrtags, env
<1> QED BY <1>1, <1>2
        DEF IndexedIn, TagsCurrent, TagsHold, Current, Parsable, Exists, IsSource, HasPath

(* createtags, which reads nothing of the old tag files, indexes every     *)
(* file as it is, whatever was on disk and whoever was killed before: all  *)
(* but the files that changed while it ran.                                *)
THEOREM CreateRepairsHolds == Spec => CreateRepairs
<1>1. TypeInv /\ CreatedInv /\ [Next]_vars =>
        [CloseGrtags /\ mode = "create" => \A p \in Path : p \in raced \/ Current(p)']_vars
  BY CreationEnds
<1> QED BY <1>1, CreatedHolds, PTL DEF Spec, CreateRepairs
-----------------------------------------------------------------------------
(* Updates: LostInv, action by action.                                     *)

(* A step that leaves everything alone but the clock, or nothing.          *)
LEMMA ClockLost ==
    ASSUME TypeInv, LostInv, Tick \/ UNCHANGED vars PROVE LostInv'
<1>1. /\ UNCHANGED <<kind, ver, mtime, langmap, raced, pc, mode>>
      /\ UNCHANGED disk /\ UNCHANGED mem /\ now \in Nat /\ now' \in {now, now + 1}
      /\ \A p \in Path : mtime[p] \in Nat
  BY DEF Tick, vars, disk, mem, TypeInv, TypeOK
<1>2. \A p \in Path : (Planned(p, tags)' <=> Planned(p, tags)) /\ (Planned(p, t)' <=> Planned(p, t))
                      /\ (Noticed(p)' <=> Noticed(p))
  BY <1>1 DEF Planned, Noticed, Parsable, Exists, IsSource, TagsCurrent, HasPath, disk, mem
<1>3. RestInv'
  <2>1. \A p \in Path : mtime'[p] <= now'
    BY <1>1, SMT DEF LostInv, RestInv
  <2> QED BY <1>1, <2>1 DEF LostInv, RestInv, TypesAgree, Updating, IsSource, HasPath, disk, mem
<1>4. NoticedInv'
  BY <1>1, <1>2 DEF LostInv, NoticedInv, Unwritten, Updating, HasPath, disk, mem
<1>5. CollectInv'
  BY <1>1, <1>2 DEF LostInv, CollectInv, Updating, HasPath, Exists, IsSource, IsBinary, disk, mem
<1>6. WriteInv'
  BY <1>1, <1>2 DEF LostInv, WriteInv, Updating, HasPath, disk, mem
<1>7. FinishInv' /\ OneParseInv'
  BY <1>1, <1>2 DEF LostInv, FinishInv, OneParseInv, OneParse, Updating, disk, mem
<1> QED BY <1>3, <1>4, <1>5, <1>6, <1>7 DEF LostInv

(* A change of a file: either its new time is noticed, or it is raced.     *)
LEMMA ChangeLost ==
    ASSUME TypeInv, LostInv, NEW p \in Path, NEW k, Change(p, k) PROVE LostInv'
<1>1. /\ UNCHANGED <<now, langmap, pc, mode>> /\ UNCHANGED disk /\ UNCHANGED mem
      /\ raced' = IF Quiet THEN raced \ {p} ELSE raced \cup {p}
      /\ mtime'[p] = now
      /\ \A q \in Path \ {p} : kind'[q] = kind[q] /\ ver'[q] = ver[q] /\ mtime'[q] = mtime[q]
  BY ChangeKeepsOthers
<1>2. now \in Nat /\ tagMtime \in Nat /\ \A q \in Path : mtime[q] \in Nat
  BY DEF TypeInv, TypeOK
<1>3. \A q \in Path \ {p} : /\ Planned(q, tags)' <=> Planned(q, tags)
                            /\ Planned(q, t)' <=> Planned(q, t)
                            /\ Noticed(q)' <=> Noticed(q)
  BY <1>1 DEF Planned, Noticed, Parsable, Exists, IsSource, TagsCurrent, HasPath, disk, mem
<1>4. Quiet \/ (p \in raced' /\ raced \subseteq raced')
  BY <1>1
<1>5. RestInv'
  <2>1. \A q \in Path : mtime'[q] <= now'
    BY <1>1, <1>2, SMT DEF LostInv, RestInv
  <2> QED BY <1>1, <2>1 DEF LostInv, RestInv, TypesAgree, Updating, IsSource, HasPath, disk, mem
<1>6. NoticedInv'
  <2>1. ASSUME (ready = DbFile /\ Unwritten)', NEW q \in Path \ raced' PROVE Noticed(q)'
    <3>1. CASE q = p
      <4>1. now > tagMtime
        BY <1>4, <3>1, <2>1 DEF Quiet
      <4> QED BY <1>1, <3>1, <4>1 DEF Noticed, disk
    <3>2. CASE q # p
      BY <1>1, <1>3, <2>1, <3>2 DEF LostInv, NoticedInv, Unwritten, disk, mem
    <3> QED BY <3>1, <3>2
  <2>2. ASSUME (mode = "incremental" /\ Updating /\ Unwritten)', NEW q \in addlist', HasPath(gpath', q)
        PROVE  mtime'[q] > tagMtime'
    <3>1. q \in Path /\ mtime[q] > tagMtime
      BY <1>1, <2>2 DEF LostInv, NoticedInv, Unwritten, Updating, HasPath, disk, mem, TypeInv, TypeOK
    <3>2. mtime[q] <= now
      BY <3>1 DEF LostInv, RestInv
    <3>3. now > tagMtime
      BY <3>1, <3>2, <1>2, SMT
    <3> QED BY <1>1, <3>1, <3>3 DEF disk
  <2> QED BY <1>1, <2>1, <2>2 DEF LostInv, NoticedInv, mem
<1>7. Updating' => ~Quiet
  BY <1>1 DEF Updating, Quiet
<1>8. CollectInv'
  BY <1>1, <1>3, <1>4, <1>7
     DEF LostInv, CollectInv, Updating, HasPath, Exists, IsSource, IsBinary, disk, mem
<1>9. WriteInv'
  BY <1>1, <1>3, <1>4, <1>7 DEF LostInv, WriteInv, Updating, HasPath, disk, mem
<1>10. FinishInv' /\ OneParseInv'
  BY <1>1, <1>3, <1>4, <1>7 DEF LostInv, FinishInv, OneParseInv, OneParse, Updating, disk, mem
<1> QED BY <1>5, <1>6, <1>8, <1>9, <1>10 DEF LostInv

LEMMA UserLost == ASSUME Unkilled, TypeInv, LostInv, User PROVE LostInv'
<1>1. CASE Tick
  BY <1>1, ClockLost
<1>2. ~ChangeLangmap
  BY DEF ChangeLangmap, Unkilled, TypeInv, TypeOK
<1>3. ASSUME NEW p \in Path, Edit(p) \/ Create(p) \/ Remove(p) PROVE LostInv'
  <2>1. PICK k : Change(p, k)
    BY <1>3 DEF Edit, Create, Remove
  <2> QED BY <2>1, ChangeLost
<1> QED BY <1>1, <1>2, <1>3 DEF User

LEMMA StartCreateLost == ASSUME TypeInv, LostInv, StartCreate PROVE LostInv'
<1>1. /\ pc = "idle" /\ pc' = "find" /\ mode' = "create" /\ ready' = {}
      /\ gpath' = EmptyGpath /\ g' = EmptyGpath /\ \A d \in Tag : t'[d] = {}
      /\ UNCHANGED <<now, mtime, langmap, id, addlist, addlist_other, deletelist>>
  BY DEF StartCreate, CreatedTags, NoTags, env
<1>2. TypesAgree(gpath)' /\ TypesAgree(g)'
  BY <1>1 DEF TypesAgree, EmptyGpath, HasPath
<1>3. RestInv'
  BY <1>1, <1>2 DEF LostInv, RestInv, Updating, IsSource
<1>4. OneParseInv'
  BY <1>1, Parts DEF OneParseInv, OneParse, DbFile
<1> QED BY <1>1, <1>3, <1>4
        DEF LostInv, NoticedInv, CollectInv, WriteInv, FinishInv, Updating, DbFile

(* incremental: nothing is on a list and every file is still to be seen.   *)
LEMMA StartIncrementalLost == ASSUME TypeInv, LostInv, StartIncremental PROVE LostInv'
<1>1. /\ pc = "idle" /\ pc' = "find" /\ mode' = "incremental" /\ g' = gpath /\ oldMtime' = tagMtime
      /\ toFind' = {p \in Path : Exists(p)}
      /\ UNCHANGED env /\ UNCHANGED disk
      /\ UNCHANGED <<t, id, findset, deleteset, addlist, addlist_other, deletelist>>
      /\ ready = DbFile
  BY DEF StartIncremental, OpenForUpdate, LostInv, RestInv, DbFile
<1>2. addlist = {} /\ addlist_other = {} /\ deletelist = {} /\ deleteset = {} /\ id = 1
  BY <1>1 DEF LostInv, RestInv
<1>3. \A p \in Path : Noticed(p)' <=> Noticed(p)
  BY <1>1 DEF Noticed, Parsable, Exists, IsSource, TagsCurrent, HasPath, env, disk
<1>4. RestInv'
  BY <1>1, <1>2 DEF LostInv, RestInv, Updating, TypesAgree, IsSource, HasPath, env, disk
<1>5. NoticedInv'
  BY <1>1, <1>2, <1>3 DEF LostInv, NoticedInv, Unwritten, env, disk
<1>6. CollectInv'
  BY <1>1, <1>2 DEF CollectInv, Planned, Parsable, Exists, IsSource, env, disk
<1>7. OneParseInv'
  BY <1>1 DEF LostInv, OneParseInv, OneParse, disk
<1> QED BY <1>1, <1>4, <1>5, <1>6, <1>7 DEF LostInv, WriteInv, FinishInv

(* --single-update p: the other files are up to date, and p is put on the  *)
(* list it belongs to.                                                     *)
LEMMA StartSingleLost ==
    ASSUME Unkilled, TypeInv, LostInv, NEW p \in Path, StartSingle(p) PROVE LostInv'
<1> USE Parts
<1>1. /\ pc = "idle" /\ pc' = "update" /\ mode' = "single" /\ g' = gpath /\ oldMtime' = tagMtime
      /\ UNCHANGED env /\ UNCHANGED disk /\ UNCHANGED <<t, toFind, id, findset>>
      /\ ready = DbFile /\ \A q \in Path \ {p} : Current(q)
  BY DEF StartSingle, OpenForUpdate, LostInv, RestInv, DbFile, Unkilled
<1>2. toFind = {} /\ deletelist = {} /\ TypesAgree(gpath)
  BY <1>1 DEF LostInv, RestInv
<1>4. HasPath(gpath, p) => gpath.pathOf[gpath.fidOf[p]] = p
  BY IdOfPath
<1>5. /\ \A q \in addlist' : q = p /\ IsSource(p) /\ (HasPath(gpath, p) => gpath.fidOf[p] \in deleteset')
      /\ \A q \in addlist_other' : q = p /\ ~IsSource(p)
      /\ \A f \in deleteset' : gpath.pathOf[f] \in addlist' \cup deletelist'
      /\ \A q \in deletelist' : q = p /\ ~Exists(p)
      /\ Parsable(p) => p \in addlist'
  <2>1. CASE ~HasPath(gpath, p)
    <3>1. /\ Exists(p) /\ deleteset' = {} /\ deletelist' = {}
          /\ addlist' = IF IsSource(p) THEN {p} ELSE {}
          /\ addlist_other' = IF IsSource(p) THEN {} ELSE {p}
      BY <2>1 DEF StartSingle
    <3> QED BY <2>1, <3>1 DEF Parsable
  <2>2. CASE HasPath(gpath, p) /\ ~Exists(p)
    <3>1. /\ deletelist' = {p} /\ addlist' = {} /\ addlist_other' = {}
          /\ deleteset' \subseteq {gpath.fidOf[p]}
      BY <2>2 DEF StartSingle
    <3> QED BY <1>4, <2>2, <3>1 DEF Parsable
  <2>3. CASE HasPath(gpath, p) /\ Exists(p)
    <3>1. /\ gpath.typeOf[p] # "other" /\ deletelist' = {} /\ addlist' = {p} /\ addlist_other' = {}
          /\ deleteset' = {gpath.fidOf[p]}
      BY <2>3 DEF StartSingle
    <3>2. IsSource(p)
      BY <1>2, <2>3, <3>1 DEF TypesAgree, GpathRec, FileType
    <3> QED BY <1>4, <2>3, <3>1, <3>2 DEF Parsable
  <2> QED BY <2>1, <2>2, <2>3
<1>6. \A q \in Path : Planned(q, tags)'
  <2>1. Planned(p, tags)'
    BY <1>1, <1>5 DEF Planned, Parsable, Exists, IsSource, env
  <2>2. ASSUME NEW q \in Path \ {p} PROVE Planned(q, tags)'
    <3>1. Parsable(q) => HasPath(gpath, q) /\ TagsHold(tags, gpath.fidOf[q], q, ver[q])
      BY <1>1, <2>2 DEF Current, Parsable, TagsHold
    <3> QED BY <1>1, <1>5, <2>2, <3>1
            DEF Planned, TagsCurrent, HasPath, Parsable, Exists, IsSource, env, disk
  <2> QED BY <2>1, <2>2
<1>7. RestInv'
  BY <1>1, <1>5 DEF LostInv, RestInv, Updating, TypesAgree, IsSource, HasPath, env, disk
<1>8. NoticedInv'
  <2>1. \A q \in Path : Noticed(q)' <=> Noticed(q)
    BY <1>1 DEF Noticed, Parsable, Exists, IsSource, TagsCurrent, HasPath, env, disk
  <2> QED BY <1>1, <2>1 DEF LostInv, NoticedInv, Unwritten, env, disk
<1>9. CollectInv'
  BY <1>1, <1>2, <1>5, <1>6 DEF CollectInv, Updating, HasPath, disk
<1>10. OneParseInv'
  BY <1>1 DEF LostInv, OneParseInv, OneParse, disk
<1> QED BY <1>1, <1>7, <1>8, <1>9, <1>10 DEF LostInv, WriteInv, FinishInv

(* createtags, one file.                                                   *)
LEMMA VisitCreateLost ==
    ASSUME TypeInv, CreatedInv, LostInv, NEW p \in Path, VisitCreate(p) PROVE LostInv'
<1> USE Parts
<1>1. /\ pc = "find" /\ mode = "create" /\ p \in toFind
      /\ OwnTags(t, g) /\ ~HasPath(g, p) /\ OneParse(t) /\ TypesAgree(g)
      /\ ready = {}
  BY DEF VisitCreate, CreatedInv, LostInv, OneParseInv, RestInv
<1>2. /\ UNCHANGED <<now, kind, ver, mtime, langmap, pc, mode>> /\ UNCHANGED disk
      /\ UNCHANGED <<oldMtime, id, findset, deleteset, addlist, addlist_other, deletelist>>
      /\ \/ IsSource(p) /\ PutPath(p, "source") /\ Parse(p, g'.fidOf[p])
         \/ t' = t /\ ~IsSource(p) /\ PutPath(p, "other")
         \/ t' = t /\ g' = g
  BY DEF VisitCreate, Exists
<1>3. TypesAgree(g)' /\ TypesAgree(gpath)'
  <2>1. TypesAgree(gpath)'
    BY <1>2 DEF LostInv, RestInv, TypesAgree, IsSource, HasPath, disk
  <2>2. TypesAgree(g)'
    <3>1. CASE IsSource(p) /\ PutPath(p, "source")
      BY <1>1, <1>2, <3>1, PutTypesAgree
    <3>2. CASE ~IsSource(p) /\ PutPath(p, "other")
      BY <1>1, <1>2, <3>2, PutTypesAgree
    <3>3. CASE g' = g
      BY <1>1, <1>2, <3>3 DEF TypesAgree, IsSource, HasPath
    <3> QED BY <1>2, <3>1, <3>2, <3>3
  <2> QED BY <2>1, <2>2
<1>4. OneParse(t)'
  <2>1. CASE PutPath(p, "source") /\ Parse(p, g'.fidOf[p]) /\ IsSource(p)
    <3> DEFINE new == [fid |-> g'.fidOf[p], path |-> p, ver |-> ver[p]]
    <3>1. \A d \in Tag : t'[d] = t[d] \cup {new}
      BY <2>1 DEF Parse
    <3>2. new.fid = g'.fidOf[p] /\ g.pathOf[g'.fidOf[p]] = NoPath
      BY <1>1, <2>1, PutKeeps
    <3>3. \A r \in t["GTAGS"] : r.fid # new.fid
      BY <1>1, <3>2, TagParts, GpathAssumption DEF OwnTags
    <3> HIDE DEF new
    <3> QED BY <1>1, <3>1, <3>3 DEF OneParse
  <2>2. CASE t' = t
    BY <1>1, <2>2 DEF OneParse
  <2> QED BY <1>2, <2>1, <2>2
<1>5. RestInv'
  BY <1>1, <1>2, <1>3 DEF LostInv, RestInv, Updating, IsSource, disk
<1>6. OneParseInv'
  BY <1>1, <1>2, <1>4 DEF OneParseInv, DbFile, disk
<1> QED BY <1>1, <1>2, <1>5, <1>6
        DEF LostInv, NoticedInv, CollectInv, WriteInv, FinishInv, Updating, DbFile, disk

(* incremental, one file: it is put on the list it belongs to.             *)
LEMMA VisitLost == ASSUME TypeInv, LostInv, NEW p \in Path, Visit(p) PROVE LostInv'
<1> USE Parts
<1>1. /\ pc = "find" /\ mode = "incremental" /\ p \in toFind /\ toFind' = toFind \ {p}
      /\ UNCHANGED env /\ UNCHANGED disk /\ UNCHANGED <<pc, mode, g, t, oldMtime, id, deletelist>>
  BY DEF Visit
<1>2. /\ g = gpath /\ oldMtime = tagMtime /\ ready = DbFile /\ deletelist = {}
      /\ p \notin addlist \cup addlist_other
  BY <1>1 DEF LostInv, CollectInv, RestInv, Updating
<1> DEFINE fid     == g.fidOf[p]
           listed  == Exists(p) /\ (IsSource(p) \/ ~IsBinary(p))
           new     == listed /\ fid = NoFid
           changed == listed /\ fid # NoFid /\ IsSource(p) /\ oldMtime < mtime[p]
<1>3. /\ findset' = IF listed THEN IF fid # NoFid THEN findset \cup {fid} ELSE findset ELSE findset
      /\ addlist_other' = IF new /\ ~IsSource(p) THEN addlist_other \cup {p} ELSE addlist_other
      /\ addlist' = IF (new /\ IsSource(p)) \/ changed THEN addlist \cup {p} ELSE addlist
      /\ deleteset' = IF changed THEN deleteset \cup {fid} ELSE deleteset
  BY DEF Visit, NoteFound, Outdated
<1>4. HasPath(g, p) <=> fid # NoFid
  BY DEF HasPath
<1>5. HasPath(g, p) => g.pathOf[fid] = p
  BY IdOfPath
<1>6. tagMtime < mtime[p] <=> mtime[p] > tagMtime
  BY DEF TypeInv, TypeOK
<1> HIDE DEF fid
<1>7. RestInv'
  BY <1>1, <1>2, <1>3 DEF LostInv, RestInv, Updating, TypesAgree, IsSource, HasPath, env, disk
<1>8. NoticedInv'
  <2>1. \A q \in Path : Noticed(q)' <=> Noticed(q)
    BY <1>1 DEF Noticed, Parsable, Exists, IsSource, TagsCurrent, HasPath, env, disk
  <2>2. Unwritten /\ Updating
    BY <1>1 DEF Unwritten, Updating
  <2>3. \A q \in addlist' : HasPath(gpath, q) => mtime[q] > tagMtime
    BY <1>1, <1>2, <1>3, <1>4, <1>6, <2>2 DEF LostInv, NoticedInv
  <2> QED BY <1>1, <2>1, <2>2, <2>3 DEF LostInv, NoticedInv, Unwritten, HasPath, env, disk
<1>9. CollectInv'
  <2>0. /\ \A q \in toFind : q \notin addlist \cup addlist_other
        /\ \A q \in addlist : HasPath(g, q) => g.fidOf[q] \in deleteset
        /\ \A f \in deleteset : g.pathOf[f] \in addlist \cup deletelist
        /\ \A q \in Path \ (raced \cup toFind) :
              Exists(q) /\ (IsSource(q) \/ ~IsBinary(q)) /\ HasPath(g, q) => g.fidOf[q] \in findset
        /\ \A q \in Path \ raced : q \in toFind \/ Planned(q, tags)
    BY <1>1 DEF LostInv, CollectInv, Updating
  <2>1. \A q \in toFind' : q \notin addlist' \cup addlist_other'
    BY <2>0, <1>1, <1>3
  <2>2. \A q \in addlist' : HasPath(g, q) => g.fidOf[q] \in deleteset'
    BY <2>0, <1>3, <1>4 DEF fid
  <2>3. \A f \in deleteset' : g.pathOf[f] \in addlist' \cup deletelist
    BY <2>0, <1>3, <1>4, <1>5
  <2>4. ASSUME NEW q \in Path \ (raced \cup toFind'),
               Exists(q) /\ (IsSource(q) \/ ~IsBinary(q)) /\ HasPath(g, q)
        PROVE  g.fidOf[q] \in findset'
    BY <2>0, <2>4, <1>1, <1>3, <1>4 DEF fid
  <2>5. ASSUME NEW q \in Path \ raced, q \notin toFind' PROVE Planned(q, tags)'
    <3>1. Parsable(q)' <=> Parsable(q)
      BY <1>1 DEF Parsable, Exists, IsSource, env
    <3>2. CASE q # p
      <4>1. Planned(q, tags)
        BY <2>0, <2>5, <3>2, <1>1
      <4> QED BY <4>1, <3>1, <1>1, <1>3 DEF Planned, TagsCurrent, HasPath, env, disk
    <3>3. CASE q = p
      <4>1. SUFFICES ASSUME Parsable(p), p \notin addlist' PROVE HasPath(g, p) /\ TagsCurrent(tags, g, p)
        BY <3>1, <3>3, <1>1, <1>2 DEF Planned, TagsCurrent, HasPath, env, disk
      <4>2. listed /\ IsSource(p) /\ HasPath(g, p) /\ ~(oldMtime < mtime[p])
        BY <4>1, <1>3, <1>4 DEF Parsable
      <4>3. Noticed(p)
        BY <1>1, <1>2, <2>5, <3>3 DEF LostInv, NoticedInv, Unwritten
      <4> QED BY <4>1, <4>2, <4>3, <1>2, <1>6 DEF Noticed
    <3> QED BY <3>2, <3>3
  <2> QED BY <1>1, <1>2, <2>1, <2>2, <2>3, <2>4, <2>5
          DEF CollectInv, Updating, HasPath, Exists, IsSource, IsBinary, env, disk
<1>10. OneParseInv'
  BY <1>1 DEF LostInv, OneParseInv, OneParse, disk
<1> QED BY <1>1, <1>7, <1>8, <1>9, <1>10 DEF LostInv, WriteInv, FinishInv

(* A run that dies, before it has written anything, leaves what was there. *)
LEMMA DieLost ==
    ASSUME TypeInv, LostInv, Die, Updating, Unwritten PROVE LostInv'
<1>1. /\ pc' = "idle" /\ UNCHANGED env /\ UNCHANGED disk /\ mode' = mode /\ ready = DbFile
      /\ g' = EmptyGpath /\ toFind' = {} /\ id' = 1 /\ deleteset' = {}
      /\ addlist' = {} /\ addlist_other' = {} /\ deletelist' = {}
  BY DEF Die, Exit, LostInv, RestInv
<1>2. TypesAgree(g)'
  BY <1>1 DEF TypesAgree, EmptyGpath, HasPath
<1>3. RestInv'
  BY <1>1, <1>2 DEF LostInv, RestInv, TypesAgree, Updating, HasPath, IsSource, env, disk
<1>4. NoticedInv'
  <2>1. \A q \in Path : Noticed(q)' <=> Noticed(q)
    BY <1>1 DEF Noticed, Parsable, Exists, IsSource, TagsCurrent, HasPath, env, disk
  <2> QED BY <1>1, <2>1 DEF LostInv, NoticedInv, Updating, env
<1>5. OneParseInv'
  BY <1>1 DEF LostInv, OneParseInv, OneParse, Updating, Unwritten, disk
<1> QED BY <1>1, <1>3, <1>4, <1>5 DEF LostInv, CollectInv, WriteInv, FinishInv, Updating

(* The end of the scan, of the delete list loop and of the addlist loop.   *)
LEMMA ScanEndsLost ==
    ASSUME TypeInv, LostInv, FindDone \/ IdsDone \/ AddDone PROVE LostInv'
<1>1. /\ UNCHANGED env /\ UNCHANGED disk /\ UNCHANGED mem /\ mode' = mode
  BY DEF FindDone, IdsDone, AddDone
<1>2. \A q \in Path : /\ Planned(q, tags)' <=> Planned(q, tags)
                      /\ Planned(q, t)' <=> Planned(q, t)
                      /\ Noticed(q)' <=> Noticed(q)
  BY <1>1 DEF Planned, Noticed, Parsable, Exists, IsSource, TagsCurrent, HasPath, env, disk, mem
<1>3. \/ pc = "find" /\ toFind = {} /\ pc' = IF mode = "create" THEN "closeGtags" ELSE "ids"
      \/ pc = "ids" /\ pc' = "update"
      \/ pc = "add" /\ addlist = {} /\ pc' = "closeGtags"
  BY DEF FindDone, IdsDone, AddDone
<1>4. RestInv'
  BY <1>1, <1>3 DEF LostInv, RestInv, Updating, TypesAgree, HasPath, IsSource, env, disk, mem
<1>5. NoticedInv'
  BY <1>1, <1>2, <1>3 DEF LostInv, NoticedInv, Unwritten, Updating, HasPath, env, disk, mem
<1>6. CollectInv'
  BY <1>1, <1>2, <1>3
     DEF LostInv, CollectInv, Updating, HasPath, Exists, IsSource, IsBinary, env, disk, mem
<1>7. WriteInv'
  BY <1>1, <1>2, <1>3 DEF LostInv, WriteInv, Updating, HasPath, env, disk, mem
<1>8. OneParseInv' /\ FinishInv'
  BY <1>1, <1>3 DEF LostInv, OneParseInv, OneParse, FinishInv, Updating, disk, mem
<1> QED BY <1>4, <1>5, <1>6, <1>7, <1>8 DEF LostInv

(* One id of the delete list loop: a listed file stays, and what is put    *)
(* into deleteset belongs to a file of deletelist.                         *)
LEMMA CheckIdLost == ASSUME TypeInv, LostInv, CheckId PROVE LostInv'
<1> USE Parts
<1>1. /\ pc = "ids" /\ UNCHANGED env /\ UNCHANGED disk
      /\ UNCHANGED <<pc, mode, g, t, oldMtime, toFind, findset, addlist, addlist_other>>
  BY DEF CheckId
<1>2. Updating /\ g = gpath /\ mode = "incremental" /\ toFind = {} /\ TypesAgree(g)
  <2>1. mode # "create"
    BY <1>1 DEF LostInv, RestInv
  <2> QED BY <1>1, <2>1 DEF LostInv, CollectInv, RestInv, Updating
<1>3. id \in Fid
  BY SMT, GpathAssumption DEF CheckId, TypeInv, TypeOK, GpathRec, Fid
<1> DEFINE p == g.pathOf[id]
<1>4. ASSUME p # NoPath
      PROVE  /\ p \in Path /\ HasPath(g, p) /\ g.fidOf[p] = id
             /\ g.ftypeOf[id] = "other" <=> ~IsSource(p)
  <2>1. p \in Path /\ HasPath(g, p) /\ g.fidOf[p] = id
    BY <1>3, <1>4, IdOfPath DEF GpathRec
  <2>2. g.ftypeOf[id] = g.typeOf[p] /\ g.typeOf[p] \in FileType
    BY <2>1 DEF GpathConsistent, GpathRec
  <2> QED BY <2>1, <2>2, <1>2 DEF TypesAgree, FileType
<1>5. \/ deletelist' = deletelist /\ deleteset' = deleteset
      \/ /\ p # NoPath /\ deletelist' = deletelist \cup {p} /\ deleteset' \in {deleteset, deleteset \cup {id}}
         /\ \/ id \notin findset \/ ~Exists(p)
            \/ IsBinary(p) /\ ~IsSource(p)
  <2>1. CASE g.ftypeOf[id] = "other"
    BY <1>4, <2>1 DEF CheckId, IsBinary
  <2>2. CASE g.ftypeOf[id] # "other"
    BY <1>4, <2>2 DEF CheckId, RetireTags, IsBinary
  <2> QED BY <2>1, <2>2
<1> HIDE DEF p
<1>6. \A q \in Path : /\ Noticed(q)' <=> Noticed(q)
                      /\ Parsable(q)' <=> Parsable(q)
                      /\ TagsCurrent(tags, g, q)' <=> TagsCurrent(tags, g, q)
  BY <1>1 DEF Noticed, Parsable, Exists, IsSource, TagsCurrent, HasPath, env, disk
<1>7. ASSUME NEW q \in Path \ raced PROVE Planned(q, tags)'
  <2>1. Planned(q, tags)
    BY <1>1, <1>2, <1>7 DEF LostInv, CollectInv
  <2>2. Parsable(q) => q \notin deletelist'
    <3> SUFFICES ASSUME Parsable(q), q \in deletelist', q \notin deletelist PROVE FALSE
      BY <2>1 DEF Planned
    <3>1. q = p /\ p # NoPath /\ \/ id \notin findset \/ ~Exists(p)
                                 \/ IsBinary(p) /\ ~IsSource(p)
      BY <1>5
    <3>2. HasPath(g, q) /\ g.fidOf[q] = id
      BY <1>4, <3>1 DEF p
    <3>3. id \in findset
      BY <1>1, <1>2, <1>7, <3>2 DEF LostInv, CollectInv, Parsable
    <3> QED BY <3>1, <3>3 DEF Parsable
  <2> QED BY <1>1, <1>6, <2>1, <2>2 DEF Planned, HasPath
<1>8. \A f \in deleteset' : g.pathOf[f] \in addlist \cup deletelist'
  <2>1. \A f \in deleteset : g.pathOf[f] \in addlist \cup deletelist
    BY <1>1, <1>2 DEF LostInv, CollectInv
  <2> QED BY <1>5, <2>1 DEF p
<1>9. RestInv'
  BY <1>1, <1>2 DEF LostInv, RestInv, Updating, TypesAgree, HasPath, IsSource, env, disk
<1>10. NoticedInv'
  BY <1>1, <1>6 DEF LostInv, NoticedInv, Unwritten, Updating, HasPath, env, disk
<1>11. CollectInv'
  BY <1>1, <1>2, <1>5, <1>7, <1>8
     DEF LostInv, CollectInv, Updating, HasPath, Exists, IsSource, IsBinary, env, disk
<1>12. OneParseInv'
  BY <1>1 DEF LostInv, OneParseInv, OneParse, disk
<1> QED BY <1>1, <1>9, <1>10, <1>11, <1>12 DEF LostInv, WriteInv, FinishInv

(* updatetags: the tags of the files that are parsed again are gone, those *)
(* of the other files are left.                                            *)
LEMMA UpdateTagsLost == ASSUME TypeInv, LostInv, UpdateTags PROVE LostInv'
<1> USE Parts
<1>1. /\ pc = "update" /\ pc' = "add" /\ UNCHANGED env /\ UNCHANGED disk
      /\ UNCHANGED <<mode, g, oldMtime, toFind, id, findset, deleteset,
                     addlist, addlist_other, deletelist>>
      /\ \A d \in Tag : t'[d] = WithoutTags(tags[d], deleteset)
  BY DEF UpdateTags
<1>2. Updating /\ g = gpath /\ ready = DbFile
  BY <1>1 DEF LostInv, CollectInv, RestInv, Updating
<1>3. /\ \A p \in addlist : HasPath(g, p) => g.fidOf[p] \in deleteset
      /\ \A f \in deleteset : g.pathOf[f] \in addlist \cup deletelist
      /\ \A p \in Path \ raced : Planned(p, tags)
      /\ mode = "single" => \A p, q \in addlist : p = q
  BY <1>1, <1>2 DEF LostInv, CollectInv
<1>4. \A f : /\ f \in deleteset => \A d \in Tag : TagsOf(t'[d], f) = {}
             /\ f \notin deleteset => \A d \in Tag : TagsOf(t'[d], f) = TagsOf(tags[d], f)
  BY <1>1 DEF WithoutTags, TagsOf
<1>5. ASSUME NEW p \in Path \ raced PROVE Planned(p, t)'
  <2>1. CASE Parsable(p) /\ p \notin addlist
    <3>1. p \notin deletelist /\ HasPath(g, p) /\ TagsHold(tags, g.fidOf[p], p, ver[p])
      BY <1>3, <2>1 DEF Planned, TagsCurrent
    <3>2. g.pathOf[g.fidOf[p]] = p
      BY <3>1, IdOfPath
    <3>3. g.fidOf[p] \notin deleteset
      BY <1>3, <2>1, <3>1, <3>2
    <3>4. TagsHold(t', g.fidOf[p], p, ver[p])
      BY <1>4, <3>1, <3>3 DEF TagsHold
    <3> QED BY <1>1, <3>1, <3>4 DEF Planned, TagsCurrent, HasPath, env
  <2>2. CASE ~Parsable(p) \/ p \in addlist
    BY <1>1, <1>3, <2>2 DEF Planned, Parsable, Exists, IsSource, env
  <2> QED BY <2>1, <2>2
<1>6. RestInv'
  BY <1>1, <1>2 DEF LostInv, RestInv, Updating, TypesAgree, HasPath, IsSource, env, disk
<1>7. NoticedInv'
  <2>1. \A q \in Path : Noticed(q)' <=> Noticed(q)
    BY <1>1 DEF Noticed, Parsable, Exists, IsSource, TagsCurrent, HasPath, env, disk
  <2> QED BY <1>1, <1>3, <2>1 DEF LostInv, NoticedInv, Unwritten, Updating, HasPath, env, disk
<1>8. WriteInv'
  BY <1>1, <1>3, <1>4, <1>5 DEF WriteInv, HasPath, env
<1>9. OneParseInv'
  <2>1. OneParse(tags)
    BY <1>1, <1>2 DEF LostInv, OneParseInv
  <2>2. OneParse(t)'
    BY <1>1, <2>1 DEF OneParse, WithoutTags
  <2> QED BY <1>1, <2>1, <2>2 DEF OneParseInv, OneParse, disk
<1> QED BY <1>1, <1>6, <1>7, <1>8, <1>9 DEF LostInv, CollectInv, FinishInv

LEMMA SkipTagsLost == ASSUME TypeInv, LostInv, SkipTags PROVE LostInv'
<1>1. /\ pc = "update" /\ pc' \in {"gpath", "closeGpath"} /\ addlist = {}
      /\ UNCHANGED env /\ UNCHANGED disk /\ UNCHANGED mem /\ mode' = mode
  BY DEF SkipTags
<1>2. Updating /\ ready = DbFile
  BY <1>1 DEF LostInv, RestInv, Updating
<1>3. \A p \in Path \ raced : Planned(p, tags)'
  BY <1>1, <1>2
     DEF LostInv, CollectInv, Planned, Parsable, Exists, IsSource, TagsCurrent, HasPath, env, disk, mem
<1>4. RestInv'
  BY <1>1, <1>2 DEF LostInv, RestInv, Updating, TypesAgree, HasPath, IsSource, env, disk, mem
<1>5. OneParseInv'
  BY <1>1, <1>2 DEF LostInv, OneParseInv, OneParse, disk, Updating
<1> QED BY <1>1, <1>2, <1>3, <1>4, <1>5
        DEF LostInv, NoticedInv, Unwritten, CollectInv, WriteInv, FinishInv, env, mem

(* updatetags, one file of the addlist: it was left without tags, gets     *)
(* those of its content, and is up to date even if it had changed under    *)
(* the run.                                                                *)
LEMMA AddFileLost ==
    ASSUME Unkilled, TypeInv, MatchInv, LostInv, NEW p \in Path, AddFile(p) PROVE LostInv'
<1> USE Parts
<1>1. /\ pc = "add" /\ p \in addlist /\ (Exists(p) \/ ~IsSource(p))
      /\ PutPath(p, "source") /\ Parse(p, g'.fidOf[p]) /\ addlist' = addlist \ {p}
      /\ raced' = IF p \in deletelist THEN raced ELSE raced \ {p}
      /\ UNCHANGED <<now, kind, ver, mtime, langmap, pc, mode>> /\ UNCHANGED disk
      /\ UNCHANGED <<oldMtime, toFind, id, findset, deleteset, addlist_other, deletelist>>
  BY DEF AddFile
<1>2. Updating /\ ready = DbFile /\ Parsable(p)
  BY <1>1 DEF LostInv, RestInv, Updating, Parsable
<1>3. /\ \A q \in addlist : HasPath(g, q) => \A d \in Tag : TagsOf(t[d], g.fidOf[q]) = {}
      /\ \A q \in Path \ raced : Planned(q, t)
      /\ OneParse(t) /\ OneParse(tags) /\ TypesAgree(g)
  BY <1>1, <1>2 DEF LostInv, WriteInv, OneParseInv, RestInv
<1> DEFINE f == g'.fidOf[p]
<1>4. /\ \A q \in Path \ {p} : g'.fidOf[q] = g.fidOf[q] /\ g'.fidOf[q] # f
      /\ HasPath(g, p) => f = g.fidOf[p]
      /\ ~HasPath(g, p) => g.pathOf[f] = NoPath
      /\ f \in Fid
  BY <1>1, PutKeeps
<1>5. \A d \in Tag : TagsOf(t[d], f) = {}
  <2>1. CASE HasPath(g, p)
    BY <1>1, <1>3, <1>4, <2>1
  <2>2. CASE ~HasPath(g, p)
    <3>1. Match(t, g)
      BY <1>1, <1>2 DEF MatchInv, MatchUpdate
    <3>2. f = g.next
      BY <1>1, <2>2, GpathPutEffect DEF PutPath
    <3>3. \A d \in Tag : \A r \in t[d] : r.fid # f
      BY <3>1, <3>2, TagParts, FidOrder, SMT DEF Match
    <3> QED BY <3>3 DEF TagsOf
  <2> QED BY <2>1, <2>2
<1>6. \A d \in Tag : t'[d] = t[d] \cup {[fid |-> f, path |-> p, ver |-> ver[p]]}
  BY <1>1, <1>2 DEF Parse, Parsable
<1>7. TypesAgree(g)'
  BY <1>1, <1>2, <1>3, PutTypesAgree DEF Parsable
<1>8. HasPath(g', p)
  BY <1>4, SMT DEF HasPath, NoFid, Fid
<1> HIDE DEF f
<1>9. /\ TagsHold(t', f, p, ver[p])
      /\ \A h, q, w : h # f /\ TagsHold(t, h, q, w) => TagsHold(t', h, q, w)
  BY <1>5, <1>6, OneMoreTag
<1>10. \A h : h # f => \A d \in Tag : TagsOf(t'[d], h) = TagsOf(t[d], h)
  <2> DEFINE rec == [fid |-> f, path |-> p, ver |-> ver[p]]
  <2>1. rec.fid = f /\ \A d \in Tag : t'[d] = t[d] \cup {rec}
    BY <1>6
  <2> HIDE DEF rec
  <2> QED BY <2>1 DEF TagsOf
<1>11. ASSUME NEW q \in Path \ raced' PROVE Planned(q, t)'
  <2>1. CASE q = p
    <3>1. p \notin deletelist
      BY <1>1, <1>2, <1>3, <1>11, <2>1 DEF Planned
    <3> QED BY <1>1, <1>8, <1>9, <2>1, <3>1 DEF Planned, TagsCurrent, f
  <2>2. CASE q # p
    <3>1. Planned(q, t)
      BY <1>1, <1>3, <1>11, <2>2
    <3>2. HasPath(g, q) /\ TagsCurrent(t, g, q) => HasPath(g', q) /\ TagsHold(t', g'.fidOf[q], q, ver[q])
      BY <1>4, <1>9, <2>2 DEF HasPath, TagsCurrent, f
    <3> QED BY <1>1, <2>2, <3>1, <3>2 DEF Planned, TagsCurrent, Parsable, Exists, IsSource
  <2> QED BY <2>1, <2>2
<1>12. RestInv'
  BY <1>1, <1>2, <1>7 DEF LostInv, RestInv, Updating, TypesAgree, HasPath, IsSource, disk
<1>13. NoticedInv'
  <2>1. \A q \in Path : Noticed(q)' <=> Noticed(q)
    BY <1>1 DEF Noticed, Parsable, Exists, IsSource, TagsCurrent, HasPath, disk
  <2>2. ASSUME Unwritten', NEW q \in Path \ raced' PROVE Noticed(q)
    <3>1. Unwritten /\ addlist \ {p} # {}
      BY <1>1, <2>2 DEF Unwritten
    <3>2. CASE q \in raced
      <4>1. q = p
        BY <1>1, <2>2, <3>2
      <4>2. mode = "incremental"
        BY <1>1, <1>2, <3>1 DEF LostInv, NoticedInv, Updating, TypeInv, TypeOK
      <4>3. HasPath(gpath, p) => mtime[p] > tagMtime
        BY <1>1, <1>2, <3>1, <4>2 DEF LostInv, NoticedInv
      <4> QED BY <4>1, <4>3 DEF Noticed
    <3>3. CASE q \notin raced
      BY <1>2, <2>2, <3>1, <3>3 DEF LostInv, NoticedInv
    <3> QED BY <3>2, <3>3
  <2>3. Unwritten
    BY <1>1 DEF Unwritten
  <2> QED BY <1>1, <1>2, <2>1, <2>2, <2>3 DEF LostInv, NoticedInv, Updating, HasPath, disk
<1>14. WriteInv'
  <2>1. \A q \in addlist' : HasPath(g', q) => \A d \in Tag : TagsOf(t'[d], g'.fidOf[q]) = {}
    BY <1>1, <1>3, <1>4, <1>10 DEF HasPath, f, TypeInv, TypeOK
  <2> QED BY <1>1, <1>11, <2>1 DEF WriteInv
<1>15. OneParseInv'
  <2> DEFINE rec == [fid |-> f, path |-> p, ver |-> ver[p]]
  <2>1. rec.fid = f /\ \A d \in Tag : t'[d] = t[d] \cup {rec}
    BY <1>6
  <2> HIDE DEF rec
  <2>2. \A r \in t["GTAGS"] : r.fid # rec.fid
    BY <1>5, <2>1 DEF TagsOf
  <2>3. OneParse(t)'
    BY <1>3, <2>1, <2>2 DEF OneParse
  <2> QED BY <1>1, <1>3, <2>3 DEF OneParseInv, OneParse, disk
<1> QED BY <1>1, <1>12, <1>13, <1>14, <1>15 DEF LostInv, CollectInv, FinishInv

(* What the end of a process leaves in its memory.                         *)
LEMMA ExitRest ==
    ASSUME Exit, LostInv, UNCHANGED env, ready' = DbFile, TypesAgree(gpath)',
           OneParse(tags)', \A p \in Path \ raced : Noticed(p)'
    PROVE  LostInv'
<1>1. /\ pc' = "idle" /\ g' = EmptyGpath /\ toFind' = {} /\ id' = 1 /\ deleteset' = {}
      /\ addlist' = {} /\ addlist_other' = {} /\ deletelist' = {}
  BY DEF Exit
<1>2. TypesAgree(g)'
  BY <1>1 DEF TypesAgree, EmptyGpath, HasPath
<1>3. RestInv'
  BY <1>1, <1>2 DEF LostInv, RestInv, Updating, env
<1>4. NoticedInv'
  BY <1>1 DEF NoticedInv, Updating, env
<1> QED BY <1>1, <1>3, <1>4
        DEF LostInv, CollectInv, WriteInv, FinishInv, Updating, OneParseInv

LEMMA CloseGtagsLost == ASSUME TypeInv, LostInv, CloseGtags PROVE LostInv'
<1> USE Parts
<1>1. /\ pc = "closeGtags" /\ pc' = IF mode = "create" THEN "closeGpath" ELSE "closeGrtags"
      /\ tags'["GTAGS"] = t["GTAGS"] /\ ready' = ready \cup {"GTAGS"}
      /\ UNCHANGED <<mode, gpath>> /\ UNCHANGED env /\ UNCHANGED mem
  BY DEF CloseGtags
<1>2. TypesAgree(gpath)' /\ TypesAgree(g)'
  BY <1>1 DEF LostInv, RestInv, TypesAgree, HasPath, IsSource, env, mem
<1>3. OneParse(t)'
  BY <1>1 DEF LostInv, OneParseInv, OneParse, Updating, mem
<1>4. CASE mode = "create"
  <2>1. ready' = {"GTAGS"}
    BY <1>1, <1>4 DEF LostInv, RestInv
  <2>2. RestInv'
    BY <1>1, <1>2, <1>4, <2>1 DEF LostInv, RestInv, Updating, IsSource, env, mem
  <2> QED BY <1>1, <1>3, <1>4, <2>1, <2>2
          DEF LostInv, NoticedInv, CollectInv, WriteInv, FinishInv, OneParseInv, Updating, DbFile
<1>5. CASE mode # "create"
  <2>1. Updating /\ ready' = DbFile
    BY <1>1, <1>5 DEF LostInv, RestInv, Updating, DbFile
  <2>2. RestInv'
    BY <1>1, <1>2, <1>5, <2>1 DEF LostInv, RestInv, Updating, IsSource, env, mem
  <2>3. addlist = {} /\ \A p \in Path \ raced : Planned(p, t)
    BY <1>1, <2>1 DEF LostInv, WriteInv
  <2>4. \A p \in Path \ raced : Planned(p, t)'
    BY <1>1, <2>3 DEF Planned, Parsable, Exists, IsSource, TagsCurrent, HasPath, env, mem
  <2>5. WriteInv'
    BY <1>1, <1>5, <2>3, <2>4 DEF WriteInv, env, mem
  <2> QED BY <1>1, <1>3, <1>5, <2>2, <2>5
          DEF LostInv, NoticedInv, Unwritten, CollectInv, FinishInv, OneParseInv
<1> QED BY <1>4, <1>5

LEMMA CloseGrtagsLost ==
    ASSUME TypeInv, CreatedInv, LostInv, CloseGrtags PROVE LostInv'
<1> USE Parts
<1>1. /\ pc = "closeGrtags" /\ ready' = ready \cup {"GRTAGS"}
      /\ tags'["GRTAGS"] = t["GRTAGS"] /\ tags'["GTAGS"] = tags["GTAGS"]
      /\ UNCHANGED <<mode, gpath, tagMtime>> /\ UNCHANGED env
  BY DEF CloseGrtags
<1>2. tags["GTAGS"] = t["GTAGS"] /\ OneParse(t)
  BY <1>1 DEF LostInv, WriteInv, CreatedInv, OneParseInv, Updating
<1>3. OneParse(tags)' /\ \A d \in Tag : tags'[d] = t[d]
  BY <1>1, <1>2 DEF OneParse
<1>4. TypesAgree(gpath)'
  BY <1>1 DEF LostInv, RestInv, TypesAgree, HasPath, IsSource, env
<1>5. ready' = DbFile
  BY <1>1 DEF LostInv, RestInv, Updating, DbFile
<1>6. CASE mode = "create"
  <2>1. \A p \in Path \ raced : Noticed(p)'
    BY <1>6, CreationEnds DEF Noticed, Current, Parsable, TagsCurrent, TagsHold
  <2> QED BY <1>1, <1>3, <1>4, <1>5, <1>6, <2>1, ExitRest DEF CloseGrtags
<1>7. CASE mode # "create"
  <2>1. pc' = "gpath" /\ UNCHANGED mem /\ Updating
    BY <1>1, <1>7 DEF CloseGrtags, Updating
  <2>2. addlist = {} /\ \A p \in Path \ raced : Planned(p, t)
    BY <1>1, <2>1 DEF LostInv, WriteInv
  <2>3. ASSUME NEW p \in Path \ raced PROVE Planned(p, tags)'
    BY <1>1, <1>3, <2>1, <2>2, <2>3
       DEF Planned, Parsable, Exists, IsSource, TagsCurrent, TagsHold, HasPath, env, mem
  <2>4. RestInv'
    BY <1>1, <1>4, <1>5, <1>7, <2>1
       DEF LostInv, RestInv, Updating, TypesAgree, HasPath, IsSource, env, mem
  <2> QED BY <1>1, <1>3, <1>7, <2>1, <2>2, <2>3, <2>4
          DEF LostInv, NoticedInv, Unwritten, CollectInv, WriteInv, FinishInv, OneParseInv, env, mem
<1> QED BY <1>6, <1>7

(* The changes of GPATH: a file that is to stay keeps its id.              *)
LEMMA GpathLost ==
    ASSUME TypeInv, LostInv, NEW p \in Path, DeletePath(p) \/ AddOther(p) PROVE LostInv'
<1> USE Parts
<1>1. /\ pc = "gpath" /\ UNCHANGED <<pc, mode>> /\ UNCHANGED env /\ UNCHANGED disk
      /\ UNCHANGED <<t, oldMtime, toFind, id, findset, deleteset, addlist>>
      /\ addlist_other' \subseteq addlist_other /\ deletelist' \subseteq deletelist
  BY DEF DeletePath, AddOther
<1>2. Updating /\ ready = DbFile
  BY <1>1 DEF LostInv, RestInv, Updating
<1>3. addlist = {} /\ TypesAgree(g) /\ \A q \in Path \ raced : Planned(q, tags)
  BY <1>1, <1>2 DEF LostInv, FinishInv, RestInv
<1>4. /\ TypesAgree(g)'
      /\ \A q \in Path : q \notin deletelist /\ HasPath(g, q) => g'.fidOf[q] = g.fidOf[q]
  <2>1. CASE DeletePath(p)
    <3>1. p \in deletelist /\ g' = GpathDelete(g, p)
      BY <2>1 DEF DeletePath
    <3>2. /\ ~HasPath(g', p) /\ g'.typeOf = g.typeOf
          /\ \A q \in Path \ {p} : g'.fidOf[q] = g.fidOf[q]
      BY <3>1, GpathDeleteEffect
    <3> QED BY <1>1, <1>3, <3>1, <3>2 DEF TypesAgree, HasPath, IsSource, env
  <2>2. CASE AddOther(p)
    <3>1. PutPath(p, "other") /\ ~IsSource(p)
      BY <2>2 DEF AddOther, LostInv, RestInv
    <3>2. TypesAgree(g)'
      BY <1>1, <1>3, <3>1, PutTypesAgree DEF env
    <3> QED BY <3>1, <3>2, PutKeeps
  <2> QED BY <2>1, <2>2
<1>5. ASSUME NEW q \in Path \ raced PROVE Planned(q, tags)'
  <2>1. Planned(q, tags)
    BY <1>3, <1>5
  <2>2. Parsable(q) => q \notin deletelist' /\ HasPath(g', q) /\ TagsHold(tags, g'.fidOf[q], q, ver[q])
    BY <1>1, <1>3, <1>4, <2>1 DEF Planned, TagsCurrent, HasPath
  <2> QED BY <1>1, <2>2 DEF Planned, TagsCurrent, Parsable, Exists, IsSource, env, disk
<1>6. RestInv'
  BY <1>1, <1>2, <1>4 DEF LostInv, RestInv, Updating, TypesAgree, HasPath, IsSource, env, disk
<1>7. OneParseInv'
  BY <1>1, <1>2 DEF LostInv, OneParseInv, OneParse, Updating, disk
<1> QED BY <1>1, <1>3, <1>5, <1>6, <1>7
        DEF LostInv, NoticedInv, Unwritten, CollectInv, WriteInv, FinishInv, env

LEMMA TouchLost == ASSUME TypeInv, LostInv, Touch PROVE LostInv'
<1>1. /\ pc = "gpath" /\ pc' = "closeGpath" /\ UNCHANGED <<mode, ready, gpath, tags>>
      /\ UNCHANGED env /\ UNCHANGED mem
  BY DEF Touch
<1>2. Updating /\ ready = DbFile
  BY <1>1 DEF LostInv, RestInv, Updating
<1>3. addlist = {} /\ \A q \in Path \ raced : Planned(q, tags)'
  BY <1>1, <1>2
     DEF LostInv, FinishInv, Planned, Parsable, Exists, IsSource, TagsCurrent, HasPath, env, mem
<1>4. RestInv'
  BY <1>1, <1>2 DEF LostInv, RestInv, Updating, TypesAgree, HasPath, IsSource, env, mem
<1>5. OneParseInv'
  BY <1>1, <1>2 DEF LostInv, OneParseInv, OneParse, Updating, mem
<1> QED BY <1>1, <1>3, <1>4, <1>5
        DEF LostInv, NoticedInv, Unwritten, CollectInv, WriteInv, FinishInv, env, mem

(* The last file reaches the disk: every file that was planned for has its *)
(* tags.                                                                   *)
LEMMA CloseGpathLost == ASSUME TypeInv, LostInv, CloseGpath PROVE LostInv'
<1> USE Parts
<1>1. /\ pc = "closeGpath" /\ gpath' = g /\ ready' = ready \cup {"GPATH"}
      /\ UNCHANGED <<mode, exists, tags, tagMtime>> /\ UNCHANGED env
  BY DEF CloseGpath
<1>2. TypesAgree(gpath)'
  BY <1>1 DEF LostInv, RestInv, TypesAgree, HasPath, IsSource, env
<1>3. CASE mode = "create"
  <2>1. pc' = "closeGrtags" /\ UNCHANGED mem /\ ready' = {"GTAGS", "GPATH"}
    BY <1>1, <1>3 DEF CloseGpath, LostInv, RestInv
  <2>2. RestInv'
    BY <1>1, <1>2, <1>3, <2>1
       DEF LostInv, RestInv, Updating, TypesAgree, HasPath, IsSource, env, mem
  <2>3. OneParse(t)'
    BY <1>1, <1>3, <2>1 DEF LostInv, OneParseInv, OneParse, mem
  <2> QED BY <1>1, <1>3, <2>1, <2>2, <2>3
          DEF LostInv, NoticedInv, CollectInv, WriteInv, FinishInv, OneParseInv, Updating, DbFile
<1>4. CASE mode # "create"
  <2>1. Updating /\ ready' = DbFile /\ Exit
    BY <1>1, <1>4 DEF CloseGpath, LostInv, RestInv, Updating, DbFile
  <2>2. \A p \in Path \ raced : Noticed(p)'
    BY <1>1, <2>1
       DEF LostInv, FinishInv, Planned, Noticed, TagsCurrent, Parsable, Exists, IsSource, HasPath, env
  <2>3. OneParse(tags)'
    BY <1>1, <2>1 DEF LostInv, RestInv, OneParseInv, OneParse
  <2> QED BY <1>1, <1>2, <2>1, <2>2, <2>3, ExitRest
<1> QED BY <1>3, <1>4
-----------------------------------------------------------------------------
(* Every step keeps LostInv when gtags is not killed, whenever files       *)
(* change.                                                                 *)
LEMMA StepLostInv ==
    ASSUME Unkilled
    PROVE  TypeInv /\ MatchInv /\ CreatedInv /\ LostInv /\ [Next]_vars => LostInv'
<1> SUFFICES ASSUME TypeInv, MatchInv, CreatedInv, LostInv, [Next]_vars PROVE LostInv'
  OBVIOUS
<1>1. ASSUME Die, pc \in {"find", "update", "add"}, mode # "create", pc = "add" => addlist # {}
      PROVE  LostInv'
  BY <1>1, DieLost DEF Updating, Unwritten
<1>2. CASE UpdateTagsDies
  <2>1. mode # "create" /\ ready = DbFile
    BY <1>2 DEF UpdateTagsDies, LostInv, RestInv, Updating
  <2> QED BY <1>2, <2>1 DEF UpdateTagsDies, DbFile, Tag
<1>3. ASSUME NEW p \in Path, VisitVanished(p) \/ AddVanished(p) PROVE LostInv'
  BY <1>1, <1>3 DEF VisitVanished, AddVanished, LostInv, RestInv
<1>4. CASE User
  BY <1>4, UserLost
<1>5. CASE Start
  BY <1>5, StartCreateLost, StartIncrementalLost, StartSingleLost DEF Start
<1>6. CASE Step
  BY <1>2, <1>3, <1>6, ScanEndsLost, CheckIdLost, UpdateTagsLost, SkipTagsLost,
     CloseGtagsLost, CloseGrtagsLost, TouchLost, CloseGpathLost,
     VisitCreateLost, VisitLost, AddFileLost, GpathLost DEF Step
<1>7. CASE UNCHANGED vars
  BY <1>7, ClockLost
<1>8. ~Crash
  BY DEF Crash, Unkilled
<1> QED BY <1>4, <1>5, <1>6, <1>7, <1>8 DEF Next

LEMMA InitLostInv == Init => LostInv
<1> SUFFICES ASSUME Init PROVE LostInv
  OBVIOUS
<1>1. TypesAgree(g) /\ TypesAgree(gpath)
  BY DEF Init, TypesAgree, EmptyGpath, HasPath
<1>2. \A p \in Path : mtime[p] <= now
  <2> SUFFICES ASSUME NEW p \in Path PROVE mtime[p] <= now
    OBVIOUS
  <2>1. now = 1 /\ mtime[p] = 0
    BY DEF Init
  <2> QED BY <2>1
<1>3. RestInv
  BY <1>1, <1>2 DEF Init, RestInv, Updating
<1> QED BY <1>3
        DEF Init, LostInv, NoticedInv, CollectInv, WriteInv, FinishInv, OneParseInv, Updating, DbFile, Tag

LEMMA LostHolds ==
    ASSUME Unkilled PROVE Spec => [](TypeInv /\ MatchInv /\ CreatedInv /\ LostInv)
<1>1. Init => MatchInv /\ CreatedInv
  BY DEF Init, CreatedInv, MatchInv, NoWrongPath, MatchCreate, MatchUpdate, Updating, Match, NoTags
<1>2. ~MayCrash
  BY DEF Unkilled
<1> QED BY <1>1, <1>2, InitTypeInv, InitLostInv, StepTypeInv, StepMatchInv, StepCreatedInv, StepLostInv, PTL
        DEF Spec

(* No change is lost: whenever files change, a file whose tags are old has *)
(* a time that the next gtags -i compares as newer than GTAGS, unless it   *)
(* changed where times cannot tell.                                        *)
THEOREM NoLostUpdateHolds ==
    ASSUME Unkilled PROVE Spec => []NoLostUpdate
<1>1. LostInv => NoLostUpdate
  <2> SUFFICES ASSUME LostInv, AtRest, NEW p \in Path,
                      HasPath(gpath, p), Exists(p), IsSource(p), p \notin raced
               PROVE  Current(p) \/ mtime[p] > tagMtime
    BY DEF NoLostUpdate
  <2>1. Noticed(p)
    BY DEF LostInv, NoticedInv, AtRest, Unwritten
  <2> QED BY <2>1 DEF Noticed, Parsable, TagsCurrent, TagsHold, Current
<1> QED BY <1>1, LostHolds, PTL

(* Definitions and references always come from the same parse, and no file *)
(* has tags of two contents, whenever files change.                        *)
THEOREM OneContentPerFileHolds ==
    ASSUME Unkilled PROVE Spec => []OneContentPerFile
<1>1. LostInv => OneContentPerFile
  BY DEF LostInv, OneParseInv, OneParse, OneContentPerFile, AtRest
<1> QED BY <1>1, LostHolds, PTL
-----------------------------------------------------------------------------
(* Undisturbed runs: what becomes of the files that have no language.      *)

Settled == LostInv /\ PhaseInv /\ raced = {}

LEMMA UserOther ==
    ASSUME ~Racy, OtherInv, raced = {}, User \/ UNCHANGED vars
    PROVE  OtherInv' /\ raced' = {}
<1>1. ASSUME NEW p \in Path, NEW k, Change(p, k) PROVE ~Updating' /\ raced' = {}
  BY <1>1 DEF Change, Quiet, Updating
<1>2. ASSUME UNCHANGED <<kind, langmap, raced, pc, mode>>, UNCHANGED mem
      PROVE  OtherInv' /\ raced' = {}
  BY <1>2 DEF OtherInv, Updating, PlannedOther, Unchecked, Parsable, Exists, IsSource, HasPath, mem
<1>3. CASE ChangeLangmap
  BY <1>3 DEF ChangeLangmap, OtherInv, Updating
<1>4. CASE Tick \/ UNCHANGED vars
  BY <1>2, <1>4 DEF Tick, vars, mem
<1> QED BY <1>1, <1>3, <1>4 DEF User, Edit, Create, Remove, OtherInv

LEMMA StartOther ==
    ASSUME SingleOnlyChange, TypeInv, Settled, Start PROVE OtherInv' /\ raced' = {}
<1> USE Parts DEF Settled
<1>1. CASE StartCreate
  BY <1>1 DEF StartCreate, OtherInv, Updating, env
<1>2. CASE StartIncremental
  <2>1. /\ pc' = "find" /\ g' = gpath /\ toFind' = {p \in Path : Exists(p)}
        /\ addlist_other' = {} /\ deletelist' = {} /\ UNCHANGED env
    BY <1>2 DEF StartIncremental, OpenForUpdate, LostInv, RestInv
  <2>2. ASSUME NEW p \in Path, p \notin toFind' PROVE PlannedOther(p)'
    BY <2>1, <2>2 DEF PlannedOther, Unchecked, Exists, env
  <2> QED BY <2>1, <2>2 DEF OtherInv, env
<1>3. ASSUME NEW p \in Path, StartSingle(p) PROVE OtherInv' /\ raced' = {}
  <2>1. /\ pc' = "update" /\ g' = gpath /\ UNCHANGED env /\ ~IsBinary(p)
        /\ \A q \in Path \ {p} : Current(q)
        /\ TypesAgree(gpath)
    BY <1>3 DEF StartSingle, OpenForUpdate, LostInv, RestInv
  <2>2. deletelist' \subseteq {p} /\ addlist_other' \subseteq {p}
    BY <1>3 DEF StartSingle
  <2>3. ASSUME NEW q \in Path \ {p}, ~Parsable(q) PROVE PlannedOther(q)'
    <3>1. HasPath(gpath, q) <=> kind[q] = "text"
      BY <2>1, <2>3 DEF Current, Parsable
    <3> QED BY <2>1, <2>2, <2>3, <3>1 DEF PlannedOther, HasPath, env
  <2>4. ASSUME ~Parsable(p) PROVE PlannedOther(p)'
    <3>1. CASE ~HasPath(gpath, p)
      <4>1. Exists(p) /\ deletelist' = {} /\ addlist_other' = IF IsSource(p) THEN {} ELSE {p}
        BY <1>3, <3>1 DEF StartSingle
      <4>2. kind[p] = "text" /\ ~IsSource(p)
        BY <2>1, <2>4, <4>1 DEF Parsable, Exists, IsBinary, TypeInv, TypeOK
      <4> QED BY <2>1, <4>1, <4>2 DEF PlannedOther, env
    <3>2. CASE HasPath(gpath, p) /\ ~Exists(p)
      <4>1. deletelist' = {p} /\ addlist_other' = {}
        BY <1>3, <3>2 DEF StartSingle
      <4> QED BY <2>1, <3>2, <4>1 DEF PlannedOther, Exists, env
    <3>3. CASE HasPath(gpath, p) /\ Exists(p)
      <4>1. gpath.typeOf[p] # "other"
        BY <1>3, <3>3 DEF StartSingle
      <4>2. IsSource(p)
        BY <2>1, <3>3, <4>1 DEF TypesAgree, GpathRec, FileType
      <4> QED BY <2>4, <3>3, <4>2 DEF Parsable
    <3> QED BY <3>1, <3>2, <3>3
  <2>5. \A q \in Path : Parsable(q)' <=> Parsable(q)
    BY <2>1 DEF Parsable, Exists, IsSource, env
  <2> QED BY <2>1, <2>3, <2>4, <2>5 DEF OtherInv, env
<1> QED BY <1>1, <1>2, <1>3 DEF Start

(* The scan: a text file is met, and one that is gone, or has become       *)
(* binary, waits for the delete list loop.                                 *)
LEMMA ScanOther ==
    ASSUME TypeInv, Settled, OtherInv, NEW p \in Path, Visit(p) PROVE OtherInv' /\ raced' = {}
<1> USE Parts DEF Settled
<1>1. /\ pc = "find" /\ mode = "incremental" /\ p \in toFind /\ toFind' = toFind \ {p}
      /\ UNCHANGED env /\ UNCHANGED <<pc, mode, g, deletelist>>
      /\ addlist_other' = IF Exists(p) /\ (IsSource(p) \/ ~IsBinary(p)) /\ ~HasPath(g, p) /\ ~IsSource(p)
                          THEN addlist_other \cup {p} ELSE addlist_other
  BY DEF Visit, HasPath
<1>2. deletelist = {} /\ p \notin addlist_other
  BY <1>1 DEF LostInv, RestInv, CollectInv, Updating
<1>3. ASSUME ~Parsable(p) PROVE PlannedOther(p)'
  <2>1. CASE kind[p] = "text"
    BY <1>1, <1>2, <1>3, <2>1 DEF PlannedOther, Parsable, Exists, IsBinary, env
  <2>2. CASE kind[p] # "text"
    <3>1. p \notin addlist_other'
      BY <1>1, <1>2, <1>3, <2>2 DEF Parsable, Exists, IsBinary, TypeInv, TypeOK
    <3> QED BY <1>1, <2>2, <3>1 DEF PlannedOther, Unchecked, env
  <2> QED BY <2>1, <2>2
<1>4. ASSUME NEW q \in Path \ {p}, PlannedOther(q) PROVE PlannedOther(q)'
  BY <1>1, <1>4 DEF PlannedOther, Unchecked, env
<1>5. \A q \in Path : Parsable(q)' <=> Parsable(q)
  BY <1>1 DEF Parsable, Exists, IsSource, env
<1> QED BY <1>1, <1>3, <1>4, <1>5 DEF OtherInv, Updating, env

(* The delete list loop finds every file that is gone or binary by its id, *)
(* and no other.                                                           *)
LEMMA CheckIdOther ==
    ASSUME TypeInv, Settled, OtherInv, CheckId PROVE OtherInv' /\ raced' = {}
<1> USE Parts DEF Settled
<1>1. /\ pc = "ids" /\ id' = id + 1 /\ UNCHANGED env /\ UNCHANGED <<pc, mode, g, findset, addlist_other>>
      /\ deletelist \subseteq deletelist' /\ deletelist' \subseteq deletelist \cup {g.pathOf[id]}
  BY DEF CheckId
<1>2. Updating /\ g = gpath /\ mode = "incremental" /\ toFind = {} /\ TypesAgree(g)
  <2>1. mode # "create"
    BY <1>1 DEF LostInv, RestInv
  <2> QED BY <1>1, <2>1 DEF LostInv, CollectInv, RestInv, Updating
<1>3. id \in Fid /\ id \in Nat
  BY SMT, GpathAssumption DEF CheckId, TypeInv, TypeOK, GpathRec, Fid
<1>4. ASSUME NEW q \in Path, ~Parsable(q), PlannedOther(q) PROVE PlannedOther(q)'
  <2>0. HasPath(g, q) => /\ g.fidOf[q] \in Fid /\ g.pathOf[g.fidOf[q]] = q
                         /\ g.ftypeOf[g.fidOf[q]] = g.typeOf[q] /\ g.typeOf[q] \in FileType
    BY IdOfPath DEF GpathConsistent, GpathRec
  <2>1. CASE kind[q] = "text"
    <3>1. Exists(q) /\ ~IsSource(q) /\ ~IsBinary(q)
      BY <1>4, <2>1 DEF Parsable, Exists, IsBinary
    <3>2. HasPath(g, q) => g.fidOf[q] \in findset
      BY <1>1, <1>2, <3>1 DEF LostInv, CollectInv
    <3>3. q \notin deletelist'
      <4> SUFFICES ASSUME q \in deletelist' PROVE FALSE
        OBVIOUS
      <4>1. q \notin deletelist
        BY <1>4, <2>1 DEF PlannedOther
      <4>2. g.pathOf[id] = q
        BY <1>1, <4>1
      <4>3. HasPath(g, q) /\ g.fidOf[q] = id
        BY <1>3, <4>2, IdOfPath
      <4>4. deletelist' = deletelist
        BY <3>1, <3>2, <4>2, <4>3 DEF CheckId
      <4> QED BY <4>1, <4>4
    <3> QED BY <1>1, <1>4, <2>1, <3>3 DEF PlannedOther, env
  <2>2. CASE kind[q] # "text"
    <3>1. q \notin addlist_other /\ (HasPath(g, q) => q \in deletelist \/ id <= g.fidOf[q])
      BY <1>1, <1>4, <2>2 DEF PlannedOther, Unchecked
    <3>2. ASSUME HasPath(g, q), g.fidOf[q] = id PROVE q \in deletelist'
      <4>1. ~Exists(q) \/ (IsBinary(q) /\ ~IsSource(q))
        BY <1>4, <2>2 DEF Parsable, Exists, IsBinary, TypeInv, TypeOK
      <4>2. ~IsSource(q) => g.ftypeOf[id] = "other"
        BY <1>2, <2>0, <3>2 DEF TypesAgree, FileType
      <4>3. g.pathOf[id] = q /\ q # NoPath
        BY <2>0, <3>2, GpathAssumption
      <4> QED BY <4>1, <4>2, <4>3 DEF CheckId
    <3>3. ASSUME HasPath(g, q), id <= g.fidOf[q], g.fidOf[q] # id PROVE id' <= g.fidOf[q]
      <4>1. g.fidOf[q] \in Nat
        BY <2>0, <3>3, FidOrder
      <4> QED BY <1>1, <1>3, <3>3, <4>1
    <3> QED BY <1>1, <2>2, <3>1, <3>2, <3>3 DEF PlannedOther, Unchecked, HasPath, env
  <2> QED BY <2>1, <2>2
<1>5. \A q \in Path : Parsable(q)' <=> Parsable(q)
  BY <1>1 DEF Parsable, Exists, IsSource, env
<1> QED BY <1>1, <1>2, <1>4, <1>5 DEF OtherInv, Updating, env

(* From the plan to the disk: the lists are worked off one by one.         *)
LEMMA StepOther ==
    ASSUME ~MayCrash, TypeInv, Settled, OtherInv, Step \/ Crash PROVE OtherInv' /\ raced' = {}
<1> USE Parts DEF Settled
<1>0. mode = "create" /\ pc # "idle" => pc \in {"find", "closeGtags", "closeGpath", "closeGrtags"}
  BY DEF LostInv, RestInv
<1>1. ASSUME Die PROVE OtherInv' /\ raced' = {}
  BY <1>1 DEF Die, Exit, OtherInv, Updating, env
<1>2. CASE UpdateTagsDies \/ Crash \/ \E p \in Path : VisitVanished(p) \/ AddVanished(p)
  BY <1>1, <1>2 DEF UpdateTagsDies, Crash, VisitVanished, AddVanished
<1>3. CASE mode = "create"
  BY <1>0, <1>1, <1>2, <1>3
     DEF Step, FindDone, CheckId, IdsDone, UpdateTags, SkipTags, AddDone, CloseGtags,
         CloseGrtags, Touch, CloseGpath, VisitCreate, Visit, AddFile, DeletePath, AddOther,
         OtherInv, Updating, Exit, env
<1> DEFINE Same == /\ UNCHANGED env /\ mode' = mode
                   /\ UNCHANGED <<g, addlist_other, deletelist>>
<1>4. ASSUME Same PROVE \A q \in Path :
          /\ Parsable(q)' <=> Parsable(q)
          /\ ~Unchecked(q) /\ PlannedOther(q) => PlannedOther(q)'
  BY <1>4 DEF PlannedOther, Unchecked, Parsable, Exists, IsSource, HasPath, env
<1>5. CASE mode # "create" /\ FindDone
  <2>1. /\ pc = "find" /\ pc' = "ids" /\ toFind = {} /\ UNCHANGED env /\ UNCHANGED mem /\ mode' = mode
        /\ id = 1
    BY <1>5 DEF FindDone, LostInv, RestInv
  <2>2. ASSUME NEW q \in Path, ~Parsable(q) PROVE PlannedOther(q)'
    <3>1. PlannedOther(q)
      BY <1>5, <2>1, <2>2 DEF OtherInv, Updating
    <3>2. HasPath(g, q) => 1 <= g.fidOf[q]
      BY IdOfPath, SMT DEF Fid
    <3> QED BY <2>1, <3>1, <3>2 DEF PlannedOther, Unchecked, HasPath, env, mem
  <2> QED BY <2>1, <2>2 DEF OtherInv, Parsable, Exists, IsSource, env
<1>6. CASE IdsDone
  <2>1. pc = "ids" /\ pc' = "update" /\ id = g.next /\ Same
    BY <1>6 DEF IdsDone, mem
  <2>2. \A q \in Path : HasPath(g, q) => ~Unchecked(q)
    BY <2>1, IdOfPath, FidOrder, SMT DEF Unchecked
  <2>3. ASSUME NEW q \in Path, PlannedOther(q) PROVE PlannedOther(q)'
    BY <2>1, <2>2, <2>3 DEF PlannedOther, HasPath, env
  <2> QED BY <1>0, <1>4, <2>1, <2>3 DEF OtherInv, Updating, env
<1>7. CASE mode # "create" /\ (UpdateTags \/ SkipTags \/ AddDone \/ CloseGtags \/ CloseGrtags \/ Touch)
  <2>1. /\ Same /\ pc \notin {"idle", "find", "ids"} /\ pc' \notin {"idle", "find", "ids"}
        /\ pc' = "closeGpath" => deletelist = {} /\ addlist_other = {}
    BY <1>7 DEF UpdateTags, SkipTags, AddDone, CloseGtags, CloseGrtags, Touch, env, mem
  <2>2. \A q \in Path : ~Unchecked(q)
    BY <2>1 DEF Unchecked
  <2> QED BY <1>4, <1>7, <2>1, <2>2 DEF OtherInv, Updating, env
<1>8. ASSUME NEW p \in Path, AddFile(p) \/ DeletePath(p) \/ AddOther(p)
      PROVE  OtherInv' /\ raced' = {}
  <2>1. /\ pc \in {"add", "gpath"} /\ UNCHANGED <<kind, langmap, pc, mode>> /\ raced' = {}
        /\ addlist_other' \in {addlist_other, addlist_other \ {p}}
        /\ deletelist' \in {deletelist, deletelist \ {p}}
    BY <1>8 DEF AddFile, DeletePath, AddOther, env
  <2>2. Updating /\ \A q \in Path : ~Unchecked(q)
    BY <1>0, <2>1 DEF Updating, Unchecked
  <2>3. \A q \in Path \ {p} : g'.fidOf[q] = g.fidOf[q]
    BY <1>8, PutKeeps, GpathDeleteEffect DEF AddFile, DeletePath, AddOther
  <2>4. ASSUME NEW q \in Path \ {p}, PlannedOther(q) PROVE PlannedOther(q)'
    BY <2>1, <2>2, <2>3, <2>4 DEF PlannedOther, HasPath
  <2>5. ASSUME ~Parsable(p) PROVE PlannedOther(p)'
    <3>1. PlannedOther(p)
      BY <2>1, <2>2, <2>5 DEF OtherInv
    <3>2. ~AddFile(p)
      BY <2>2, <2>5 DEF AddFile, PhaseInv, ListsOK, Parsable
    <3>3. CASE DeletePath(p)
      <4>1. p \in deletelist /\ UNCHANGED addlist_other /\ ~HasPath(g', p)
        BY <3>3, GpathDeleteEffect DEF DeletePath
      <4> QED BY <2>1, <3>1, <4>1 DEF PlannedOther
    <3>4. CASE AddOther(p)
      <4>1. p \in addlist_other /\ UNCHANGED deletelist /\ g'.fidOf[p] \in Fid
        BY <3>4, PutKeeps DEF AddOther
      <4>2. HasPath(g', p)
        BY <4>1, SMT DEF HasPath, NoFid, Fid
      <4> QED BY <2>1, <3>1, <4>1, <4>2 DEF PlannedOther
    <3> QED BY <1>8, <3>2, <3>3, <3>4
  <2>6. \A q \in Path : Parsable(q)' <=> Parsable(q)
    BY <2>1 DEF Parsable, Exists, IsSource
  <2> QED BY <2>1, <2>2, <2>4, <2>5, <2>6 DEF OtherInv
<1>9. CASE mode # "create" /\ CloseGpath
  BY <1>9 DEF CloseGpath, Exit, OtherInv, Updating, env
<1>10. ASSUME NEW p \in Path, Visit(p) PROVE OtherInv' /\ raced' = {}
  BY <1>10, ScanOther
<1>11. CASE CheckId
  BY <1>11, CheckIdOther
<1> QED
  BY <1>2, <1>3, <1>5, <1>6, <1>7, <1>8, <1>9, <1>10, <1>11 DEF Step, VisitCreate
-----------------------------------------------------------------------------
UndisturbedInv == TypeInv /\ MatchInv /\ CreatedInv /\ Settled /\ OtherInv

LEMMA UndisturbedIsUnkilled == Undisturbed /\ SingleOnlyChange => Unkilled
BY DEF Undisturbed, Unkilled

LEMMA InitUndisturbedInv == Init => UndisturbedInv
<1> SUFFICES ASSUME Init PROVE UndisturbedInv
  OBVIOUS
<1>1. TypeInv /\ PhaseInv /\ LostInv
  BY InitTypeInv, InitPhaseInv, InitLostInv
<1>2. MatchInv /\ CreatedInv
  BY DEF Init, CreatedInv, MatchInv, NoWrongPath, MatchCreate, MatchUpdate, Updating, Match, NoTags
<1>3. OtherInv /\ raced = {}
  BY DEF Init, OtherInv, Updating
<1> QED BY <1>1, <1>2, <1>3 DEF UndisturbedInv, Settled

LEMMA StepUndisturbedInv ==
    ASSUME Undisturbed, SingleOnlyChange
    PROVE  UndisturbedInv /\ [Next]_vars => UndisturbedInv'
<1> SUFFICES ASSUME UndisturbedInv, [Next]_vars PROVE UndisturbedInv'
  OBVIOUS
<1>0. ~MayCrash /\ ~Racy /\ Unkilled
  BY UndisturbedIsUnkilled DEF Undisturbed
<1>1. TypeInv' /\ MatchInv' /\ CreatedInv' /\ LostInv' /\ PhaseInv'
  BY <1>0, StepTypeInv, StepMatchInv, StepCreatedInv, StepLostInv, StepPhaseInv
     DEF UndisturbedInv, Settled
<1>2. OtherInv' /\ raced' = {}
  <2>1. CASE User \/ UNCHANGED vars
    BY <1>0, <2>1, UserOther DEF UndisturbedInv, Settled
  <2>2. CASE Start
    BY <2>2, StartOther DEF UndisturbedInv
  <2>3. CASE Step \/ Crash
    BY <1>0, <2>3, StepOther DEF UndisturbedInv
  <2> QED BY <2>1, <2>2, <2>3 DEF Next
<1> QED BY <1>1, <1>2 DEF UndisturbedInv, Settled

(* When a run ends normally nothing is left on a list, and the plan has    *)
(* become fact.                                                            *)
LEMMA CompletesCurrent ==
    ASSUME UndisturbedInv, Completes, NEW p \in Path PROVE Current(p)'
<1> USE Parts DEF UndisturbedInv, Settled
<1>1. CASE CloseGrtags /\ mode = "create"
  BY <1>1, CreationEnds
<1>2. CASE CloseGpath /\ mode # "create"
  <2>1. /\ pc = "closeGpath" /\ Updating /\ gpath' = g /\ UNCHANGED tags /\ UNCHANGED env
    BY <1>2 DEF CloseGpath, Updating
  <2>2. /\ Planned(p, tags) /\ addlist = {} /\ Good(tags, g)
        /\ ~Parsable(p) => PlannedOther(p)
        /\ deletelist = {} /\ addlist_other = {} /\ ~Unchecked(p)
    BY <2>1 DEF LostInv, FinishInv, PhaseInv, GpathInv, OtherInv, Unchecked
  <2>3. CASE Parsable(p)
    <3>1. HasPath(g, p) /\ TagsCurrent(tags, g, p)
      BY <2>2, <2>3 DEF Planned
    <3> QED BY <2>1, <2>3, <3>1
            DEF Current, Parsable, TagsCurrent, TagsHold, Exists, IsSource, HasPath, env
  <2>4. CASE ~Parsable(p)
    <3>1. HasPath(g, p) <=> kind[p] = "text"
      BY <2>2, <2>4 DEF PlannedOther
    <3>2. ASSUME NEW d \in Tag, NEW r \in tags[d], r.path = p PROVE FALSE
      <4>1. r \in tags["GTAGS"] /\ r.fid \in Fid
        BY <2>2, <3>2, TagParts DEF Good
      <4>2. g.pathOf[r.fid] = p /\ IsSource(p)
        BY <2>2, <3>2, <4>1 DEF Good
      <4>3. HasPath(g, p)
        BY <4>1, <4>2, IdOfPath
      <4> QED BY <2>4, <3>1, <4>2, <4>3 DEF Parsable, Exists
    <3> QED BY <2>1, <2>4, <3>1, <3>2 DEF Current, Parsable, Exists, IsSource, HasPath, env
  <2> QED BY <2>3, <2>4
<1> QED BY <1>1, <1>2 DEF Completes

(* After every run that ends normally, whole or of one file, every file of *)
(* the project is indexed as it is.                                        *)
THEOREM CatchesUpHolds ==
    ASSUME Undisturbed, SingleOnlyChange PROVE Spec => CatchesUp
<1>1. UndisturbedInv /\ [Next]_vars =>
        [Completes => \A p \in Path : p \in raced \/ Current(p)']_vars
  BY CompletesCurrent
<1> QED BY <1>1, InitUndisturbedInv, StepUndisturbedInv, PTL DEF Spec, CatchesUp
-----------------------------------------------------------------------------
(* Gtags implements TagIndex.                                              *)

(* What is served is what the files on disk say, from the end of a run     *)
(* until the next one writes them.                                         *)
ServedInv ==
    ready = DbFile /\ pc \in {"idle", "find", "ids", "update", "add"} => served = Seen

(* Up to date tag files say of every file what should be said.             *)
AllCurrent == \A p \in Path : Current(p)

SaysWanted == Seen = Wanted

LEMMA CurrentIsWanted == TypeInv /\ AtRest /\ NoDanglingTag /\ AllCurrent => SaysWanted
<1> SUFFICES ASSUME TypeInv, AtRest, NoDanglingTag, \A p \in Path : Current(p)
             PROVE  Seen = Wanted
  BY DEF AllCurrent, SaysWanted
<1> USE Parts
<1> SUFFICES ASSUME NEW p \in Path
             PROVE  {r.ver : r \in {s \in tags["GTAGS"] \cup tags["GRTAGS"] :
                                      gpath.pathOf[s.fid] = p}}
                      = IF Exists(p) /\ IsSource(p) THEN {ver[p]} ELSE {}
  BY DEF Seen, Wanted
<1>1. \A r \in tags["GTAGS"] \cup tags["GRTAGS"] :
        r.fid \in Fid /\ r.path \in Path /\ gpath.pathOf[r.fid] = r.path
  BY TagParts DEF NoDanglingTag
<1>2. CASE Exists(p) /\ IsSource(p)
  <2> DEFINE f == gpath.fidOf[p]
             rec == [fid |-> f, path |-> p, ver |-> ver[p]]
  <2>1. HasPath(gpath, p) /\ \A d \in Tag : TagsOf(tags[d], f) = {rec}
    BY <1>2 DEF Current
  <2>2. rec.ver = ver[p] /\ rec.fid = f /\ gpath.pathOf[f] = p
    BY <2>1, IdOfPath
  <2>3. \A r \in tags["GTAGS"] \cup tags["GRTAGS"] : gpath.pathOf[r.fid] = p => r.fid = f
    BY <1>1, IdOfPath
  <2> HIDE DEF f, rec
  <2>4. {s \in tags["GTAGS"] \cup tags["GRTAGS"] : gpath.pathOf[s.fid] = p} = {rec}
    BY <2>1, <2>2, <2>3 DEF TagsOf
  <2> QED BY <1>2, <2>2, <2>4
<1>3. CASE ~(Exists(p) /\ IsSource(p))
  <2>1. \A d \in Tag : \A r \in tags[d] : r.path # p
    BY <1>3 DEF Current
  <2>2. {s \in tags["GTAGS"] \cup tags["GRTAGS"] : gpath.pathOf[s.fid] = p} = {}
    BY <1>1, <2>1
  <2> QED BY <1>3, <2>2
<1> QED BY <1>2, <1>3

LEMMA UndisturbedDangles == UndisturbedInv => TypeInv /\ NoDanglingTag
BY PhaseInvImplies DEF UndisturbedInv, Settled

(* A completion replaces the whole index by what is wanted.                *)
LEMMA CompletesUpdates ==
    ASSUME UndisturbedInv, UndisturbedInv', Completes, served' = IF AtRest' THEN Seen' ELSE served
    PROVE  AtRest' /\ Index!Update
<1>1. AtRest' /\ UNCHANGED env
  BY DEF Completes, CloseGpath, CloseGrtags, Exit, AtRest, UndisturbedInv, Settled, LostInv,
         RestInv, Updating, DbFile, Tag
<1>2. AllCurrent'
  BY CompletesCurrent DEF AllCurrent
<1>3. TypeInv' /\ NoDanglingTag'
  BY UndisturbedDangles, PTL
<1>4. SaysWanted'
  BY <1>1, <1>2, <1>3, CurrentIsWanted, PTL
<1>5. Wanted' = Wanted
  BY <1>1 DEF env, Wanted, Exists, IsSource
<1> QED BY <1>1, <1>4, <1>5 DEF SaysWanted, Index!Update

(* What a run holds in memory and where it is does not matter to a reader, *)
(* as long as it has written nothing since the index was served.           *)
LEMMA ServedKept ==
    ASSUME ServedInv, UNCHANGED <<ready, gpath, tags>>,
           pc' \in {"idle", "find", "ids", "update", "add"} =>
             pc \in {"idle", "find", "ids", "update", "add"},
           served' = IF AtRest' THEN Seen' ELSE served
    PROVE  ServedInv' /\ served' = served
<1>1. Seen' = Seen
  BY DEF Seen
<1> QED BY <1>1 DEF ServedInv, AtRest

(* A step that writes a tag file does not end the run, unless it completes *)
(* it.                                                                     *)
LEMMA ServedStep ==
    ASSUME Undisturbed, UndisturbedInv, ServedInv, Next, ~Completes,
           served' = IF AtRest' THEN Seen' ELSE served
    PROVE  ServedInv' /\ served' = served
<1> DEFINE Early == {"idle", "find", "ids", "update", "add"}
<1>1. CASE User
  <2>1. UNCHANGED <<ready, gpath, tags, pc>>
    BY <1>1 DEF User, Tick, ChangeLangmap, Edit, Create, Remove, Change, disk
  <2> QED BY <2>1, ServedKept
<1>2. CASE StartCreate
  <2>1. pc' = "find" /\ ready' = {}
    BY <1>2 DEF StartCreate
  <2> QED BY <2>1 DEF ServedInv, AtRest, DbFile
<1>3. CASE StartIncremental \/ \E p \in Path : StartSingle(p)
  <2>1. UNCHANGED <<ready, gpath, tags>> /\ pc = "idle"
    BY <1>3 DEF StartIncremental, StartSingle, OpenForUpdate, disk
  <2> QED BY <2>1, ServedKept
<1>4. CASE UpdateTagsDies \/ \E p \in Path : VisitVanished(p) \/ AddVanished(p)
  <2>1. UNCHANGED <<ready, gpath, tags>> /\ pc \in Early
    BY <1>4 DEF UpdateTagsDies, VisitVanished, AddVanished, Die, disk
  <2> QED BY <2>1, ServedKept
<1>5. CASE FindDone \/ CheckId \/ IdsDone \/ UpdateTags \/ SkipTags \/ AddDone
  <2>1. UNCHANGED <<ready, gpath, tags>> /\ pc \in Early
    BY <1>5 DEF FindDone, CheckId, IdsDone, UpdateTags, SkipTags, AddDone, disk
  <2> QED BY <2>1, ServedKept
<1>6. CASE \E p \in Path : VisitCreate(p) \/ Visit(p) \/ AddFile(p)
  <2>1. UNCHANGED <<ready, gpath, tags>> /\ pc \in Early
    BY <1>6 DEF VisitCreate, Visit, AddFile, disk
  <2> QED BY <2>1, ServedKept
<1>7. CASE \E p \in Path : DeletePath(p) \/ AddOther(p)
  <2>1. UNCHANGED <<ready, gpath, tags>> /\ pc' \notin Early
    BY <1>7 DEF DeletePath, AddOther, disk
  <2> QED BY <2>1, ServedKept
<1>8. CASE CloseGtags \/ CloseGrtags \/ Touch \/ CloseGpath
  <2>1. pc' \notin Early
    BY <1>8 DEF CloseGtags, CloseGrtags, Touch, CloseGpath, Completes
  <2> QED BY <2>1 DEF ServedInv, AtRest
<1>9. ~Crash
  BY DEF Crash, Undisturbed
<1> QED BY <1>1, <1>2, <1>3, <1>4, <1>5, <1>6, <1>7, <1>8, <1>9 DEF Next, Start, Step

(* A change of one file is a change of what is wanted for it; every other  *)
(* step leaves what is wanted alone.                                       *)
LEMMA WantedKept ==
    ASSUME Undisturbed, TypeInv, Next, served' = served
    PROVE  Index!Edit \/ UNCHANGED <<Wanted, served>>
<1>1. CASE \E p \in Path : Edit(p) \/ Create(p) \/ Remove(p)
  <2>1. PICK p \in Path : \E k \in {"none", "text", "binary"} : Change(p, k)
    BY <1>1 DEF Edit, Create, Remove, TypeInv, TypeOK
  <2>2. PICK k \in {"none", "text", "binary"} : Change(p, k)
    BY <2>1
  <2> DEFINE c == IF k # "none" /\ IsSource(p) THEN {ver[p] + 1} ELSE {}
  <2>3. /\ kind \in [Path -> {"none", "text", "binary"}] /\ ver \in [Path -> Version]
        /\ kind' = [kind EXCEPT ![p] = k] /\ ver' = [ver EXCEPT ![p] = @ + 1]
        /\ ver[p] < MaxVer /\ langmap' = langmap
    BY <2>2 DEF Change, TypeInv, TypeOK
  <2>4. c \in Index!Contents
    BY <2>3, GtagsAssumption DEF Index!Contents, Version
  <2>5. Wanted' = [Wanted EXCEPT ![p] = c]
    BY <2>3 DEF Wanted, Exists, IsSource
  <2> QED BY <2>4, <2>5 DEF Index!Edit
<1>2. CASE ~\E p \in Path : Edit(p) \/ Create(p) \/ Remove(p)
  <2>1. UNCHANGED <<kind, ver, langmap>>
    <3>1. CASE User
      BY <1>2, <3>1 DEF User, Tick, ChangeLangmap, Undisturbed, TypeInv, TypeOK
    <3>2. CASE Start
      BY <3>2 DEF Start, StartCreate, StartIncremental, StartSingle, env
    <3>3. CASE Crash
      BY <3>3 DEF Crash, Die, env
    <3>4. CASE FindDone \/ CheckId \/ IdsDone \/ UpdateTags \/ UpdateTagsDies \/ SkipTags
      BY <3>4 DEF FindDone, CheckId, IdsDone, UpdateTags, UpdateTagsDies, SkipTags, Die, env
    <3>5. CASE AddDone \/ CloseGtags \/ CloseGrtags \/ Touch \/ CloseGpath
      BY <3>5 DEF AddDone, CloseGtags, CloseGrtags, Touch, CloseGpath, env
    <3>6. CASE \E p \in Path : VisitCreate(p) \/ Visit(p) \/ VisitVanished(p)
      BY <3>6 DEF VisitCreate, Visit, VisitVanished, Die, env
    <3>7. CASE \E p \in Path : AddFile(p) \/ AddVanished(p) \/ DeletePath(p) \/ AddOther(p)
      BY <3>7 DEF AddFile, AddVanished, DeletePath, AddOther, Die, env
    <3> QED BY <3>1, <3>2, <3>3, <3>4, <3>5, <3>6, <3>7 DEF Next, Step
  <2> QED BY <2>1 DEF Wanted, Exists, IsSource
<1> QED BY <1>1, <1>2

LEMMA InitServes == ServedInit => Index!Init /\ ServedInv
<1> SUFFICES ASSUME ServedInit PROVE Index!Init /\ ServedInv
  OBVIOUS
<1>1. ServedInv
  BY DEF ServedInit, Init, ServedInv, DbFile
<1>2. Wanted \in [Path -> Index!Contents]
  <2> SUFFICES ASSUME NEW p \in Path
               PROVE  (IF Exists(p) /\ IsSource(p) THEN {ver[p]} ELSE {}) \in Index!Contents
    BY DEF Wanted
  <2>1. ver[p] \in Version
    BY GtagsAssumption DEF ServedInit, Init, Version
  <2> QED BY <2>1 DEF Index!Contents
<1> QED BY <1>1, <1>2 DEF Index!Init, ServedInit

(* Every step of gtags and of the user is a step of the index, or none.    *)
LEMMA StepServes ==
    ASSUME Undisturbed, SingleOnlyChange, UndisturbedInv, ServedInv,
           [ServedNext]_<<vars, served>>
    PROVE  /\ UndisturbedInv' /\ ServedInv'
           /\ [Index!Next]_<<Wanted, served>>
<1>1. CASE UNCHANGED <<vars, served>>
  <2>1. UndisturbedInv'
    BY <1>1, StepUndisturbedInv
  <2>2. ServedInv' /\ Wanted' = Wanted /\ served' = served
    BY <1>1 DEF vars, ServedInv, Seen, Wanted, Exists, IsSource
  <2> QED BY <2>1, <2>2
<1>2. CASE ServedNext
  <2>1. UndisturbedInv' /\ Next /\ served' = IF AtRest' THEN Seen' ELSE served
    BY <1>2, StepUndisturbedInv DEF ServedNext
  <2>2. CASE Completes
    <3>1. AtRest' /\ Index!Update
      BY <2>1, <2>2, CompletesUpdates
    <3>2. ServedInv'
      BY <2>1, <3>1 DEF ServedInv
    <3> QED BY <2>1, <3>1, <3>2 DEF Index!Next
  <2>3. CASE ~Completes
    <3>1. ServedInv' /\ served' = served
      BY <2>1, <2>3, ServedStep
    <3>2. Index!Edit \/ UNCHANGED <<Wanted, served>>
      BY <2>1, <3>1, WantedKept DEF UndisturbedInv
    <3> QED BY <2>1, <3>1, <3>2 DEF Index!Next
  <2> QED BY <2>2, <2>3
<1> QED BY <1>1, <1>2

(* Between two moments at which no run is active, a run of gtags is one    *)
(* replacement of the index by what the files say: the phases of a run,    *)
(* its two tag files and its ids do not show.                              *)
THEOREM GtagsImplementsTagIndex ==
    ASSUME Undisturbed, SingleOnlyChange PROVE ServedSpec => ImplementsTagIndex
<1>1. ServedInit => UndisturbedInv
  BY InitUndisturbedInv DEF ServedInit
<1>2. UndisturbedInv /\ ServedInv /\ [ServedNext]_<<vars, served>> =>
        UndisturbedInv' /\ ServedInv' /\ [Index!Next]_<<Wanted, served>>
  BY StepServes
<1> QED BY <1>1, <1>2, InitServes, PTL DEF ServedSpec, ImplementsTagIndex, Index!Spec
=============================================================================
