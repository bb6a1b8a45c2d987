---------------------------- MODULE GtagsProofs ----------------------------
(***************************************************************************)
(* Proofs about gtags.  First what gpath_put and gpath_delete return, and  *)
(* type correctness together with the consistency of GPATH, which hold of  *)
(* every run, killed or raced; then the phase invariant of undisturbed     *)
(* runs and what follows from it; then the life of a file id.              *)
(***************************************************************************)
EXTENDS GtagsInv, TLAPS

(* A fresh GPATH (gpath_open in create mode) is well formed and consistent. *)
LEMMA EmptyGpathOK ==
    EmptyGpath \in GpathRec /\ GpathConsistent(EmptyGpath)
BY GpathAssumption, SMT DEF EmptyGpath, GpathRec, GpathConsistent, HasPath, Fid, NoFid, FileType

(* gpath_put returns a well formed, consistent GPATH. *)
LEMMA GpathPutOK ==
    ASSUME NEW gp \in GpathRec, GpathConsistent(gp),
           NEW p \in Path, NEW type \in FileType, gp.next <= MaxFid
    PROVE  GpathPut(gp, p, type) \in GpathRec /\ GpathConsistent(GpathPut(gp, p, type))
<1>1. CASE HasPath(gp, p)
  BY <1>1 DEF GpathPut
<1>2. CASE ~HasPath(gp, p)
  <2>1. /\ GpathPut(gp, p, type) \in GpathRec
        /\ gp.next \in Fid
    BY <1>2, GpathAssumption, SMT DEF GpathPut, GpathRec, Fid, NoFid, FileType
  <2>2. GpathConsistent(GpathPut(gp, p, type))
    BY <1>2, <2>1, GpathAssumption, SMT
       DEF GpathPut, GpathRec, GpathConsistent, HasPath, Fid, NoFid, FileType
  <2> QED BY <2>1, <2>2
<1> QED BY <1>1, <1>2

(* gpath_put gives the path an id that leads back to it; it touches no     *)
(* other record, and an id it hands out was free.                          *)
LEMMA GpathPutEffect ==
    ASSUME NEW gp \in GpathRec, GpathConsistent(gp),
           NEW p \in Path, NEW type \in FileType, gp.next <= MaxFid,
           NEW h, h = GpathPut(gp, p, type)
    PROVE  /\ h.fidOf[p] \in Fid /\ h.pathOf[h.fidOf[p]] = p
           /\ gp.next <= h.next
           /\ \A f \in Fid : f # h.fidOf[p] => h.pathOf[f] = gp.pathOf[f]
           /\ \A f \in Fid : f < gp.next => h.pathOf[f] = gp.pathOf[f]
           /\ \A q \in Path \ {p} : /\ h.fidOf[q] = gp.fidOf[q]
                                    /\ h.typeOf[q] = gp.typeOf[q]
           /\ HasPath(gp, p) => h = gp
           /\ ~HasPath(gp, p) => /\ h.fidOf[p] = gp.next
                                /\ h.typeOf[p] = type
                                /\ gp.pathOf[gp.next] = NoPath
<1>1. CASE HasPath(gp, p)
  BY <1>1, SMT DEF GpathPut, GpathRec, GpathConsistent, HasPath, NoFid, Fid
<1>2. CASE ~HasPath(gp, p)
  <2>1. /\ gp.next \in Fid /\ gp.pathOf[gp.next] = NoPath
        /\ gp.fidOf \in [Path -> Fid \cup {NoFid}] /\ gp.typeOf \in [Path -> FileType]
        /\ gp.pathOf \in [Fid -> Path \cup {NoPath}]
    BY SMT, GpathAssumption DEF GpathRec, GpathConsistent, Fid
  <2>2. /\ h.fidOf = [gp.fidOf EXCEPT ![p] = gp.next]
        /\ h.typeOf = [gp.typeOf EXCEPT ![p] = type]
        /\ h.pathOf = [gp.pathOf EXCEPT ![gp.next] = p]
        /\ h.next = gp.next + 1
    BY <1>2 DEF GpathPut
  <2>3. gp.next <= h.next
    BY <2>1, <2>2, SMT DEF Fid
  <2> QED BY <1>2, <2>1, <2>2, <2>3, GpathAssumption, SMT DEF Fid
<1> QED BY <1>1, <1>2

(* gpath_delete returns a well formed, consistent GPATH. *)
LEMMA GpathDeleteOK ==
    ASSUME NEW gp \in GpathRec, GpathConsistent(gp), NEW p \in Path
    PROVE  GpathDelete(gp, p) \in GpathRec /\ GpathConsistent(GpathDelete(gp, p))
<1>1. CASE ~HasPath(gp, p)
  BY <1>1 DEF GpathDelete
<1>2. CASE HasPath(gp, p)
  <2>1. GpathDelete(gp, p) \in GpathRec
    BY <1>2, GpathAssumption, SMT DEF GpathDelete, GpathRec, HasPath, Fid, NoFid
  <2>2. GpathConsistent(GpathDelete(gp, p))
    BY <1>2, GpathAssumption, SMT
       DEF GpathDelete, GpathRec, GpathConsistent, HasPath, Fid, NoFid
  <2> QED BY <2>1, <2>2
<1> QED BY <1>1, <1>2

(* gpath_delete frees the id of the path and nothing else, and NEXTKEY     *)
(* stays: the id becomes a hole.                                           *)
LEMMA GpathDeleteEffect ==
    ASSUME NEW gp \in GpathRec, GpathConsistent(gp), NEW p \in Path,
           NEW h, h = GpathDelete(gp, p)
    PROVE  /\ ~HasPath(h, p) /\ h.next = gp.next
           /\ \A f \in Fid : f # gp.fidOf[p] => h.pathOf[f] = gp.pathOf[f]
           /\ \A f \in Fid : h.pathOf[f] \in {gp.pathOf[f], NoPath}
           /\ \A q \in Path \ {p} : h.fidOf[q] = gp.fidOf[q]
           /\ h.typeOf = gp.typeOf
<1>1. CASE ~HasPath(gp, p)
  BY <1>1, SMT DEF GpathDelete, GpathRec
<1>2. CASE HasPath(gp, p)
  BY <1>2, SMT DEF GpathDelete, GpathRec, HasPath, NoFid, Fid
<1> QED BY <1>1, <1>2
-----------------------------------------------------------------------------

TypeInv == TypeOK /\ GpathSound

(* Before any run the files, GPATH and the memory of gtags are well formed. *)
LEMMA InitTypeInv == Init => TypeInv
<1> SUFFICES ASSUME Init PROVE TypeInv
  OBVIOUS
<1>1. EmptyGpath \in GpathRec /\ GpathConsistent(EmptyGpath)
  BY EmptyGpathOK
<1>2. /\ kind \in [Path -> {"none", "text", "binary"}]
      /\ ver \in [Path -> Version] /\ mtime \in [Path -> 0 .. MaxClock + 1]
  <2>1. 0 \in Version /\ 0 \in 0 .. MaxClock + 1
    BY GtagsAssumption, SMT DEF Version
  <2> QED BY <2>1 DEF Init
<1>3. NoTags \in [Tag -> SUBSET TagRec]
  BY DEF NoTags
<1>4. 1 \in 1 .. MaxClock + 1 /\ 0 \in 0 .. MaxClock + 1 /\ 1 \in 1 .. MaxFid + 1
  BY GpathAssumption, GtagsAssumption, SMT
<1>5. TypeOK
  BY <1>1, <1>2, <1>3, <1>4 DEF Init, TypeOK
<1> QED BY <1>1, <1>5 DEF Init, TypeInv, GpathSound

(* The end of the process leaves well formed memory. *)
LEMMA ExitTypeInv ==
    ASSUME TypeInv, Exit, mode' = mode, UNCHANGED env,
           exists' \in BOOLEAN, ready' \subseteq DbFile,
           gpath' \in GpathRec, GpathConsistent(gpath)',
           tags' \in [Tag -> SUBSET TagRec], tagMtime' \in 0 .. MaxClock + 1
    PROVE  TypeInv'
<1>1. g' \in GpathRec /\ GpathConsistent(g)'
  BY EmptyGpathOK DEF Exit
<1>2. TypeOK'
  BY <1>1, GpathAssumption, GtagsAssumption
     DEF Exit, TypeInv, TypeOK, env, NoTags, Tag, Fid
<1> QED BY <1>1, <1>2 DEF TypeInv, GpathSound

(* die() leaves the disk alone, and no memory that could be ill formed.    *)
LEMMA DieTypeInv == TypeInv /\ Die => TypeInv'
BY ExitTypeInv DEF Die, disk, TypeInv, TypeOK, GpathSound

(* gpath_put in memory keeps GPATH well formed, and the id it hands out is *)
(* one.                                                                    *)
LEMMA PutPathTypeInv ==
    ASSUME TypeInv, NEW p \in Path, NEW type \in FileType, PutPath(p, type)
    PROVE  /\ g' \in GpathRec /\ GpathConsistent(g)'
           /\ g'.fidOf[p] \in Fid
BY GpathPutOK, GpathPutEffect DEF TypeInv, TypeOK, GpathSound, PutPath

(* put_syms stores records whose id, path and content are of their types.  *)
LEMMA ParseType ==
    ASSUME TypeInv, NEW p \in Path, NEW f \in Fid, Parse(p, f)
    PROVE  t' \in [Tag -> SUBSET TagRec]
BY DEF TypeInv, TypeOK, Parse, TagRec

(* Every action keeps the state well formed and GPATH consistent.          *)
LEMMA StepTypeInv == TypeInv /\ [Next]_vars => TypeInv'
<1> SUFFICES ASSUME TypeInv, [Next]_vars PROVE TypeInv'
  OBVIOUS
<1> USE GpathAssumption, GtagsAssumption
<1>1. CASE User
  <2>1. CASE Tick
    BY <2>1 DEF TypeInv, TypeOK, GpathSound, Tick, disk, mem
  <2>2. CASE ChangeLangmap
    BY <2>2 DEF TypeInv, TypeOK, GpathSound, ChangeLangmap, disk, mem
  <2>3. ASSUME NEW p \in Path, Edit(p) \/ Create(p) \/ Remove(p) PROVE TypeInv'
    <3>1. PICK k \in {"none", "text", "binary"} : Change(p, k)
      BY <2>3 DEF Edit, Create, Remove, TypeInv, TypeOK
    <3> QED BY <3>1 DEF Change, TypeInv, TypeOK, GpathSound, Version, disk, mem
  <2> QED BY <1>1, <2>1, <2>2, <2>3 DEF User
<1>2. CASE StartCreate
  BY <1>2, EmptyGpathOK DEF StartCreate, CreatedTags, TypeInv, TypeOK, GpathSound, NoTags, env, DbFile
<1>3. CASE StartIncremental
  BY <1>3 DEF StartIncremental, OpenForUpdate, TypeInv, TypeOK, GpathSound, env, disk
<1>4. ASSUME NEW p \in Path, StartSingle(p) PROVE TypeInv'
  <2>1. HasPath(gpath, p) => gpath.fidOf[p] \in Fid
    BY DEF TypeInv, TypeOK, GpathRec, HasPath
  <2>2. /\ deleteset' \subseteq Fid /\ deletelist' \subseteq Path
        /\ addlist' \subseteq Path /\ addlist_other' \subseteq Path
    BY <1>4, <2>1 DEF StartSingle
  <2>3. /\ g' = gpath /\ oldMtime' = tagMtime
        /\ pc' = "update" /\ mode' = "single"
        /\ UNCHANGED env /\ UNCHANGED disk /\ UNCHANGED <<t, toFind, id, findset>>
    BY <1>4 DEF StartSingle, OpenForUpdate
  <2> QED BY <2>2, <2>3 DEF TypeInv, TypeOK, GpathSound, env, disk
<1>5. ASSUME NEW p \in Path, VisitCreate(p) PROVE TypeInv'
  BY <1>5, PutPathTypeInv, ParseType
     DEF VisitCreate, TypeInv, TypeOK, GpathSound, FileType, disk
<1>6. ASSUME NEW p \in Path, Visit(p) PROVE TypeInv'
  BY <1>6 DEF Visit, NoteFound, TypeInv, TypeOK, GpathSound, GpathRec, NoFid, env, disk
<1>7. CASE FindDone
  BY <1>7 DEF FindDone, TypeInv, TypeOK, GpathSound, env, disk, mem
<1>8. CASE CheckId
  <2>1. id \in Fid /\ id' \in 1 .. MaxFid + 1
    BY <1>8, SMT DEF CheckId, RetireTags, TypeInv, TypeOK, GpathRec, Fid
  <2>2. g.pathOf[id] \in Path \cup {NoPath}
    BY <2>1 DEF TypeInv, TypeOK, GpathRec
  <2>3. deletelist' \subseteq Path /\ deleteset' \subseteq Fid
    BY <1>8, <2>1, <2>2 DEF CheckId, RetireTags, TypeInv, TypeOK
  <2> QED BY <1>8, <2>1, <2>3 DEF CheckId, RetireTags, TypeInv, TypeOK, GpathSound, env, disk
<1>9. CASE IdsDone
  BY <1>9 DEF IdsDone, TypeInv, TypeOK, GpathSound, env, disk, mem
<1>10. CASE UpdateTags
  BY <1>10 DEF UpdateTags, WithoutTags, TypeInv, TypeOK, GpathSound, env, disk
<1>11. CASE SkipTags
  BY <1>11 DEF SkipTags, TypeInv, TypeOK, GpathSound, env, disk, mem
<1>12. ASSUME NEW p \in Path, AddFile(p) PROVE TypeInv'
  BY <1>12, PutPathTypeInv, ParseType
     DEF AddFile, TypeInv, TypeOK, GpathSound, FileType, disk
<1>13. CASE AddDone
  BY <1>13 DEF AddDone, TypeInv, TypeOK, GpathSound, env, disk, mem
<1>14. CASE CloseGtags
  BY <1>14 DEF CloseGtags, TypeInv, TypeOK, GpathSound, Tag, DbFile, env, mem
<1>15. CASE CloseGrtags
  <2>1. /\ tags' \in [Tag -> SUBSET TagRec] /\ ready' \subseteq DbFile
        /\ exists' \in BOOLEAN /\ gpath' \in GpathRec /\ GpathConsistent(gpath)'
        /\ tagMtime' \in 0 .. MaxClock + 1
    BY <1>15 DEF CloseGrtags, TypeInv, TypeOK, GpathSound, Tag, DbFile
  <2>2. CASE mode = "create"
    BY <1>15, <2>1, <2>2, ExitTypeInv DEF CloseGrtags
  <2>3. CASE mode # "create"
    BY <1>15, <2>1, <2>3 DEF CloseGrtags, TypeInv, TypeOK, GpathSound, env, mem
  <2> QED BY <2>2, <2>3
<1>16. ASSUME NEW p \in Path, DeletePath(p) PROVE TypeInv'
  BY <1>16, GpathDeleteOK DEF DeletePath, TypeInv, TypeOK, GpathSound, env, disk
<1>17. ASSUME NEW p \in Path, AddOther(p) PROVE TypeInv'
  BY <1>17, PutPathTypeInv DEF AddOther, TypeInv, TypeOK, GpathSound, FileType, env, disk
<1>18. CASE Touch
  BY <1>18 DEF Touch, TypeInv, TypeOK, GpathSound, env, mem
<1>19. CASE CloseGpath
  <2>1. /\ tags' \in [Tag -> SUBSET TagRec] /\ ready' \subseteq DbFile
        /\ exists' \in BOOLEAN /\ gpath' \in GpathRec /\ GpathConsistent(gpath)'
        /\ tagMtime' \in 0 .. MaxClock + 1
    BY <1>19 DEF CloseGpath, TypeInv, TypeOK, GpathSound, DbFile
  <2>2. CASE mode # "create"
    BY <1>19, <2>1, <2>2, ExitTypeInv DEF CloseGpath
  <2>3. CASE mode = "create"
    BY <1>19, <2>1, <2>3 DEF CloseGpath, TypeInv, TypeOK, GpathSound, env, mem
  <2> QED BY <2>2, <2>3
<1>20. CASE Die
  BY <1>20, DieTypeInv
<1>21. CASE UNCHANGED vars
  BY <1>21 DEF vars, TypeInv, TypeOK, GpathSound
<1> QED
  BY <1>1, <1>2, <1>3, <1>4, <1>5, <1>6, <1>7, <1>8, <1>9, <1>10, <1>11, <1>12,
     <1>13, <1>14, <1>15, <1>16, <1>17, <1>18, <1>19, <1>20, <1>21
  DEF Next, Start, Step, Crash, UpdateTagsDies, VisitVanished, AddVanished

(* Every value gtags and its tag files ever hold is of its type.           *)
THEOREM TypeCorrect == Spec => []TypeOK
<1>1. Spec => []TypeInv
  BY InitTypeInv, StepTypeInv, PTL DEF Spec
<1> QED BY <1>1, PTL DEF TypeInv

(* GPATH stays a one to one relation with NEXTKEY above every id in use,   *)
(* in every run, also when it is killed at any step or disturbed.          *)
THEOREM GpathAlwaysSound == Spec => []GpathSound
<1>1. Spec => []TypeInv
  BY InitTypeInv, StepTypeInv, PTL DEF Spec
<1> QED BY <1>1, PTL DEF TypeInv
-----------------------------------------------------------------------------
(* Lemmas about the parts of the phase invariant.                          *)

(* gpath_put leaves every id in use alone, so good tag files stay good.    *)
LEMMA PutKeeps ==
    ASSUME TypeInv, NEW p \in Path, NEW type \in FileType, PutPath(p, type)
    PROVE  /\ \A f \in Fid : g.pathOf[f] # NoPath => g'.pathOf[f] = g.pathOf[f]
           /\ \A q \in Path : HasPath(g, q) => g'.fidOf[q] = g.fidOf[q]
           /\ \A q \in Path \ {p} : g'.fidOf[q] = g.fidOf[q]
           /\ \A q \in Path : q # p => g'.fidOf[q] # g'.fidOf[p]
           /\ g'.fidOf[p] \in Fid /\ g'.pathOf[g'.fidOf[p]] = p
           /\ ~HasPath(g, p) => g.pathOf[g'.fidOf[p]] = NoPath
           /\ Extends(g', g)
<1>1. g \in GpathRec /\ GpathConsistent(g) /\ g' = GpathPut(g, p, type) /\ g.next <= MaxFid
  BY DEF TypeInv, TypeOK, GpathSound, PutPath
<1>2. /\ g'.fidOf[p] \in Fid /\ g'.pathOf[g'.fidOf[p]] = p
      /\ g.next <= g'.next
      /\ \A f \in Fid : f # g'.fidOf[p] => g'.pathOf[f] = g.pathOf[f]
      /\ \A f \in Fid : f < g.next => g'.pathOf[f] = g.pathOf[f]
      /\ \A q \in Path \ {p} : g'.fidOf[q] = g.fidOf[q]
      /\ HasPath(g, p) => g' = g
      /\ ~HasPath(g, p) => /\ g'.fidOf[p] = g.next
                           /\ g.pathOf[g.next] = NoPath
  BY <1>1, GpathPutEffect
<1>3. g' \in GpathRec /\ GpathConsistent(g')
  BY <1>1, GpathPutOK
<1>4. \A q \in Path : q # p => g'.fidOf[q] # g'.fidOf[p]
  BY <1>2, <1>3, SMT DEF GpathConsistent, HasPath, NoFid, Fid
<1> QED BY <1>2, <1>4, SMT DEF Extends, HasPath

(* gpath_put does not spoil tag files that agree with GPATH.               *)
LEMMA PutGood ==
    ASSUME TypeInv, NEW p \in Path, NEW type \in FileType, PutPath(p, type),
           NEW x \in [Tag -> SUBSET TagRec], Good(x, g), langmap' = langmap
    PROVE  Good(x, g')
<1>1. \A r \in x["GTAGS"] : r.fid \in Fid /\ r.path \in Path
  BY DEF TagRec, Tag
<1> QED BY <1>1, PutKeeps, GpathAssumption DEF Good, IsSource

(* gpath_put with the flag the langmap gives keeps the flags and the       *)
(* langmap in agreement.                                                   *)
LEMMA PutTypesAgree ==
    ASSUME TypeInv, TypesAgree(g), NEW p \in Path, NEW type \in FileType, PutPath(p, type),
           type = "source" <=> IsSource(p), langmap' = langmap
    PROVE  TypesAgree(g)'
<1>1. g \in GpathRec /\ GpathConsistent(g) /\ g' = GpathPut(g, p, type) /\ g.next <= MaxFid
  BY DEF TypeInv, TypeOK, GpathSound, PutPath
<1>2. /\ \A q \in Path \ {p} : g'.fidOf[q] = g.fidOf[q] /\ g'.typeOf[q] = g.typeOf[q]
      /\ HasPath(g, p) => g' = g
      /\ ~HasPath(g, p) => g'.typeOf[p] = type
  BY <1>1, GpathPutEffect
<1> QED BY <1>2 DEF TypesAgree, HasPath, IsSource

(* Parsing p under its id into good tag files without tags of p keeps them *)
(* good.                                                                   *)
LEMMA ParseGood ==
    ASSUME TypeInv, NEW p \in Path, PutPath(p, "source"), Parse(p, g'.fidOf[p]),
           Good(t, g), IsSource(p), langmap' = langmap,
           HasPath(g, p) => NoTagsFor(t, g, {p})
    PROVE  Good(t', g') /\ t'["GTAGS"] = t["GTAGS"] \cup
                              {[fid |-> g'.fidOf[p], path |-> p, ver |-> ver[p]]}
<1> DEFINE new == [fid |-> g'.fidOf[p], path |-> p, ver |-> ver[p]]
<1>1. \A d \in Tag : t'[d] = t[d] \cup {new}
  BY DEF Parse
<1>2. t \in [Tag -> SUBSET TagRec] /\ "source" \in FileType
  BY DEF TypeInv, TypeOK, FileType
<1>3. Good(t, g')
  BY <1>2, PutGood
<1>4. \A r \in t["GTAGS"] : r.fid \in Fid /\ r.path \in Path
  BY <1>2 DEF TagRec, Tag
<1>5. \A r \in t["GTAGS"] : r.fid # g'.fidOf[p]
  <2>1. CASE HasPath(g, p)
    BY <2>1, <1>2, PutKeeps DEF NoTagsFor
  <2>2. CASE ~HasPath(g, p)
    BY <2>2, <1>2, <1>4, PutKeeps, GpathAssumption DEF Good
  <2> QED BY <2>1, <2>2
<1>6. new.fid = g'.fidOf[p] /\ new.path = p /\ g'.pathOf[new.fid] = p
  BY <1>2, PutKeeps
<1> HIDE DEF new
<1>7. "GTAGS" \in Tag /\ "GRTAGS" \in Tag
  BY DEF Tag
<1>8. Good(t', g')
  <2>1. t'["GTAGS"] = t'["GRTAGS"]
    BY <1>1, <1>3, <1>7 DEF Good
  <2>2. t'["GTAGS"] = t["GTAGS"] \cup {new}
    BY <1>1, <1>7
  <2>3. \A r \in t["GTAGS"] : g'.pathOf[r.fid] = r.path /\ IsSource(r.path)
    BY <1>3 DEF Good
  <2>4. g'.pathOf[new.fid] = new.path /\ IsSource(new.path)
    BY <1>6
  <2>5. \A r, s \in t["GTAGS"] : r.fid = s.fid => r = s
    BY <1>3 DEF Good
  <2>6. \A r \in t["GTAGS"] : r.fid # new.fid
    BY <1>5, <1>6
  <2>7. \A r, s \in t'["GTAGS"] : r.fid = s.fid => r = s
    BY <2>2, <2>5, <2>6
  <2>8. \A r \in t'["GTAGS"] : g'.pathOf[r.fid] = r.path /\ IsSource(r.path)
    BY <2>2, <2>3, <2>4
  <2> QED BY <2>1, <2>7, <2>8 DEF Good
<1> QED BY <1>1, <1>7, <1>8 DEF new
-----------------------------------------------------------------------------
(* The phase invariant holds before the first run.                         *)
LEMMA InitPhaseInv == Init => PhaseInv
BY DEF Init, PhaseInv, TypesAgree, HasPath, EmptyGpath, NoFid, Updating,
       IdleInv, CreateInv, ScanInv, AddInv, GpathInv, DbFile, Tag

(* The user, who lets runs finish, does not disturb the phase invariant.   *)
LEMMA UserPhaseInv ==
    ASSUME Undisturbed, TypeInv, PhaseInv, User PROVE PhaseInv'
<1>1. pc' = pc /\ mode' = mode /\ UNCHANGED disk /\ UNCHANGED mem
  BY DEF User, Tick, ChangeLangmap, Edit, Create, Remove, Change
<1>2. langmap' = langmap
  BY DEF User, Tick, ChangeLangmap, Edit, Create, Remove, Change, Undisturbed, TypeInv, TypeOK
<1>3. kind' = kind \/ pc = "idle"
  BY DEF User, Tick, ChangeLangmap, Edit, Create, Remove, Change, Undisturbed, Quiet
<1>4. CASE kind' = kind
  BY <1>1, <1>2, <1>4
     DEF PhaseInv, TypesAgree, Updating, ListsOK, IdleInv, CreateInv, ScanInv, AddInv,
         GpathInv, Good, Covered, NoTagsFor, Extends, NoHoleHasTags, IsSource, Exists,
         HasPath, disk, mem
<1>5. CASE pc = "idle"
  BY <1>1, <1>2, <1>5
     DEF PhaseInv, TypesAgree, Updating, IdleInv, CreateInv, ScanInv, AddInv,
         GpathInv, Good, IsSource, HasPath, disk, mem
<1> QED BY <1>3, <1>4, <1>5

(* createtags and incremental start in a state of the phase invariant.     *)
LEMMA StartPhaseInv ==
    ASSUME TypeInv, PhaseInv, Start PROVE PhaseInv'
<1>1. CASE StartCreate
  BY <1>1 DEF StartCreate, CreatedTags, PhaseInv, TypesAgree, HasPath, EmptyGpath, NoFid, Updating,
       IdleInv, CreateInv, ScanInv, AddInv, GpathInv, Good, NoTags, Tag, DbFile, TypeInv, TypeOK
<1>2. ASSUME OpenForUpdate, langmap' = langmap, kind' = kind, UNCHANGED disk, ListsOK', Covered',
             mode' # "create", pc' \in {"find", "update"},
             pc' = "find" => \A p \in Path : Exists(p) => p \in toFind'
      PROVE  PhaseInv'
  BY <1>2 DEF OpenForUpdate, PhaseInv, TypesAgree, HasPath, Updating, Exists,
       IdleInv, CreateInv, ScanInv, AddInv, GpathInv, Good, DbFile, disk, IsSource
<1>3. CASE StartIncremental
  <2>1. addlist = {} /\ deletelist = {} /\ addlist_other = {}
    BY <1>3 DEF StartIncremental, OpenForUpdate, PhaseInv, IdleInv
  <2> QED BY <1>2, <1>3, <2>1 DEF StartIncremental, ListsOK, Covered, env
<1>4. ASSUME NEW p \in Path, StartSingle(p) PROVE PhaseInv'
  <2>1. ListsOK' /\ Covered'
    BY <1>4 DEF StartSingle, OpenForUpdate, ListsOK, Covered, PhaseInv, TypesAgree,
                Exists, IsSource, HasPath, env, TypeInv, TypeOK, GpathRec, FileType
  <2> QED BY <1>2, <1>4, <2>1 DEF StartSingle, env
<1> QED BY <1>1, <1>3, <1>4 DEF Start

(* A run that dies before it wrote to disk returns to the idle phase.      *)
LEMMA DiePhaseInv ==
    ASSUME TypeInv, PhaseInv, Die, ready = DbFile, Good(tags, gpath) PROVE PhaseInv'
BY DEF Die, Exit, PhaseInv, TypesAgree, HasPath, EmptyGpath, NoFid, Updating,
       IdleInv, CreateInv, ScanInv, AddInv, GpathInv, Good, IsSource, env, disk

(* createtags: a new path gets an id without tags, then its own tags.      *)
LEMMA CreatePhaseInv ==
    ASSUME TypeInv, PhaseInv, mode = "create", NEW p \in Path, VisitCreate(p) PROVE PhaseInv'
<1>1. /\ Good(t, g) /\ \A q \in toFind : ~HasPath(g, q)
      /\ TypesAgree(gpath) /\ TypesAgree(g) /\ ready = {}
      /\ t \in [Tag -> SUBSET TagRec] /\ "source" \in FileType /\ "other" \in FileType
  BY DEF VisitCreate, PhaseInv, CreateInv, TypeInv, TypeOK, FileType
<1>2. pc = "find" /\ UNCHANGED <<pc, mode, langmap, ready, gpath>> /\ p \in toFind
      /\ toFind' = toFind \ {p}
  BY DEF VisitCreate, disk
<1>3. ~HasPath(g, p)
  BY <1>1, <1>2
<1>4. Good(t, g)' /\ TypesAgree(g)' /\ \A q \in Path \ {p} : HasPath(g', q) => HasPath(g, q)
  <2>1. CASE Exists(p) /\ IsSource(p)
    <3>1. PutPath(p, "source") /\ Parse(p, g'.fidOf[p])
      BY <2>1 DEF VisitCreate
    <3>2. Good(t', g')
      BY <3>1, <1>1, <1>2, <1>3, <2>1, ParseGood
    <3>3. TypesAgree(g)'
      BY <3>1, <1>1, <1>2, <2>1, PutTypesAgree
    <3>4. \A q \in Path \ {p} : g'.fidOf[q] = g.fidOf[q]
      BY <3>1, <1>1, PutKeeps
    <3> QED BY <3>2, <3>3, <3>4, <1>2 DEF HasPath, Good, IsSource
  <2>2. CASE ~(Exists(p) /\ IsSource(p)) /\ kind[p] = "text"
    <3>1. PutPath(p, "other") /\ t' = t /\ ~IsSource(p)
      BY <2>2 DEF VisitCreate, Exists
    <3>2. Good(t, g')
      BY <3>1, <1>1, <1>2, PutGood
    <3>3. TypesAgree(g)'
      BY <3>1, <1>1, <1>2, PutTypesAgree
    <3>4. \A q \in Path \ {p} : g'.fidOf[q] = g.fidOf[q]
      BY <3>1, <1>1, PutKeeps
    <3> QED BY <3>1, <3>2, <3>3, <3>4, <1>2 DEF HasPath, Good, IsSource
  <2>3. CASE ~(Exists(p) /\ IsSource(p)) /\ kind[p] # "text"
    BY <2>3, <1>1, <1>2 DEF VisitCreate, Good, IsSource, TypesAgree
  <2> QED BY <2>1, <2>2, <2>3
<1>5. \A q \in toFind' : ~HasPath(g', q)
  BY <1>1, <1>2, <1>4 DEF TypeInv, TypeOK
<1>6. TypesAgree(gpath)'
  BY <1>1, <1>2 DEF TypesAgree, IsSource
<1> QED BY <1>1, <1>2, <1>4, <1>5, <1>6
        DEF PhaseInv, Updating, IdleInv, CreateInv, ScanInv, AddInv, GpathInv

(* incremental: the find loop and the delete list loop put the id of every *)
(* file they list for change or deletion into deleteset.                   *)
LEMMA ScanPhaseInv ==
    ASSUME TypeInv, PhaseInv, Updating,
           (\E p \in Path : Visit(p)) \/ (FindDone /\ mode # "create") \/ CheckId \/ IdsDone
    PROVE  PhaseInv'
<1>1. /\ g = gpath /\ Good(tags, gpath) /\ Covered /\ ListsOK /\ ready = DbFile
      /\ \A p \in Path \ toFind : Exists(p) /\ IsSource(p) /\ HasPath(g, p)
                                        => g.fidOf[p] \in findset
      /\ pc = "ids" => toFind = {}
      /\ TypesAgree(g) /\ pc \in {"find", "ids"}
  BY DEF PhaseInv, ScanInv, Visit, FindDone, CheckId, IdsDone
<1>2. /\ UNCHANGED <<g, gpath, tags, ready, langmap, kind, mode>>
      /\ pc' \in {"find", "ids", "update"}
  BY <1>1 DEF Visit, FindDone, CheckId, IdsDone, env, disk, mem
<1>3. g \in GpathRec /\ GpathConsistent(g)
  BY DEF TypeInv, TypeOK, GpathSound
<1>4. /\ ListsOK' /\ Covered'
      /\ pc' \in {"find", "ids"} =>
           \A p \in Path \ toFind' : Exists(p)' /\ IsSource(p)' /\ HasPath(g', p)
                                        => g'.fidOf[p] \in findset'
      /\ pc' = "ids" => toFind' = {}
  <2>1. ASSUME NEW p \in Path, Visit(p) PROVE <1>4!:
    BY <2>1, <1>1, <1>2, <1>3
       DEF Visit, NoteFound, ListsOK, Covered, Exists, IsSource, HasPath, GpathRec
  <2>2. CASE FindDone \/ IdsDone
    BY <2>2, <1>1, <1>2
       DEF FindDone, IdsDone, ListsOK, Covered, Exists, IsSource, HasPath, mem, Updating
  <2>3. CASE CheckId
    <3> DEFINE p == g.pathOf[id]
    <3>1. id \in Fid /\ pc = "ids" /\ toFind = {} /\ toFind' = toFind
          /\ pc' = "ids" /\ findset' = findset
          /\ UNCHANGED <<addlist, addlist_other>>
      BY <2>3, <1>1, GpathAssumption, SMT DEF CheckId, RetireTags, TypeInv, TypeOK, GpathRec, Fid
    <3>2. CASE p = NoPath
      <4>1. deletelist' = deletelist /\ deleteset' = deleteset
        BY <3>2, <2>3 DEF CheckId, RetireTags
      <4> QED BY <4>1, <3>1, <1>1, <1>2 DEF ListsOK, Covered, Exists, IsSource, HasPath
    <3>3. CASE p # NoPath
      <4>1. p \in Path /\ g.fidOf[p] = id /\ HasPath(g, p) /\ g.ftypeOf[id] = g.typeOf[p]
        <5>1. p \in Path /\ g.fidOf[p] = id /\ id # NoFid
          BY <3>1, <3>3, <1>3, GpathAssumption DEF GpathConsistent, GpathRec, NoFid, Fid
        <5> QED BY <5>1, <1>3 DEF GpathConsistent, HasPath
      <4>2. g.typeOf[p] = "source" <=> IsSource(p)
        BY <4>1, <1>1 DEF TypesAgree
      <4>3. Exists(p) /\ IsSource(p) => id \in findset
        BY <4>1, <3>1, <1>1
      <4>4. /\ deletelist' \in {deletelist, deletelist \cup {p}}
            /\ deleteset \subseteq deleteset'
            /\ deletelist' # deletelist => ~(Exists(p) /\ IsSource(p))
            /\ deletelist' # deletelist /\ IsSource(p) => id \in deleteset'
        BY <2>3, <3>3, <4>1, <4>2, <4>3 DEF CheckId, RetireTags
      <4>5. ListsOK'
        BY <4>4, <3>1, <1>1, <1>2 DEF ListsOK, Exists, IsSource
      <4>6. Covered'
        BY <4>1, <4>4, <3>1, <1>1, <1>2 DEF Covered, IsSource, HasPath
      <4> QED BY <4>5, <4>6, <3>1, <1>1, <1>2 DEF Exists, IsSource, HasPath
    <3> QED BY <3>2, <3>3
  <2> QED BY <2>1, <2>2, <2>3 DEF Updating
<1> QED BY <1>1, <1>2, <1>4
        DEF PhaseInv, TypesAgree, Updating, IdleInv, CreateInv, ScanInv, AddInv, GpathInv,
            Good, IsSource, HasPath

(* updatetags removes the tags of every listed file before it adds any.    *)
LEMMA UpdatePhaseInv ==
    ASSUME TypeInv, PhaseInv, Updating, UpdateTags \/ SkipTags PROVE PhaseInv'
<1>1. /\ g = gpath /\ Good(tags, gpath) /\ Covered /\ ListsOK /\ ready = DbFile
      /\ TypesAgree(g)
  BY DEF PhaseInv, ScanInv, UpdateTags, SkipTags
<1>2. UNCHANGED <<g, gpath, tags, ready, langmap, kind, mode, addlist, deletelist, addlist_other>>
  BY DEF UpdateTags, SkipTags, env, disk, mem
<1>3. /\ g \in GpathRec /\ tags \in [Tag -> SUBSET TagRec]
      /\ addlist \subseteq Path /\ deletelist \subseteq Path
  BY DEF TypeInv, TypeOK
<1>4. \A r \in tags["GTAGS"] : r \in TagRec
  BY <1>3 DEF Tag
(* A tag of a listed file is a tag of a source file in GPATH. *)
<1>5. \A p \in addlist \cup deletelist : \A r \in tags["GTAGS"] :
         r.fid = g.fidOf[p] => r.fid \in deleteset
  <2> SUFFICES ASSUME NEW p \in addlist \cup deletelist, NEW r \in tags["GTAGS"],
                      r.fid = g.fidOf[p]
               PROVE  r.fid \in deleteset
    OBVIOUS
  <2>1. r.fid \in Fid /\ p \in Path
    BY <1>3, <1>4 DEF TagRec
  <2>2. HasPath(g, p)
    BY <2>1, GpathAssumption DEF HasPath, NoFid, Fid
  <2>3. r.path = p /\ IsSource(p)
    BY <2>1, <2>2, <1>1 DEF Good, TypeInv, GpathSound, GpathConsistent
  <2> QED BY <2>2, <2>3, <1>1 DEF Covered
<1>6. CASE UpdateTags
  <2>1. pc' = "add" /\ t' = [d \in Tag |-> {r \in tags[d] : r.fid \notin deleteset}]
    BY <1>6 DEF UpdateTags, WithoutTags
  <2>2. Good(t', g') /\ NoTagsFor(t', g', addlist \cup deletelist)
    BY <2>1, <1>1, <1>2, <1>5 DEF Good, NoTagsFor, Tag, IsSource
  <2>3. Extends(g, gpath)'
    BY <1>1, <1>2, GpathAssumption, SMT DEF Extends, TypeInv, TypeOK, GpathRec
  <2> QED BY <2>1, <2>2, <2>3, <1>1, <1>2
          DEF PhaseInv, TypesAgree, Updating, ListsOK, IdleInv, CreateInv, ScanInv, AddInv,
              GpathInv, Good, IsSource, Exists, HasPath
<1>7. CASE SkipTags
  <2>1. pc' \in {"gpath", "closeGpath"} /\ deleteset = {}
    BY <1>7 DEF SkipTags
  <2>2. NoTagsFor(tags, g, deletelist)
    BY <2>1, <1>5 DEF NoTagsFor
  <2>3. NoHoleHasTags
    BY <1>1, <1>3, GpathAssumption DEF NoHoleHasTags, Good, Tag, TagRec
  <2> QED BY <2>1, <2>2, <2>3, <1>1, <1>2
          DEF PhaseInv, TypesAgree, Updating, ListsOK, IdleInv, CreateInv, ScanInv, AddInv,
              GpathInv, Good, IsSource, Exists, HasPath, NoTagsFor, NoHoleHasTags
<1> QED BY <1>6, <1>7

(* updatetags: the addlist loop adds tags only of listed files, once each. *)
LEMMA AddPhaseInv ==
    ASSUME TypeInv, PhaseInv, Updating, NEW p \in Path, AddFile(p) PROVE PhaseInv'
<1>1. /\ Good(t, g) /\ NoTagsFor(t, g, addlist \cup deletelist) /\ Extends(g, gpath)
      /\ Good(tags, gpath) /\ ListsOK /\ ready = DbFile
      /\ TypesAgree(g) /\ TypesAgree(gpath)
  BY DEF PhaseInv, AddInv, AddFile
<1>2. /\ UNCHANGED <<gpath, tags, ready, langmap, kind, mode, deletelist, addlist_other, pc>>
      /\ p \in addlist /\ addlist' = addlist \ {p} /\ pc = "add"
      /\ PutPath(p, "source") /\ Parse(p, g'.fidOf[p])
  BY DEF AddFile, disk
<1>3. IsSource(p) /\ p \notin deletelist
  BY <1>1, <1>2 DEF ListsOK
<1>4. /\ Good(t', g')
      /\ t'["GTAGS"] = t["GTAGS"] \cup {[fid |-> g'.fidOf[p], path |-> p, ver |-> ver[p]]}
  BY <1>1, <1>2, <1>3, ParseGood DEF NoTagsFor
<1>5. TypesAgree(g)'
  BY <1>1, <1>2, <1>3, PutTypesAgree DEF FileType
<1>6. NoTagsFor(t', g', (addlist \cup deletelist) \ {p})
  <2> SUFFICES ASSUME NEW q \in (addlist \cup deletelist) \ {p}, NEW r \in t'["GTAGS"]
               PROVE  r.fid # g'.fidOf[q]
    BY DEF NoTagsFor
  <2>1. q \in Path /\ q # p
    BY DEF TypeInv, TypeOK
  <2>2. g'.fidOf[q] = g.fidOf[q] /\ g'.fidOf[q] # g'.fidOf[p]
    BY <1>2, <2>1, PutKeeps DEF FileType
  <2> QED BY <2>2, <1>1, <1>4 DEF NoTagsFor
<1>7. Extends(g', gpath)
  <2>1. Extends(g', g)
    BY <1>2, PutKeeps DEF FileType
  <2>2. /\ gpath.next \in Nat /\ g.next \in Nat /\ g'.next \in Nat
        /\ \A f \in Fid : f \in Nat
    <3>1. gpath \in GpathRec /\ g \in GpathRec /\ g' \in GpathRec
      BY <1>2, PutPathTypeInv DEF TypeInv, TypeOK, FileType
    <3> QED BY <3>1, GpathAssumption, SMT DEF GpathRec, Fid
  <2> QED BY <1>1, <2>1, <2>2, SMT DEF Extends
<1> QED BY <1>1, <1>2, <1>3, <1>4, <1>5, <1>6, <1>7
        DEF PhaseInv, TypesAgree, Updating, ListsOK, IdleInv, CreateInv, ScanInv, AddInv,
            GpathInv, Good, IsSource, Exists, HasPath, NoTagsFor

(* gtags_close and gpath_close in either order of the two modes leave tag  *)
(* files on disk that agree with the GPATH that is, or will be, on disk.   *)
LEMMA ClosePhaseInv ==
    ASSUME TypeInv, PhaseInv, pc # "idle",
           (FindDone /\ mode = "create") \/ AddDone \/ CloseGtags \/ CloseGrtags
             \/ CloseGpath \/ Touch
    PROVE  PhaseInv'
<1>1. UNCHANGED <<langmap, kind, mode>>
  BY DEF FindDone, AddDone, CloseGtags, CloseGrtags, CloseGpath, Touch, env
<1>2. CASE FindDone /\ mode = "create"
  BY <1>1, <1>2
     DEF FindDone, PhaseInv, TypesAgree, Updating, IdleInv, CreateInv, ScanInv, AddInv,
         GpathInv, Good, IsSource, HasPath, env, disk, mem
<1>3. CASE AddDone
  BY <1>1, <1>3
     DEF AddDone, PhaseInv, TypesAgree, Updating, ListsOK, IdleInv, CreateInv, ScanInv, AddInv,
         GpathInv, Good, NoTagsFor, Extends, IsSource, Exists, HasPath, env, disk, mem
<1>4. CASE CloseGtags /\ mode = "create"
  BY <1>1, <1>4
     DEF CloseGtags, PhaseInv, TypesAgree, Updating, IdleInv, CreateInv, ScanInv, AddInv,
         GpathInv, Good, IsSource, HasPath, env, mem, Tag, TypeInv, TypeOK
<1>5. CASE CloseGtags /\ mode # "create"
  <2>1. /\ Good(t, g) /\ NoTagsFor(t, g, addlist \cup deletelist) /\ Extends(g, gpath)
        /\ Good(tags, gpath) /\ ListsOK /\ ready = DbFile
        /\ TypesAgree(g) /\ TypesAgree(gpath)
    BY <1>5 DEF PhaseInv, AddInv, CloseGtags, Updating
  <2>2. /\ tags' = [tags EXCEPT !["GTAGS"] = t["GTAGS"]] /\ pc' = "closeGrtags"
        /\ ready' = DbFile /\ UNCHANGED <<gpath>> /\ UNCHANGED mem
    BY <1>5, <2>1 DEF CloseGtags, DbFile, Tag
  <2>3. tags'["GTAGS"] = t["GTAGS"] /\ tags'["GRTAGS"] = tags["GRTAGS"]
    BY <2>2 DEF TypeInv, TypeOK, Tag
  <2>4. NoHoleHasTags'
    <3>1. \A d \in Tag : d = "GTAGS" \/ d = "GRTAGS"
      BY DEF Tag
    <3>2. ASSUME NEW r \in t["GTAGS"], r.fid < gpath.next PROVE gpath.pathOf[r.fid] # NoPath
      <4>1. r.fid \in Fid /\ r.path \in Path
        BY <3>2 DEF TypeInv, TypeOK, Tag, TagRec
      <4>2. g.pathOf[r.fid] = r.path /\ gpath.pathOf[r.fid] = g.pathOf[r.fid]
        BY <3>2, <4>1, <2>1 DEF Good, Extends
      <4> QED BY <4>1, <4>2, GpathAssumption
    <3>3. ASSUME NEW r \in tags["GRTAGS"] PROVE gpath.pathOf[r.fid] # NoPath
      <4>1. r.path \in Path /\ r \in tags["GTAGS"]
        BY <3>3, <2>1 DEF TypeInv, TypeOK, Tag, TagRec, Good
      <4> QED BY <4>1, <2>1, GpathAssumption DEF Good
    <3> QED BY <2>2, <2>3, <3>1, <3>2, <3>3 DEF NoHoleHasTags
  <2> QED BY <1>1, <1>5, <2>1, <2>2, <2>3, <2>4
          DEF PhaseInv, TypesAgree, Updating, ListsOK, IdleInv, CreateInv, ScanInv, AddInv,
              GpathInv, Good, NoTagsFor, Extends, IsSource, Exists, HasPath, mem
<1>6. CASE CloseGrtags /\ mode = "create"
  <2>1. /\ Good(t, g) /\ tags["GTAGS"] = t["GTAGS"] /\ gpath = g
        /\ ready = {"GTAGS", "GPATH"} /\ TypesAgree(gpath)
    BY <1>6 DEF PhaseInv, CreateInv, CloseGrtags
  <2>2. /\ tags' = t /\ pc' = "idle" /\ ready' = DbFile /\ gpath' = gpath /\ g' = EmptyGpath
        /\ addlist' = {} /\ deletelist' = {} /\ addlist_other' = {}
    <3>1. tags' = [tags EXCEPT !["GRTAGS"] = t["GRTAGS"]]
      BY <1>6 DEF CloseGrtags
    <3>2. tags' = t
      BY <3>1, <2>1 DEF TypeInv, TypeOK, Tag
    <3> QED BY <1>6, <2>1, <3>2 DEF CloseGrtags, Exit, DbFile, Tag
  <2> QED BY <1>1, <2>1, <2>2
          DEF PhaseInv, TypesAgree, Updating, IdleInv, CreateInv, ScanInv, AddInv,
              GpathInv, Good, IsSource, HasPath, EmptyGpath, NoFid
<1>7. CASE CloseGrtags /\ mode # "create"
  <2>1. /\ Good(t, g) /\ NoTagsFor(t, g, addlist \cup deletelist) /\ Extends(g, gpath)
        /\ tags["GTAGS"] = t["GTAGS"] /\ NoHoleHasTags
        /\ ListsOK /\ ready = DbFile /\ TypesAgree(g) /\ TypesAgree(gpath)
    BY <1>7 DEF PhaseInv, AddInv, CloseGrtags, Updating
  <2>2. /\ tags' = [tags EXCEPT !["GRTAGS"] = t["GRTAGS"]] /\ pc' = "gpath"
        /\ ready' = DbFile /\ gpath' = gpath /\ UNCHANGED mem
    BY <1>7, <2>1 DEF CloseGrtags, DbFile, Tag
  <2>3. tags' = t
    BY <2>1, <2>2 DEF TypeInv, TypeOK, Tag
  <2>4. NoHoleHasTags'
    BY <2>1, <2>2, <2>3 DEF NoHoleHasTags, Good, Tag
  <2> QED BY <1>1, <1>7, <2>1, <2>2, <2>3, <2>4
          DEF PhaseInv, TypesAgree, Updating, ListsOK, IdleInv, CreateInv, ScanInv, AddInv,
              GpathInv, Good, NoTagsFor, IsSource, Exists, HasPath, mem
<1>8. CASE CloseGpath /\ mode = "create"
  BY <1>1, <1>8
     DEF CloseGpath, PhaseInv, TypesAgree, Updating, IdleInv, CreateInv, ScanInv, AddInv,
         GpathInv, Good, IsSource, HasPath, env, mem
<1>9. CASE CloseGpath /\ mode # "create"
  BY <1>1, <1>9
     DEF CloseGpath, Exit, PhaseInv, TypesAgree, Updating, IdleInv, CreateInv, ScanInv, AddInv,
         GpathInv, Good, IsSource, HasPath, EmptyGpath, NoFid, DbFile
<1>10. CASE Touch
  BY <1>1, <1>10
     DEF Touch, PhaseInv, TypesAgree, Updating, ListsOK, IdleInv, CreateInv, ScanInv, AddInv,
         GpathInv, Good, NoTagsFor, NoHoleHasTags, IsSource, Exists, HasPath, mem
<1> QED BY <1>2, <1>3, <1>4, <1>5, <1>6, <1>7, <1>8, <1>9, <1>10

(* The loops over deletelist and addlist_other change GPATH only at paths  *)
(* without tags.                                                           *)
LEMMA GpathPhaseInv ==
    ASSUME TypeInv, PhaseInv, NEW p \in Path, DeletePath(p) \/ AddOther(p) PROVE PhaseInv'
<1>1. /\ Good(tags, g) /\ NoTagsFor(tags, g, deletelist) /\ NoHoleHasTags
      /\ ListsOK /\ ready = DbFile /\ TypesAgree(g) /\ TypesAgree(gpath) /\ Updating
      /\ tags \in [Tag -> SUBSET TagRec] /\ deletelist \subseteq Path
  BY DEF PhaseInv, GpathInv, CreateInv, Updating, DeletePath, AddOther, TypeInv, TypeOK
<1>2. UNCHANGED <<langmap, kind, mode, pc, tags, gpath, ready>> /\ pc = "gpath"
  BY DEF DeletePath, AddOther, env, disk
<1>3. \A r \in tags["GTAGS"] : r.fid \in Fid /\ r.path \in Path
  BY <1>1 DEF Tag, TagRec
<1>4. Good(tags, g') /\ NoTagsFor(tags, g', deletelist') /\ TypesAgree(g)' /\ ListsOK'
  <2>1. CASE DeletePath(p)
    <3>1. /\ g' = GpathDelete(g, p) /\ p \in deletelist /\ deletelist' = deletelist \ {p}
          /\ UNCHANGED <<addlist, addlist_other>>
          /\ g \in GpathRec /\ GpathConsistent(g)
      BY <2>1 DEF DeletePath, TypeInv, TypeOK, GpathSound
    <3>2. /\ ~HasPath(g', p)
          /\ \A f \in Fid : f # g.fidOf[p] => g'.pathOf[f] = g.pathOf[f]
          /\ \A q \in Path \ {p} : g'.fidOf[q] = g.fidOf[q]
          /\ g'.typeOf = g.typeOf
      BY <3>1, GpathDeleteEffect
    <3>3. \A r \in tags["GTAGS"] : r.fid # g.fidOf[p]
      BY <1>1, <3>1 DEF NoTagsFor
    <3>4. Good(tags, g')
      BY <1>1, <1>2, <1>3, <3>2, <3>3 DEF Good
    <3>5. NoTagsFor(tags, g', deletelist')
      BY <1>1, <3>1, <3>2 DEF NoTagsFor
    <3>6. TypesAgree(g)' /\ ListsOK'
      BY <1>1, <1>2, <3>1, <3>2 DEF TypesAgree, ListsOK, HasPath, IsSource, Exists
    <3> QED BY <3>4, <3>5, <3>6
  <2>2. CASE AddOther(p)
    <3>1. /\ PutPath(p, "other") /\ deletelist = {} /\ deletelist' = {} /\ ~IsSource(p)
          /\ addlist' = addlist /\ addlist_other' \subseteq addlist_other
          /\ "other" \in FileType
      BY <2>2, <1>1 DEF AddOther, ListsOK, FileType
    <3>2. Good(tags, g')
      BY <1>1, <1>2, <3>1, PutGood
    <3>3. TypesAgree(g)'
      BY <1>1, <1>2, <3>1, PutTypesAgree
    <3> QED BY <1>1, <1>2, <3>1, <3>2, <3>3 DEF NoTagsFor, ListsOK, IsSource, Exists
  <2> QED BY <2>1, <2>2
<1> QED BY <1>1, <1>2, <1>4
        DEF PhaseInv, TypesAgree, Updating, ListsOK, IdleInv, CreateInv, ScanInv, AddInv,
            GpathInv, Good, NoTagsFor, NoHoleHasTags, IsSource, HasPath

(* Every action of an undisturbed run keeps the phase invariant.           *)
LEMMA StepPhaseInv ==
    ASSUME Undisturbed PROVE TypeInv /\ PhaseInv /\ [Next]_vars => PhaseInv'
<1> SUFFICES ASSUME TypeInv, PhaseInv, [Next]_vars PROVE PhaseInv'
  OBVIOUS
<1>1. CASE User
  BY <1>1, UserPhaseInv
<1>2. CASE Start
  BY <1>2, StartPhaseInv
<1>3. ASSUME NEW p \in Path, VisitCreate(p) PROVE PhaseInv'
  BY <1>3, CreatePhaseInv DEF VisitCreate
<1>4. ASSUME NEW p \in Path, Visit(p) PROVE PhaseInv'
  BY <1>4, ScanPhaseInv DEF Visit, Updating
<1>5. CASE FindDone
  BY <1>5, ScanPhaseInv, ClosePhaseInv DEF FindDone, Updating
<1>6. CASE CheckId \/ IdsDone
  BY <1>6, ScanPhaseInv DEF CheckId, RetireTags, IdsDone, Updating, PhaseInv, CreateInv
<1>7. CASE UpdateTags \/ SkipTags
  BY <1>7, UpdatePhaseInv DEF UpdateTags, SkipTags, Updating, PhaseInv, CreateInv
<1>8. ASSUME NEW p \in Path, AddFile(p) PROVE PhaseInv'
  BY <1>8, AddPhaseInv DEF AddFile, Updating, PhaseInv, CreateInv
<1>9. CASE AddDone \/ CloseGtags \/ CloseGrtags \/ CloseGpath \/ Touch
  BY <1>9, ClosePhaseInv DEF AddDone, CloseGtags, CloseGrtags, CloseGpath, Touch
<1>10. ASSUME NEW p \in Path, DeletePath(p) \/ AddOther(p) PROVE PhaseInv'
  BY <1>10, GpathPhaseInv
<1>11. ASSUME NEW p \in Path, VisitVanished(p) \/ AddVanished(p) PROVE PhaseInv'
  <2>1. Updating /\ Die
    BY <1>11 DEF VisitVanished, AddVanished, Updating, PhaseInv, CreateInv
  <2>2. ready = DbFile /\ Good(tags, gpath)
    BY <1>11, <2>1 DEF VisitVanished, AddVanished, PhaseInv, ScanInv, AddInv
  <2> QED BY <2>1, <2>2, DiePhaseInv
<1>12. CASE UpdateTagsDies
  <2>1. Updating /\ Die
    BY <1>12 DEF UpdateTagsDies, Updating, PhaseInv, CreateInv
  <2>2. ready = DbFile /\ Good(tags, gpath)
    BY <1>12, <2>1 DEF UpdateTagsDies, PhaseInv, ScanInv
  <2> QED BY <2>1, <2>2, DiePhaseInv
<1>13. CASE Crash
  BY <1>13 DEF Crash, Undisturbed
<1>14. CASE UNCHANGED vars
  BY <1>14
     DEF vars, PhaseInv, TypesAgree, Updating, ListsOK, IdleInv, CreateInv, ScanInv, AddInv,
         GpathInv, Good, Covered, NoTagsFor, Extends, NoHoleHasTags, IsSource, Exists, HasPath
<1> QED BY <1>1, <1>2, <1>3, <1>4, <1>5, <1>6, <1>7, <1>8, <1>9, <1>10, <1>11, <1>12,
           <1>13, <1>14 DEF Next, Step

(* The phase invariant yields the three properties of the tag files.       *)
LEMMA PhaseInvImplies ==
    TypeInv /\ PhaseInv => NoDanglingTag /\ HolesHaveNoTags
<1> SUFFICES ASSUME TypeInv, PhaseInv
             PROVE  NoDanglingTag /\ HolesHaveNoTags
  OBVIOUS
<1>1. ASSUME Good(tags, gpath) PROVE NoHoleHasTags
  <2>1. \A d \in Tag : tags[d] = tags["GTAGS"] /\ tags[d] \subseteq TagRec
    BY <1>1 DEF Good, Tag, TypeInv, TypeOK
  <2> QED BY <1>1, <2>1, GpathAssumption DEF NoHoleHasTags, Good, TagRec
<1>2. NoDanglingTag
  BY DEF NoDanglingTag, AtRest, PhaseInv, IdleInv, Good, Tag
<1>3. HolesHaveNoTags
  <2> SUFFICES ASSUME ready = DbFile PROVE NoHoleHasTags
    BY DEF HolesHaveNoTags, NoHoleHasTags
  <2>1. CASE pc = "idle"
    BY <2>1, <1>1 DEF PhaseInv, IdleInv
  <2>2. CASE pc # "idle" /\ mode = "create"
    <3>1. "GRTAGS" \in ready
      BY DEF DbFile, Tag
    <3>2. ready \in {{}, {"GTAGS"}, {"GTAGS", "GPATH"}}
      BY <2>2 DEF PhaseInv, CreateInv
    <3> QED BY <3>1, <3>2
  <2>3. CASE Updating
    <3>1. Good(tags, gpath) \/ NoHoleHasTags
      BY <2>3 DEF PhaseInv, ScanInv, AddInv, GpathInv, Updating, TypeInv, TypeOK
    <3> QED BY <3>1, <1>1
  <2> QED BY <2>1, <2>2, <2>3 DEF Updating
<1> QED BY <1>2, <1>3

(* When runs are undisturbed no tag is ever left whose file id segment_read *)
(* would not find in GPATH or would find under another path.               *)
THEOREM NoDanglingTagHolds ==
    ASSUME Undisturbed PROVE Spec => []NoDanglingTag
<1>1. Spec => [](TypeInv /\ PhaseInv)
  BY InitTypeInv, StepTypeInv, InitPhaseInv, StepPhaseInv, PTL DEF Spec
<1> QED BY <1>1, PhaseInvImplies, PTL

(* Nor does a retired id own a tag, at any moment of a run and in either    *)
(* tag file on disk.                                                       *)
THEOREM HolesHaveNoTagsHolds ==
    ASSUME Undisturbed PROVE Spec => []HolesHaveNoTags
<1>1. Spec => [](TypeInv /\ PhaseInv)
  BY InitTypeInv, StepTypeInv, InitPhaseInv, StepPhaseInv, PTL DEF Spec
<1> QED BY <1>1, PhaseInvImplies, PTL
-----------------------------------------------------------------------------
(* A GPATH that has just been opened has lost no id.                       *)
LEMMA RetiresRefl == ASSUME NEW x \in GpathRec PROVE OnlyRetires(x, x)
BY GpathAssumption, SMT DEF OnlyRetires, GpathRec

(* gpath_put and gpath_delete never give an allocated id to another path.  *)
LEMMA PutRetires ==
    ASSUME TypeInv, NEW p \in Path, NEW type \in FileType, PutPath(p, type),
           OnlyRetires(g, gpath)
    PROVE  OnlyRetires(g', gpath)
<1>1. Extends(g', g)
  BY PutKeeps
<1>2. gpath \in GpathRec /\ g \in GpathRec /\ g' \in GpathRec
  BY PutPathTypeInv DEF TypeInv, TypeOK
<1>3. /\ gpath.next \in Nat /\ g.next \in Nat /\ g'.next \in Nat
      /\ \A f \in Fid : f \in Nat
  BY <1>2, GpathAssumption, SMT DEF GpathRec, Fid
<1> QED BY <1>1, <1>3, SMT DEF OnlyRetires, Extends

(* gpath_delete at most retires an id.                                     *)
LEMMA DeleteRetires ==
    ASSUME TypeInv, NEW p \in Path, g' = GpathDelete(g, p), OnlyRetires(g, gpath)
    PROVE  OnlyRetires(g', gpath)
<1>1. g \in GpathRec /\ GpathConsistent(g)
  BY DEF TypeInv, TypeOK, GpathSound
<1>2. g'.next = g.next /\ \A f \in Fid : g'.pathOf[f] \in {g.pathOf[f], NoPath}
  BY <1>1, GpathDeleteEffect
<1> QED BY <1>2 DEF OnlyRetires

(* Every action keeps in memory a GPATH that has at most lost ids.         *)
LEMMA StepFidInv == TypeInv /\ FidInv /\ [Next]_vars => FidInv'
<1> SUFFICES ASSUME TypeInv, FidInv, [Next]_vars PROVE FidInv'
  OBVIOUS
<1>1. CASE UNCHANGED <<g, gpath, ready, pc, mode>>
  BY <1>1 DEF FidInv, Updating, OnlyRetires
<1>2. CASE User \/ UNCHANGED vars
  BY <1>1, <1>2 DEF User, Tick, ChangeLangmap, Edit, Create, Remove, Change, disk, mem, vars
<1>3. CASE StartCreate
  BY <1>3 DEF StartCreate, FidInv, Updating
<1>4. ASSUME OpenForUpdate, UNCHANGED disk, mode' # "create" PROVE FidInv'
  BY <1>4, RetiresRefl DEF OpenForUpdate, FidInv, Updating, disk, TypeInv, TypeOK
<1>5. CASE StartIncremental
  BY <1>4, <1>5 DEF StartIncremental
<1>6. ASSUME NEW p \in Path, StartSingle(p) PROVE FidInv'
  BY <1>4, <1>6 DEF StartSingle
<1>7. ASSUME pc' = "idle" PROVE FidInv'
  BY <1>7 DEF FidInv, Updating
<1>8. CASE Die
  BY <1>7, <1>8 DEF Die, Exit
(* A step within a run that changes neither GPATH nor what is ready. *)
<1>9. ASSUME pc # "idle", UNCHANGED <<g, gpath, ready, mode>> PROVE FidInv'
  BY <1>9 DEF FidInv, Updating, OnlyRetires
<1>10. CASE FindDone \/ CheckId \/ IdsDone \/ UpdateTags \/ SkipTags \/ AddDone \/ Touch
  BY <1>9, <1>10
     DEF FindDone, CheckId, IdsDone, UpdateTags, SkipTags, AddDone, Touch, disk, mem
<1>11. ASSUME NEW p \in Path, Visit(p) PROVE FidInv'
  BY <1>9, <1>11 DEF Visit, disk
<1>12. ASSUME NEW p \in Path, VisitCreate(p) PROVE FidInv'
  BY <1>12 DEF VisitCreate, FidInv, Updating, disk
<1>13. ASSUME NEW p \in Path, AddFile(p) \/ AddOther(p) PROVE FidInv'
  <2>1. /\ pc # "idle" /\ UNCHANGED <<gpath, ready, mode>>
        /\ \E type \in FileType : PutPath(p, type)
    BY <1>13 DEF AddFile, AddOther, disk, FileType
  <2> QED BY <2>1, PutRetires DEF FidInv, Updating
<1>14. ASSUME NEW p \in Path, DeletePath(p) PROVE FidInv'
  <2>1. pc # "idle" /\ UNCHANGED <<gpath, ready, mode>> /\ g' = GpathDelete(g, p)
    BY <1>14 DEF DeletePath, disk
  <2> QED BY <2>1, DeleteRetires DEF FidInv, Updating
<1>15. CASE CloseGtags
  BY <1>15 DEF CloseGtags, FidInv, Updating, OnlyRetires, mem
<1>16. CASE CloseGrtags
  BY <1>7, <1>16 DEF CloseGrtags, Exit, FidInv, Updating, OnlyRetires, mem
<1>17. CASE CloseGpath
  BY <1>7, <1>17 DEF CloseGpath, Exit, FidInv, Updating, mem
<1> QED
  BY <1>2, <1>3, <1>5, <1>6, <1>8, <1>10, <1>11, <1>12, <1>13, <1>14, <1>15, <1>16, <1>17
  DEF Next, Start, Step, Crash, UpdateTagsDies, VisitVanished, AddVanished

(* An id that GPATH has allocated never comes to mean another file while   *)
(* the tag files are updated, also after crashes and under races.          *)
THEOREM FidNeverReusedHolds == Spec => FidNeverReused
<1> DEFINE Keep == ready = DbFile /\ ready' = DbFile =>
                     /\ gpath.next <= gpath'.next
                     /\ \A f \in Fid : f < gpath.next =>
                          gpath'.pathOf[f] \in {gpath.pathOf[f], NoPath}
<1>1. Init => FidInv
  BY DEF Init, FidInv, Updating
<1>2. Spec => [](TypeInv /\ FidInv)
  BY <1>1, InitTypeInv, StepTypeInv, StepFidInv, PTL DEF Spec
<1>3. TypeInv /\ FidInv /\ [Next]_vars => [Keep]_vars
  <2> SUFFICES ASSUME TypeInv, FidInv, Next, ready = DbFile, ready' = DbFile
               PROVE  OnlyRetires(gpath', gpath)
    BY DEF Keep, OnlyRetires
  <2>1. CASE gpath' = gpath
    BY <2>1, RetiresRefl DEF TypeInv, TypeOK
  <2>2. CASE CloseGpath
    <3>1. Updating /\ gpath' = g
      BY <2>2 DEF CloseGpath, FidInv, Updating, DbFile, Tag
    <3> QED BY <3>1 DEF FidInv
  <2>3. ~StartCreate
    BY DEF StartCreate, DbFile, Tag
  <2> QED
    BY <2>1, <2>2, <2>3
    DEF Next, User, Tick, ChangeLangmap, Edit, Create, Remove, Change, Start, StartIncremental,
        StartSingle, Step, FindDone, CheckId, IdsDone, UpdateTags, UpdateTagsDies, SkipTags,
        AddDone, CloseGtags, CloseGrtags, Touch, VisitCreate, Visit, VisitVanished, AddFile,
        AddVanished, DeletePath, AddOther, Crash, Die, disk
<1> QED BY <1>2, <1>3, PTL DEF Spec, FidNeverReused
-----------------------------------------------------------------------------
(* Ids and their order. *)
LEMMA FidOrder ==
    ASSUME NEW x \in GpathRec PROVE x.next \in Nat /\ \A f \in Fid : f \in Nat
BY GpathAssumption, SMT DEF GpathRec, Fid

(* Tags that match a GPATH match one that only adds ids, and all the more  *)
(* does a part of them.                                                    *)
LEMMA MatchExtends ==
    ASSUME NEW x \in [Tag -> SUBSET TagRec], NEW gp \in GpathRec, NEW h \in GpathRec,
           Match(x, gp), Extends(h, gp)
    PROVE  Match(x, h)
<1> SUFFICES ASSUME NEW d \in Tag, NEW r \in x[d]
             PROVE  r.fid < h.next /\ h.pathOf[r.fid] \in {r.path, NoPath}
  BY DEF Match
<1>1. r.fid \in Fid
  BY DEF TagRec
<1>2. r.fid < gp.next /\ gp.pathOf[r.fid] \in {r.path, NoPath}
  BY DEF Match
<1>3. r.fid < h.next
  BY <1>1, <1>2, FidOrder, SMT DEF Extends
<1> QED BY <1>1, <1>2, <1>3 DEF Extends

LEMMA MatchPart ==
    ASSUME NEW x, NEW y, NEW gp, Match(x, gp), \A d \in Tag : y[d] \subseteq x[d]
    PROVE  Match(y, gp)
BY DEF Match

(* Tags that match a GPATH lead to no wrong path in the GPATH it extends.  *)
LEMMA MatchIsRight ==
    ASSUME TypeInv, NEW x \in [Tag -> SUBSET TagRec], Match(x, g), Extends(g, gpath),
           NEW d \in Tag, NEW r \in x[d]
    PROVE  gpath.pathOf[r.fid] \in {r.path, NoPath}
<1>1. r.fid \in Fid
  BY DEF TagRec
<1>2. gpath \in GpathRec /\ GpathConsistent(gpath)
  BY DEF TypeInv, TypeOK, GpathSound
<1>3. CASE r.fid < gpath.next
  BY <1>1, <1>3 DEF Match, Extends
<1>4. CASE ~(r.fid < gpath.next)
  BY <1>1, <1>2, <1>4 DEF GpathConsistent
<1> QED BY <1>3, <1>4

LEMMA ExtendsRefl == ASSUME NEW x \in GpathRec PROVE Extends(x, x)
BY FidOrder, SMT DEF Extends

(* What is parsed and put matches.                                         *)
LEMMA ParseMatch ==
    ASSUME TypeInv, NEW p \in Path, PutPath(p, "source"),
           Parse(p, g'.fidOf[p]) \/ t' = t, Match(t, g)
    PROVE  Match(t', g') /\ \A d \in Tag : t[d] \subseteq t'[d]
<1>1. "source" \in FileType
  BY DEF FileType
<1>2. g \in GpathRec /\ g' \in GpathRec /\ t \in [Tag -> SUBSET TagRec] /\ GpathConsistent(g')
  BY <1>1, PutPathTypeInv DEF TypeInv, TypeOK
<1>3. Match(t, g')
  BY <1>1, <1>2, PutKeeps, MatchExtends
<1>4. g'.fidOf[p] \in Fid /\ g'.pathOf[g'.fidOf[p]] = p
  BY <1>1, PutKeeps
<1>5. g'.fidOf[p] < g'.next
  BY <1>2, <1>4, GpathAssumption DEF GpathConsistent
<1> DEFINE new == [fid |-> g'.fidOf[p], path |-> p, ver |-> ver[p]]
<1>6. \A d \in Tag : t[d] \subseteq t'[d] /\ t'[d] \subseteq t[d] \cup {new}
  BY <1>2 DEF Parse
<1>7. new.fid < g'.next /\ g'.pathOf[new.fid] \in {new.path, NoPath}
  BY <1>4, <1>5
<1> HIDE DEF new
<1> QED BY <1>3, <1>6, <1>7 DEF Match

(* Starting: nothing, or what the last run left.                           *)
LEMMA StartMatch ==
    ASSUME TypeInv, MatchInv, Start PROVE MatchInv'
<1>1. CASE StartCreate
  <2>1. /\ gpath' = EmptyGpath /\ g' = EmptyGpath /\ pc' = "find" /\ mode' = "create"
        /\ \A d \in Tag : tags'[d] = {} /\ t'[d] = {}
    BY <1>1 DEF StartCreate, CreatedTags, NoTags
  <2> QED BY <2>1 DEF MatchInv, NoWrongPath, MatchCreate, MatchUpdate, Updating, Match
<1>2. ASSUME OpenForUpdate, UNCHANGED disk, pc' \in {"find", "update"}, mode' # "create"
      PROVE  MatchInv'
  BY <1>2 DEF OpenForUpdate, disk, MatchInv, NoWrongPath, MatchCreate, MatchUpdate, Updating, Match
<1>3. CASE StartIncremental
  BY <1>2, <1>3 DEF StartIncremental
<1>4. ASSUME NEW p \in Path, StartSingle(p) PROVE MatchInv'
  BY <1>2, <1>4 DEF StartSingle
<1> QED BY <1>1, <1>3, <1>4 DEF Start

(* gtags dies only before it has written anything.                         *)
LEMMA DieMatch ==
    ASSUME MatchInv, Die, Updating, pc \in {"find", "update", "add"} PROVE MatchInv'
BY DEF Die, Exit, disk, Updating, MatchInv, NoWrongPath, MatchCreate, MatchUpdate, Match

(* Closing the files, in the order of a creation and of an update.         *)
LEMMA CloseMatch ==
    ASSUME TypeInv, MatchInv, CloseGtags \/ CloseGrtags \/ CloseGpath PROVE MatchInv'
<1>1. /\ t \in [Tag -> SUBSET TagRec] /\ tags \in [Tag -> SUBSET TagRec]
      /\ g \in GpathRec /\ gpath \in GpathRec
      /\ Tag = {"GTAGS", "GRTAGS"}
  BY DEF TypeInv, TypeOK, Tag
<1>2. CASE mode = "create"
  <2>1. /\ pc \in {"closeGtags", "closeGpath", "closeGrtags"} /\ pc # "idle"
        /\ Match(t, g) /\ \A d \in Tag : tags[d] \subseteq t[d]
        /\ gpath = IF pc = "closeGrtags" THEN g ELSE EmptyGpath
    BY <1>2 DEF MatchInv, MatchCreate, CloseGtags, CloseGrtags, CloseGpath
  <2>2. \A d \in Tag : tags'[d] \subseteq t[d]
    BY <1>1, <2>1 DEF CloseGtags, CloseGrtags, CloseGpath
  <2>3. Match(tags', g)
    BY <2>1, <2>2, MatchPart
  <2>4. CASE CloseGtags
    <3>1. /\ gpath' = EmptyGpath /\ pc' = "closeGpath" /\ UNCHANGED <<g, t, mode>>
      BY <1>2, <2>1, <2>4 DEF CloseGtags, mem
    <3>2. NoWrongPath'
      <4>1. \A d \in Tag : tags'[d] \subseteq TagRec  BY <1>1, <2>2
      <4> QED BY <3>1, <4>1 DEF NoWrongPath, EmptyGpath, TagRec
    <3> QED BY <1>2, <2>1, <2>2, <3>1, <3>2 DEF MatchInv, MatchCreate, MatchUpdate, Updating, Match
  <2>5. CASE CloseGpath
    <3>1. /\ gpath' = g /\ pc' = "closeGrtags" /\ UNCHANGED <<g, t, mode, tags>>
      BY <1>2, <2>5 DEF CloseGpath, mem
    <3> QED BY <1>2, <2>1, <2>3, <3>1
            DEF MatchInv, NoWrongPath, MatchCreate, MatchUpdate, Updating, Match
  <2>6. CASE CloseGrtags
    <3>1. gpath' = g /\ pc' = "idle"
      BY <1>2, <2>1, <2>6 DEF CloseGrtags, Exit
    <3> QED BY <2>3, <3>1 DEF MatchInv, NoWrongPath, MatchCreate, MatchUpdate, Updating, Match
  <2> QED BY <2>4, <2>5, <2>6
<1>3. CASE mode # "create"
  <2>1. Updating
    BY <1>3 DEF Updating, CloseGtags, CloseGrtags, CloseGpath
  <2>2. CASE CloseGtags
    <3>1. /\ pc' = "closeGrtags" /\ UNCHANGED <<g, t, mode, gpath>>
          /\ tags' = [tags EXCEPT !["GTAGS"] = t["GTAGS"]]
      BY <1>3, <2>2 DEF CloseGtags, mem
    <3>2. Match(tags, gpath) /\ Match(t, g) /\ Extends(g, gpath)
      BY <2>1, <2>2 DEF MatchInv, MatchUpdate, CloseGtags
    <3>3. Match(tags, g)
      BY <1>1, <3>2, MatchExtends
    <3>4. Match(tags', g) /\ tags' \in [Tag -> SUBSET TagRec]
      BY <1>1, <3>1, <3>2, <3>3 DEF Match
    <3>5. NoWrongPath'
      BY <3>1, <3>2, <3>4, MatchIsRight DEF NoWrongPath
    <3> QED BY <1>3, <3>1, <3>2, <3>4, <3>5
            DEF MatchInv, MatchCreate, MatchUpdate, Updating, Match, Extends
  <2>3. CASE CloseGrtags
    <3>1. /\ pc' = "gpath" /\ UNCHANGED <<g, t, mode, gpath>>
          /\ tags' = [tags EXCEPT !["GRTAGS"] = t["GRTAGS"]]
      BY <1>3, <2>3 DEF CloseGrtags, mem
    <3>2. Match(tags, g) /\ Match(t, g) /\ Extends(g, gpath)
      BY <2>1, <2>3 DEF MatchInv, MatchUpdate, CloseGrtags
    <3>3. Match(tags', g) /\ tags' \in [Tag -> SUBSET TagRec]
      BY <1>1, <3>1, <3>2 DEF Match
    <3>4. NoWrongPath'
      BY <3>1, <3>2, <3>3, MatchIsRight DEF NoWrongPath
    <3> QED BY <1>3, <3>1, <3>3, <3>4 DEF MatchInv, MatchCreate, MatchUpdate, Updating, Match
  <2>4. CASE CloseGpath
    <3>1. gpath' = g /\ pc' = "idle" /\ tags' = tags
      BY <1>3, <2>4 DEF CloseGpath, Exit
    <3>2. Match(tags, g)
      BY <2>1, <2>4 DEF MatchInv, MatchUpdate, CloseGpath
    <3> QED BY <3>1, <3>2 DEF MatchInv, NoWrongPath, MatchCreate, MatchUpdate, Updating, Match
  <2> QED BY <2>2, <2>3, <2>4
<1> QED BY <1>2, <1>3

(* Every action but a crash keeps it.                                      *)
LEMMA StepMatchInv ==
    ASSUME ~MayCrash PROVE TypeInv /\ MatchInv /\ [Next]_vars => MatchInv'
<1> SUFFICES ASSUME TypeInv, MatchInv, [Next]_vars PROVE MatchInv'
  OBVIOUS
<1> DEFINE Same == UNCHANGED <<g, t, gpath, tags, mode>>
<1>0. /\ g \in GpathRec /\ gpath \in GpathRec /\ t \in [Tag -> SUBSET TagRec]
      /\ tags \in [Tag -> SUBSET TagRec]
  BY DEF TypeInv, TypeOK
<1>1. ASSUME Same, pc' = pc PROVE MatchInv'
  BY <1>1 DEF MatchInv, NoWrongPath, MatchCreate, MatchUpdate, Updating, Match, Extends
<1>2. CASE User \/ UNCHANGED vars \/ CheckId \/ \E p \in Path : Visit(p)
  BY <1>1, <1>2
     DEF User, Tick, ChangeLangmap, Edit, Create, Remove, Change, CheckId, Visit, disk, mem, vars
<1>3. CASE Start
  BY <1>3, StartMatch
<1>4. CASE FindDone \/ IdsDone \/ AddDone \/ Touch
  BY <1>4 DEF FindDone, IdsDone, AddDone, Touch, disk, mem,
              MatchInv, NoWrongPath, MatchCreate, MatchUpdate, Updating, Match, Extends
<1>5. CASE UpdateTags
  <2>1. /\ pc = "update" /\ pc' = "add" /\ UNCHANGED <<g, gpath, tags, mode>>
        /\ \A d \in Tag : t'[d] \subseteq tags[d]
    BY <1>5 DEF UpdateTags, WithoutTags, disk
  <2>2. Updating /\ g = gpath /\ Match(tags, gpath)
    BY <2>1 DEF MatchInv, MatchCreate, MatchUpdate, Updating
  <2>3. Match(t', g) /\ Extends(g, gpath)
    BY <1>0, <2>1, <2>2, MatchPart, ExtendsRefl
  <2> QED BY <2>1, <2>2, <2>3
          DEF MatchInv, NoWrongPath, MatchCreate, MatchUpdate, Updating, Match, Extends
<1>6. CASE SkipTags
  <2>1. pc = "update" /\ pc' \in {"gpath", "closeGpath"} /\ Same
    BY <1>6 DEF SkipTags, disk, mem
  <2> QED BY <2>1 DEF MatchInv, NoWrongPath, MatchCreate, MatchUpdate, Updating, Match
<1>7. CASE UpdateTagsDies \/ \E p \in Path : VisitVanished(p) \/ AddVanished(p)
  <2>1. Die /\ pc \in {"find", "update", "add"} /\ Updating
    BY <1>7 DEF UpdateTagsDies, VisitVanished, AddVanished, Updating, MatchInv, MatchCreate
  <2> QED BY <2>1, DieMatch
<1>8. ASSUME NEW p \in Path, VisitCreate(p) PROVE MatchInv'
  <2>1. /\ pc = "find" /\ mode = "create" /\ UNCHANGED <<pc, mode, gpath, tags>>
        /\ \/ PutPath(p, "source") /\ Parse(p, g'.fidOf[p])
           \/ PutPath(p, "other") /\ t' = t
           \/ g' = g /\ t' = t
    BY <1>8 DEF VisitCreate, disk
  <2>2. Match(t, g) /\ \A d \in Tag : tags[d] \subseteq t[d]
    BY <2>1 DEF MatchInv, MatchCreate
  <2>3. Match(t', g') /\ \A d \in Tag : tags[d] \subseteq t'[d]
    <3>1. CASE PutPath(p, "source") /\ Parse(p, g'.fidOf[p])
      BY <2>2, <3>1, ParseMatch
    <3>2. CASE PutPath(p, "other") /\ t' = t
      <4>1. "other" \in FileType  BY DEF FileType
      <4>2. Extends(g', g) /\ g' \in GpathRec  BY <3>2, <4>1, PutKeeps, PutPathTypeInv
      <4> QED BY <1>0, <2>2, <3>2, <4>2, MatchExtends
    <3>3. CASE g' = g /\ t' = t
      BY <2>2, <3>3
    <3> QED BY <2>1, <3>1, <3>2, <3>3
  <2> QED BY <2>1, <2>3 DEF MatchInv, NoWrongPath, MatchCreate, MatchUpdate, Updating, Match
<1>9. ASSUME NEW p \in Path, AddFile(p) PROVE MatchInv'
  <2>1. /\ pc = "add" /\ UNCHANGED <<pc, mode, gpath, tags>>
        /\ PutPath(p, "source") /\ Parse(p, g'.fidOf[p])
    BY <1>9 DEF AddFile, disk
  <2>2. Updating /\ Match(t, g) /\ Extends(g, gpath) /\ Match(tags, gpath)
    BY <2>1 DEF MatchInv, MatchCreate, MatchUpdate, Updating
  <2>3. Match(t', g')
    BY <2>1, <2>2, ParseMatch
  <2>4. Extends(g', gpath)
    <3>1. "source" \in FileType  BY DEF FileType
    <3>2. Extends(g', g) /\ g' \in GpathRec  BY <2>1, <3>1, PutKeeps, PutPathTypeInv
    <3> QED BY <1>0, <2>2, <3>2, FidOrder, SMT DEF Extends
  <2> QED BY <2>1, <2>2, <2>3, <2>4
          DEF MatchInv, NoWrongPath, MatchCreate, MatchUpdate, Updating, Match, Extends
<1>10. ASSUME NEW p \in Path, DeletePath(p) \/ AddOther(p) PROVE MatchInv'
  <2>1. /\ pc = "gpath" /\ UNCHANGED <<pc, mode, gpath, tags, t>>
        /\ g' = GpathDelete(g, p) \/ PutPath(p, "other")
    BY <1>10 DEF DeletePath, AddOther, disk
  <2>2. Updating /\ Match(tags, g)
    BY <2>1 DEF MatchInv, MatchCreate, MatchUpdate, Updating
  <2>3. Match(tags, g')
    <3>1. CASE g' = GpathDelete(g, p)
      <4>1. g'.next = g.next /\ \A f \in Fid : g'.pathOf[f] \in {g.pathOf[f], NoPath}
        BY <1>0, <3>1, GpathDeleteEffect DEF TypeInv, GpathSound
      <4>2. \A d \in Tag : \A r \in tags[d] : r.fid \in Fid
        BY <1>0 DEF TagRec
      <4> QED BY <2>2, <4>1, <4>2 DEF Match
    <3>2. CASE PutPath(p, "other")
      <4>1. "other" \in FileType  BY DEF FileType
      <4>2. Extends(g', g) /\ g' \in GpathRec  BY <3>2, <4>1, PutKeeps, PutPathTypeInv
      <4> QED BY <1>0, <2>2, <4>2, MatchExtends
    <3> QED BY <2>1, <3>1, <3>2
  <2> QED BY <2>1, <2>2, <2>3
          DEF MatchInv, NoWrongPath, MatchCreate, MatchUpdate, Updating, Match
<1>11. CASE CloseGtags \/ CloseGrtags \/ CloseGpath
  BY <1>11, CloseMatch
<1> QED
  BY <1>2, <1>3, <1>4, <1>5, <1>6, <1>7, <1>8, <1>9, <1>10, <1>11 DEF Next, Step, Crash

(* Without a kill no tag on disk ever leads to the path of another file:   *)
(* in the middle of a run, after races, and after changes of the langmap.  *)
THEOREM NoWrongPathHolds ==
    ASSUME ~MayCrash PROVE Spec => []NoWrongPath
<1>1. Init => MatchInv
  BY DEF Init, MatchInv, NoWrongPath, MatchCreate, MatchUpdate, Updating, Match, NoTags
<1>2. Spec => [](TypeInv /\ MatchInv)
  BY <1>1, InitTypeInv, StepTypeInv, StepMatchInv, PTL DEF Spec
<1>3. MatchInv => NoWrongPath
  BY DEF MatchInv
<1> QED BY <1>2, <1>3, PTL
=============================================================================
