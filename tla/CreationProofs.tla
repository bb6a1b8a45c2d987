--------------------------- MODULE CreationProofs ---------------------------
(***************************************************************************)
(* The two ends of a creation: find, which names the files, and the sorts, *)
(* which write what was found in them.                                     *)
(*                                                                         *)
(* Find.  However links lead and whatever vanishes, the stack of find_read *)
(* holds no directory twice, so it is never deeper than there are          *)
(* directories (NoLoop); and the walk returns every file that stays, each  *)
(* path once, and nothing else (FindsExactly).                             *)
(*                                                                         *)
(* Sorted writing (after the line further down).  NoSilentLoss holds for   *)
(* any records and any sizes of pipes and buffers, with sorts that fail at *)
(* any moment.                                                             *)
(*                                                                         *)
(* Records only move, so unless a sort has failed each                     *)
(* record that was put is in exactly the places on its way (Flow).  A sort *)
(* gets end of file only when gtags has closed sortout, because gtags's    *)
(* descriptor is there until then (OpenOut); and gtags gets end of file    *)
(* only when sort has ended, because sort's descriptor is there until then *)
(* (SortOut).  So behind a sort that has ended well every place is empty.  *)
(***************************************************************************)
EXTENDS Find, SortedWrite, FiniteSetTheorems, TLAPS

Level == [real : FDir, by : Entry, rest : SUBSET Entry]

StackOK == stack \in Seq(Level) /\ Len(stack) >= 1

FInv == StackOK /\ NoLoop

(* Each directory of the stack but the first was an entry of the one       *)
(* before, where it has been taken from the list.                          *)
Entered ==
    /\ stack[1].real = Base
    /\ \A i \in 1 .. Len(stack) : stack[i].rest \subseteq EntriesOf(stack[i].real, {}, {})
    /\ \A i \in 2 .. Len(stack) :
          /\ stack[i].real = stack[i].by.to /\ stack[i].by.what # "file"
          /\ stack[i].by \in EntriesOf(stack[i - 1].real, {}, {}) \ skips
          /\ stack[i].by \notin stack[i - 1].rest

(* p goes by the first i directories of the stack, and an entry of theirs  *)
(* that is still to come.                                                  *)
Along(p, i) == i \in 1 .. Len(p) /\ \A j \in 1 .. i - 1 : p[j] = stack[j + 1].by
Pending(p) == \E i \in 1 .. Len(stack) : Along(p, i) /\ p[i] \in stack[i].rest

(* What is found is a file of the project and does not come again; what is *)
(* not found, and still there, is to come.                                 *)
Found ==
    /\ found \subseteq Paths({}, {}) /\ \A p \in found : ~Pending(p)
    /\ IsFiniteSet(found) /\ nfound = Cardinality(found)
    /\ \A p \in Paths(removed, nofile) : p \in found \/ Pending(p)

WalkInv ==
    /\ FInv /\ Entered /\ Found
    /\ Above[Base] \cap removed = {}
    /\ status = "eof" => Len(stack) = 1 /\ stack[1].rest = {}

LEMMA EntriesAreEntries ==
    ASSUME NEW x, NEW rm, NEW nf PROVE EntriesOf(x, rm, nf) \in SUBSET Entry
BY DEF EntriesOf

(* Taking an entry from the list of the directory on top *)
LEMMA DropKeeps ==
    ASSUME FInv, NEW e
    PROVE  /\ Dropped(e) \in Seq(Level) /\ Len(Dropped(e)) = Len(stack)
           /\ \A i \in 1 .. Len(stack) : Dropped(e)[i].real = stack[i].real
<1> DEFINE n == Len(stack)
<1>1. n \in Nat /\ n >= 1 /\ stack[n] \in Level /\ stack \in [1 .. n -> Level]
  BY DEF FInv, StackOK
<1>2. [stack[n] EXCEPT !.rest = @ \ {e}] \in Level
  BY <1>1 DEF Level
<1>3. Dropped(e) = [stack EXCEPT ![n] = [stack[n] EXCEPT !.rest = @ \ {e}]]
  BY <1>1 DEF Dropped
<1>4. Dropped(e) \in [1 .. n -> Level]
  BY <1>1, <1>2, <1>3
<1>5. \A i \in 1 .. n : Dropped(e)[i].real = stack[i].real
  BY <1>1, <1>3 DEF Level
<1> QED BY <1>1, <1>3, <1>4, <1>5

LEMMA DropStep ==
    ASSUME FInv, NEW e, stack' = Dropped(e) PROVE FInv'
<1>1. StackOK'
  BY DropKeeps DEF FInv, StackOK
<1>2. NoLoop'
  BY DropKeeps DEF FInv, NoLoop
<1> QED BY <1>1, <1>2 DEF FInv

LEMMA PopStep ==
    ASSUME FInv, Pop PROVE FInv'
<1> DEFINE n == Len(stack)
<1>1. n \in Nat /\ n > 1 /\ stack \in Seq(Level) /\ stack' = SubSeq(stack, 1, n - 1)
  BY DEF FInv, StackOK, Pop
<1>2. /\ stack' \in Seq(Level) /\ Len(stack') = n - 1
      /\ \A i \in 1 .. n - 1 : stack'[i] = stack[i]
  BY <1>1
<1>3. NoLoop'
  BY <1>1, <1>2 DEF FInv, NoLoop
<1> QED BY <1>1, <1>2, <1>3 DEF FInv, StackOK

LEMMA DescendStep ==
    ASSUME FInv, NEW e \in Entry, Descend(e) PROVE FInv'
<1> DEFINE n == Len(stack)
           r == [real |-> e.to, by |-> e, rest |-> EntriesOf(e.to, removed, nofile)]
           s == Dropped(e)
<1>1. stack' = Append(s, r)
  BY DEF Descend
<1>2. r \in Level
  BY EntriesAreEntries DEF Level, Entry
<1>3. s \in Seq(Level) /\ Len(s) = n /\ \A i \in 1 .. n : s[i].real = stack[i].real
  BY DropKeeps
<1>4. n \in Nat /\ n >= 1
  BY DEF FInv, StackOK
<1> HIDE DEF r, s
<1>5. /\ stack' \in Seq(Level) /\ Len(stack') = n + 1 /\ stack'[n + 1] = r
      /\ \A i \in 1 .. n : stack'[i] = s[i]
  BY <1>1, <1>2, <1>3, <1>4
<1>6. \A i \in 1 .. n : stack'[i].real = stack[i].real
  BY <1>3, <1>5
<1>7. r.real = e.to
  BY DEF r
<1>8. e.to \notin Above[Base] /\ \A i \in 1 .. n : stack[i].real # e.to
  BY DEF Descend, HasSymlinkloop
<1>9. StackOK'
  BY <1>4, <1>5 DEF StackOK
<1>10. NoLoop'
  <2>1. \A i, j \in 1 .. n + 1 : stack'[i].real = stack'[j].real => i = j
    <3> TAKE i, j \in 1 .. n + 1
    <3> HAVE stack'[i].real = stack'[j].real
    <3>1. CASE i \in 1 .. n /\ j \in 1 .. n
      BY <3>1, <1>6 DEF FInv, NoLoop
    <3>2. CASE i = n + 1 \/ j = n + 1
      BY <3>2, <1>4, <1>5, <1>6, <1>7, <1>8
    <3> QED BY <3>1, <3>2, <1>4
  <2>2. \A i \in 2 .. n + 1 : stack'[i].real \notin Above[Base]
    BY <1>4, <1>5, <1>6, <1>7, <1>8 DEF FInv, NoLoop
  <2> QED BY <2>1, <2>2, <1>5 DEF NoLoop
<1> QED BY <1>9, <1>10 DEF FInv

LEMMA InitFInv == FindInit => FInv
<1> SUFFICES ASSUME FindInit PROVE FInv
  OBVIOUS
<1> DEFINE r == [real |-> Base, by |-> [what |-> "dir", to |-> Base],
                 rest |-> EntriesOf(Base, {}, {})]
<1>1. r \in Level
  BY FindAssumption, EntriesAreEntries DEF Level, Entry
<1>2. stack = <<r>>
  BY DEF FindInit
<1> HIDE DEF r
<1> QED BY <1>1, <1>2 DEF FInv, StackOK, NoLoop

LEMMA SameStack == ASSUME FInv, UNCHANGED stack PROVE FInv'
BY DEF FInv, StackOK, NoLoop

LEMMA NextFInv == FInv /\ [FindNext]_findvars => FInv'
<1> SUFFICES ASSUME FInv, [FindNext]_findvars PROVE FInv'
  OBVIOUS
<1>1. CASE FindRead
  <2>1. CASE Pop
    BY <2>1, PopStep
  <2>2. CASE Eof
    BY <2>2, SameStack DEF Eof
  <2>3. ASSUME NEW e \in Top.rest,
               Skip(e) \/ ReadFile(e) \/ Descend(e) \/ Refuse(e) \/ Vanished(e)
        PROVE  FInv'
    <3>1. e \in Entry
      <4>1. Top \in Level
        BY DEF Top, FInv, StackOK
      <4> QED BY <4>1, <2>3 DEF Level
    <3>2. CASE Skip(e)
      BY <3>2, DropStep DEF Skip
    <3>3. CASE ReadFile(e)
      BY <3>3, DropStep DEF ReadFile
    <3>4. CASE Descend(e)
      BY <3>1, <3>4, DescendStep
    <3>5. CASE Refuse(e)
      BY <3>5, DropStep DEF Refuse
    <3>6. CASE Vanished(e)
      BY <3>6, DropStep, SameStack DEF Vanished
    <3> QED BY <2>3, <3>2, <3>3, <3>4, <3>5, <3>6
  <2> QED BY <1>1, <2>1, <2>2, <2>3 DEF FindRead
<1>2. CASE Removal
  BY <1>2, SameStack DEF Removal
<1>3. CASE FindOver \/ UNCHANGED findvars
  BY <1>3, SameStack DEF FindOver, findvars
<1> QED BY <1>1, <1>2, <1>3 DEF FindNext

LEMMA FInvHolds == FindSpec => []FInv
<1> QED BY InitFInv, NextFInv, PTL DEF FindSpec

(* find_read (find.c) never enters a directory it is already in, nor one   *)
(* above the project, through however many links.                          *)
THEOREM NoLoopHolds == FindSpec => []NoLoop
<1>1. FInv => NoLoop
  BY DEF FInv
<1> QED BY <1>1, FInvHolds, PTL

(* Directories on the stack are different. *)
LEMMA Depth == ASSUME FInv PROVE Len(stack) <= Cardinality(FDir)
<1> DEFINE n == Len(stack)
           real == [i \in 1 .. n |-> stack[i].real]
<1>1. n \in Nat /\ \A i \in 1 .. n : stack[i].real \in FDir
  <2>1. n \in Nat /\ \A i \in 1 .. n : stack[i] \in Level
    BY DEF FInv, StackOK
  <2> QED BY <2>1 DEF Level
<1>2. real \in Injection(1 .. n, FDir)
  BY <1>1 DEF FInv, NoLoop, Injection, IsInjective
<1>3. IsFiniteSet(1 .. n) /\ Cardinality(1 .. n) = n
  BY <1>1, FS_Interval
<1>4. IsFiniteSet(FDir)
  BY FindAssumption
<1> QED BY <1>2, <1>3, <1>4, FS_Injection

(* So the directory stack of find.c stays as small as the tree: every      *)
(* descent ends, although find_read sets itself no bound.                  *)
THEOREM DepthBounded == FindSpec => [](Len(stack) <= Cardinality(FDir))
BY Depth, FInvHolds, PTL
-----------------------------------------------------------------------------
LEMMA BaseAbove == Base \in Above[Base]
BY FindAssumption DEF Above

LEMMA FewerEntries ==
    ASSUME NEW rm, NEW nf, NEW rn \in SUBSET rm, NEW ng \in SUBSET nf, NEW x
    PROVE  EntriesOf(x, rm, nf) \subseteq EntriesOf(x, rn, ng)
<1>1. \A y : Present(y, rm) => Present(y, rn)
  BY DEF Present
<1> SUFFICES ASSUME NEW e \in EntriesOf(x, rm, nf) PROVE e \in EntriesOf(x, rn, ng)
  OBVIOUS
<1>2. e \in Entry /\ e.what \in {"file", "dir", "link"}
  BY DEF EntriesOf, Entry
<1>3. CASE e.what = "file"
  BY <1>2, <1>3 DEF EntriesOf
<1>4. CASE e.what = "dir"
  BY <1>1, <1>2, <1>4 DEF EntriesOf
<1>5. CASE e.what = "link"
  BY <1>1, <1>2, <1>5 DEF EntriesOf
<1> QED BY <1>2, <1>3, <1>4, <1>5

LEMMA WayParts ==
    ASSUME NEW p \in Ways
    PROVE  /\ Len(p) \in Nat /\ Len(p) >= 1 /\ DOMAIN p = 1 .. Len(p)
           /\ \A i \in 1 .. Len(p) : p[i] \in Entry
           /\ IsWay(p, Len(p))
<1>0. Cardinality(FDir) \in Nat
  BY FindAssumption, FS_CardinalityType
<1>1. PICK n \in 1 .. Cardinality(FDir) : p \in [1 .. n -> Entry] /\ IsWay(p, n)
  BY DEF Ways
<1>2. Len(p) = n /\ n \in Nat /\ n >= 1
  BY <1>0, <1>1
<1> QED BY <1>1, <1>2

LEMMA Levels ==
    ASSUME FInv
    PROVE  /\ Len(stack) \in Nat /\ Len(stack) >= 1 /\ Top = stack[Len(stack)]
           /\ \A i \in 1 .. Len(stack) :
                 /\ stack[i].real \in FDir /\ stack[i].by \in Entry
                 /\ stack[i].rest \subseteq Entry
<1>1. Len(stack) \in Nat /\ Len(stack) >= 1 /\ \A i \in 1 .. Len(stack) : stack[i] \in Level
  BY DEF FInv, StackOK
<1> QED BY <1>1 DEF Level, Top

(* A path that goes along the stack continues where the stack is. *)
LEMMA Follows ==
    ASSUME FInv, Entered, NEW p \in Ways, NEW i \in 1 .. Len(stack), Along(p, i)
    PROVE  HolderOf(p, i) = stack[i].real
<1>0. Len(stack) \in Nat
  BY Levels
<1>1. CASE i = 1
  BY <1>1 DEF HolderOf, Entered
<1>2. CASE i # 1
  <2>1. i - 1 \in 1 .. i - 1 /\ i \in 2 .. Len(stack) /\ (i - 1) + 1 = i
    BY <1>0, <1>2
  <2>2. p[i - 1] = stack[i].by
    BY <2>1 DEF Along
  <2>3. stack[i].real = stack[i].by.to
    BY <2>1 DEF Entered
  <2> QED BY <1>2, <2>2, <2>3 DEF HolderOf
<1> QED BY <1>1, <1>2

(* The path that ReadFile returns is one of a file of the project. *)
LEMMA PathIsWay ==
    ASSUME FInv, Entered, NEW e \in Top.rest, e.what = "file", e \notin skips
    PROVE  PathTo(e) \in Paths({}, {}) /\ Len(PathTo(e)) = Len(stack)
<1> DEFINE n == Len(stack)
           p == PathTo(e)
<1>1. n \in Nat /\ n >= 1 /\ Top = stack[n]
  BY Levels
<1>2. e \in Entry /\ e \in EntriesOf(stack[n].real, {}, {})
  BY <1>1, Levels DEF Entered
<1>3. \A i \in 1 .. n - 1 : i + 1 \in 2 .. n /\ i + 1 \in 1 .. n /\ (i + 1) - 1 = i
  BY <1>1
<1>4. \A i \in 1 .. n - 1 : p[i] = stack[i + 1].by /\ p[i].to = stack[i + 1].real
  BY <1>1, <1>3 DEF PathTo, Entered
<1>5. p[n] = e /\ DOMAIN p = 1 .. n /\ p = [i \in 1 .. n |-> p[i]]
  BY <1>1 DEF PathTo
<1> HIDE DEF p
<1>6. \A i \in 1 .. n : p[i] \in Entry
  <2>1. \A i \in 1 .. n - 1 : p[i] \in Entry
    BY <1>3, <1>4, Levels
  <2> QED BY <1>1, <1>2, <1>5, <2>1
<1>7. p \in [1 .. n -> Entry] /\ Len(p) = n
  BY <1>1, <1>5, <1>6
<1>8. IsWay(p, n)
  <2>1. \A i \in 1 .. n - 1 : p[i].what # "file" /\ p[i].to \notin Above[Base]
    BY <1>3, <1>4 DEF Entered, FInv, NoLoop
  <2>2. ASSUME NEW i \in 1 .. n - 1, NEW j \in 1 .. n - 1, p[i].to = p[j].to PROVE i = j
    <3>1. i + 1 \in 1 .. n /\ j + 1 \in 1 .. n /\ stack[i + 1].real = stack[j + 1].real
      BY <1>3, <1>4, <2>2
    <3>2. i + 1 = j + 1
      BY <3>1 DEF FInv, NoLoop
    <3> QED BY <3>2
  <2> QED BY <1>5, <2>1, <2>2 DEF IsWay
<1>9. p \in Ways
  <2>1. n \in 1 .. Cardinality(FDir)
    BY <1>1, Depth, FindAssumption, FS_CardinalityType
  <2> QED BY <1>7, <1>8, <2>1 DEF Ways
<1>10. \A i \in 1 .. n : HolderOf(p, i) = stack[i].real
  <2> TAKE i \in 1 .. n
  <2>1. Along(p, i)
    <3>1. i \in 1 .. Len(p) /\ \A j \in 1 .. i - 1 : j \in 1 .. n - 1
      BY <1>1, <1>7
    <3> QED BY <1>4, <3>1 DEF Along
  <2> QED BY <1>9, <2>1, Follows
<1>11. \A i \in 1 .. n : p[i] \in EntriesOf(stack[i].real, {}, {}) \ skips
  <2> TAKE i \in 1 .. n
  <2>1. CASE i = n
    BY <1>2, <1>5, <2>1
  <2>2. CASE i # n
    <3>1. i \in 1 .. n - 1
      BY <1>1, <2>2
    <3> QED BY <1>3, <1>4, <3>1 DEF Entered
  <2> QED BY <2>1, <2>2
<1> QED BY <1>5, <1>7, <1>9, <1>10, <1>11 DEF Paths, p

(* A path of what is left, of which the next entry is e: e is there, is no *)
(* loop, and when it is a file it is the end of the path.                  *)
LEMMA WayHere ==
    ASSUME FInv, Entered, Above[Base] \cap removed = {}, NEW e \in Top.rest,
           NEW p \in Paths(removed, nofile), Along(p, Len(stack)), p[Len(stack)] = e
    PROVE  /\ Resolves(e) /\ e \notin skips
           /\ e.what = "file" => p = PathTo(e)
           /\ e.what # "file" => ~HasSymlinkloop(e.to) /\ Len(stack) < Len(p)
<1> DEFINE n == Len(stack)
           m == Len(p)
<1>1. /\ n \in Nat /\ n >= 1 /\ Top = stack[n] /\ m \in Nat /\ n <= m
      /\ p \in Ways /\ DOMAIN p = 1 .. m /\ IsWay(p, m)
      /\ \A i \in 1 .. m : p[i] \in EntriesOf(HolderOf(p, i), removed, nofile) \ skips
      /\ \A j \in 1 .. n - 1 : p[j] = stack[j + 1].by
  BY Levels, WayParts DEF Paths, Along
<1>2. \A i \in 1 .. n - 1 : p[i].to = stack[i + 1].real
  <2> TAKE i \in 1 .. n - 1
  <2>1. i + 1 \in 2 .. n
    BY <1>1
  <2> QED BY <1>1, <2>1 DEF Entered
<1>3. \A i \in 1 .. n : HolderOf(p, i) = stack[i].real
  <2> TAKE i \in 1 .. n
  <2>1. Along(p, i)
    BY <1>1 DEF Along
  <2> QED BY <1>1, <2>1, Follows
<1>4. e \in EntriesOf(stack[n].real, removed, nofile) /\ e \notin skips
  BY <1>1, <1>3
<1>5. \A i \in 1 .. n : Present(stack[i].real, removed)
  <2> TAKE i \in 1 .. n
  <2>1. CASE i = 1
    BY <2>1 DEF Entered, Present
  <2>2. CASE i # 1
    <3>1. i - 1 \in 1 .. n - 1 /\ i - 1 \in 1 .. m - 1 /\ i - 1 \in 1 .. m /\ (i - 1) + 1 = i
      BY <1>1, <2>2
    <3>2. p[i - 1].what # "file" /\ p[i - 1].to = stack[i].real
      BY <1>1, <1>2, <3>1 DEF IsWay
    <3>3. p[i - 1] \in EntriesOf(HolderOf(p, i - 1), removed, nofile)
      BY <1>1, <3>1
    <3> QED BY <3>2, <3>3 DEF EntriesOf, Entry
  <2> QED BY <2>1, <2>2
<1>6. Resolves(e)
  <2>1. CASE e.what = "file"
    <3>1. e.to = stack[n].real /\ e.to \notin nofile
      BY <1>4, <2>1 DEF EntriesOf
    <3> QED BY <1>1, <1>5, <3>1 DEF Resolves
  <2>2. CASE e.what # "file"
    <3>1. Present(e.to, removed)
      BY <1>4, <2>2 DEF EntriesOf, Entry
    <3> QED BY <1>5, <2>2, <3>1 DEF Resolves
  <2> QED BY <2>1, <2>2
<1>7. ASSUME e.what = "file" PROVE p = PathTo(e)
  <2>1. n = m
    BY <1>1, <1>7 DEF IsWay
  <2>2. DOMAIN PathTo(e) = 1 .. n /\ \A i \in 1 .. n : p[i] = PathTo(e)[i]
    BY <1>1 DEF PathTo
  <2>3. p = [i \in 1 .. n |-> p[i]] /\ PathTo(e) = [i \in 1 .. n |-> PathTo(e)[i]]
    BY <1>1, <2>1 DEF PathTo, Ways
  <2> QED BY <2>2, <2>3
<1>8. ASSUME e.what # "file" PROVE ~HasSymlinkloop(e.to) /\ n < m
  <2>1. n # m
    BY <1>1, <1>8 DEF IsWay
  <2>2. n \in 1 .. m - 1
    BY <1>1, <2>1
  <2>3. e.to \notin Above[Base] /\ \A i \in 1 .. m - 1 : p[i].to = e.to => i = n
    BY <1>1, <2>2 DEF IsWay
  <2>4. ASSUME NEW i \in 1 .. n PROVE stack[i].real # e.to
    <3>1. CASE i = 1
      BY <2>3, <3>1, BaseAbove DEF Entered
    <3>2. CASE i # 1
      <4>1. i - 1 \in 1 .. n - 1 /\ i - 1 \in 1 .. m - 1 /\ i - 1 # n /\ (i - 1) + 1 = i
        BY <1>1, <3>2
      <4> QED BY <1>2, <2>3, <4>1
    <3> QED BY <3>1, <3>2
  <2> QED BY <1>1, <2>2, <2>3, <2>4 DEF HasSymlinkloop
<1> QED BY <1>4, <1>6, <1>7, <1>8

(* Taking e from the list on top changes nothing else on the stack. *)
LEMMA DropParts ==
    ASSUME FInv, NEW e
    PROVE  LET n == Len(stack)
           IN  /\ Len(Dropped(e)) = n
               /\ \A i \in 1 .. n - 1 : Dropped(e)[i] = stack[i]
               /\ Dropped(e)[n].real = stack[n].real /\ Dropped(e)[n].by = stack[n].by
               /\ Dropped(e)[n].rest = stack[n].rest \ {e}
<1> DEFINE n == Len(stack)
<1>1. n \in Nat /\ n >= 1 /\ stack[n] \in Level /\ stack \in [1 .. n -> Level]
  BY DEF FInv, StackOK
<1>2. Dropped(e) = [stack EXCEPT ![n] = [stack[n] EXCEPT !.rest = @ \ {e}]]
  BY <1>1 DEF Dropped
<1>3. Len(Dropped(e)) = n
  BY DropKeeps
<1>4. Dropped(e)[n] = [stack[n] EXCEPT !.rest = @ \ {e}]
  BY <1>1, <1>2
<1>5. \A i \in 1 .. n - 1 : Dropped(e)[i] = stack[i]
  BY <1>1, <1>2
<1> QED BY <1>1, <1>3, <1>4, <1>5 DEF Level

(* What is to come afterwards: all that was, unless its next entry is e. *)
LEMMA DropWalk ==
    ASSUME FInv, Entered, NEW e, stack' = Dropped(e), UNCHANGED fs
    PROVE  /\ Entered'
           /\ \A p \in Ways : Pending(p)' => Pending(p)
           /\ \A p \in Ways : Pending(p) =>
                 Pending(p)' \/ (Along(p, Len(stack)) /\ p[Len(stack)] = e)
           /\ \A p \in Ways : Along(p, Len(stack)) /\ p[Len(stack)] = e => ~Pending(p)'
<1> DEFINE n == Len(stack)
<1>1. n \in Nat /\ n >= 1
  BY Levels
<1>2. /\ Len(stack') = n
      /\ \A i \in 1 .. n : /\ stack'[i].real = stack[i].real /\ stack'[i].by = stack[i].by
                           /\ stack'[i].rest \subseteq stack[i].rest
                           /\ i # n => stack'[i].rest = stack[i].rest
      /\ stack'[n].rest = stack[n].rest \ {e}
  <2>1. \A i \in 1 .. n : i = n \/ i \in 1 .. n - 1
    BY <1>1
  <2> QED BY <2>1, DropParts
<1>3. Entered'
  <2>1. \A i \in 2 .. n : i \in 1 .. n /\ i - 1 \in 1 .. n
    BY <1>1
  <2>2. \A x : EntriesOf(x, {}, {})' = EntriesOf(x, {}, {})
    BY DEF EntriesOf, fs
  <2>3. 1 \in 1 .. n /\ skips' = skips
    BY <1>1 DEF fs
  <2>4. stack'[1].real = Base
    BY <1>2, <2>3 DEF Entered
  <2>5. \A i \in 1 .. n : stack'[i].rest \subseteq EntriesOf(stack[i].real, {}, {})'
    BY <1>2, <2>2 DEF Entered
  <2>6. ASSUME NEW i \in 2 .. n
        PROVE  /\ stack'[i].real = stack'[i].by.to /\ stack'[i].by.what # "file"
               /\ stack'[i].by \in EntriesOf(stack[i - 1].real, {}, {})' \ skips'
               /\ stack'[i].by \notin stack'[i - 1].rest
    BY <1>2, <2>1, <2>2, <2>3 DEF Entered
  <2> QED BY <1>2, <2>4, <2>5, <2>6 DEF Entered
<1>4. ASSUME NEW p \in Ways, NEW i \in 1 .. n PROVE Along(p, i)' <=> Along(p, i)
  <2>1. \A j \in 1 .. i - 1 : j + 1 \in 1 .. n
    BY <1>1
  <2> QED BY <1>2, <2>1 DEF Along
<1>5. \A p \in Ways : Pending(p)' => Pending(p)
  BY <1>2, <1>4 DEF Pending
<1>6. \A p \in Ways : Pending(p) => Pending(p)' \/ (Along(p, n) /\ p[n] = e)
  <2> SUFFICES ASSUME NEW p \in Ways, Pending(p), ~(Along(p, n) /\ p[n] = e)
               PROVE  Pending(p)'
    OBVIOUS
  <2>1. PICK i \in 1 .. n : Along(p, i) /\ p[i] \in stack[i].rest
    BY DEF Pending
  <2>2. p[i] \in stack'[i].rest
    BY <1>2, <2>1
  <2> QED BY <1>2, <1>4, <2>1, <2>2 DEF Pending
<1>7. \A p \in Ways : Along(p, n) /\ p[n] = e => ~Pending(p)'
  <2> SUFFICES ASSUME NEW p \in Ways, Along(p, n), p[n] = e,
                      NEW i \in 1 .. n, Along(p, i), p[i] \in stack'[i].rest
               PROVE  FALSE
    BY <1>2, <1>4 DEF Pending
  <2>1. i # n
    BY <1>2
  <2>2. i \in 1 .. n - 1 /\ i + 1 \in 2 .. n /\ (i + 1) - 1 = i
    BY <1>1, <2>1
  <2>3. p[i] = stack[i + 1].by
    BY <2>2 DEF Along
  <2>4. stack[i + 1].by \notin stack[i].rest
    BY <2>2 DEF Entered
  <2> QED BY <1>2, <2>1, <2>3, <2>4
<1> QED BY <1>3, <1>5, <1>6, <1>7

LEMMA PathsAre ==
    ASSUME UNCHANGED fs
    PROVE  Paths({}, {})' = Paths({}, {}) /\ Paths(removed, nofile)' = Paths(removed, nofile)
<1>1. removed' = removed /\ nofile' = nofile /\ links' = links /\ skips' = skips
  BY DEF fs
<1>2. \A x : EntriesOf(x, {}, {})' = EntriesOf(x, {}, {})
  BY <1>1 DEF EntriesOf
<1>3. \A x : EntriesOf(x, removed, nofile)' = EntriesOf(x, removed, nofile)
  BY <1>1 DEF EntriesOf
<1> QED BY <1>1, <1>2, <1>3 DEF Paths

(* Nothing is found: then all that was to come, and is there, still is. *)
LEMMA FoundKept ==
    ASSUME Found, UNCHANGED <<found, nfound>>, UNCHANGED fs,
           \A p \in Ways : Pending(p)' => Pending(p),
           \A p \in Paths(removed, nofile) : Pending(p) => Pending(p)'
    PROVE  Found'
<1>1. Paths({}, {})' = Paths({}, {}) /\ Paths(removed, nofile)' = Paths(removed, nofile)
  BY PathsAre
<1>2. \A p \in found : p \in Ways
  BY DEF Found, Paths
<1> QED BY <1>1, <1>2 DEF Found

(* An entry is dropped, and no path of what is left goes on with it. *)
LEMMA DropNothing ==
    ASSUME WalkInv, NEW e, stack' = Dropped(e), UNCHANGED <<found, nfound, status>>,
           UNCHANGED fs, status = "reading",
           \A p \in Paths(removed, nofile) : ~(Along(p, Len(stack)) /\ p[Len(stack)] = e)
    PROVE  WalkInv'
<1>1. FInv'
  BY DropStep DEF WalkInv
<1>2. /\ Entered' /\ \A p \in Ways : Pending(p)' => Pending(p)
      /\ \A p \in Ways : Pending(p) => Pending(p)' \/ (Along(p, Len(stack)) /\ p[Len(stack)] = e)
  BY DropWalk DEF WalkInv
<1>3. \A p \in Paths(removed, nofile) : Pending(p) => Pending(p)'
  BY <1>2 DEF Paths
<1>4. Found'
  BY <1>2, <1>3, FoundKept DEF WalkInv
<1> QED BY <1>1, <1>2, <1>4 DEF WalkInv, fs

LEMMA ReadFileStep ==
    ASSUME WalkInv, NEW e \in Top.rest, ReadFile(e), UNCHANGED fs, status = "reading"
    PROVE  WalkInv'
<1> DEFINE n == Len(stack)
<1>0. e \notin skips /\ e.what = "file" /\ stack' = Dropped(e) /\ UNCHANGED status
  BY DEF ReadFile
<1>1. CASE ~Resolves(e)
  <2>1. \A p \in Paths(removed, nofile) : ~(Along(p, n) /\ p[n] = e)
    BY <1>1, WayHere DEF WalkInv
  <2> QED BY <1>0, <1>1, <2>1, DropNothing DEF ReadFile
<1>2. CASE Resolves(e)
  <2> DEFINE q == PathTo(e)
  <2>1. found' = found \cup {q} /\ nfound' = nfound + 1
    BY <1>2 DEF ReadFile
  <2>2. q \in Paths({}, {}) /\ Len(q) = n /\ q \in Ways
    BY <1>0, PathIsWay DEF WalkInv, Paths
  <2>3. n \in Nat /\ n >= 1 /\ Top = stack[n]
    BY Levels DEF WalkInv
  <2>4. Along(q, n) /\ q[n] = e
    <3>1. \A j \in 1 .. n - 1 : j \in 1 .. n /\ j # n
      BY <2>3
    <3>2. n \in 1 .. n
      BY <2>3
    <3>3. q[n] = e /\ \A j \in 1 .. n - 1 : q[j] = stack[j + 1].by
      BY <3>1, <3>2 DEF PathTo
    <3> HIDE DEF q
    <3> QED BY <2>2, <3>2, <3>3 DEF Along
  <2> HIDE DEF q
  <2>5. Pending(q)
    BY <2>3, <2>4 DEF Pending
  <2>6. /\ Entered' /\ \A p \in Ways : Pending(p)' => Pending(p)
        /\ \A p \in Ways : Pending(p) => Pending(p)' \/ (Along(p, n) /\ p[n] = e)
        /\ \A p \in Ways : Along(p, n) /\ p[n] = e => ~Pending(p)'
    BY <1>0, DropWalk DEF WalkInv
  <2>7. q \notin found /\ IsFiniteSet(found) /\ nfound = Cardinality(found)
    BY <2>5 DEF WalkInv, Found
  <2>8. IsFiniteSet(found') /\ nfound' = Cardinality(found')
    BY <2>1, <2>7, FS_AddElement
  <2>9. \A p \in found' : p \in Ways /\ ~Pending(p)'
    BY <2>1, <2>2, <2>4, <2>6 DEF WalkInv, Found, Paths
  <2>10. \A p \in Paths(removed, nofile) : p \in found' \/ Pending(p)'
    <3> TAKE p \in Paths(removed, nofile)
    <3>1. p \in Ways /\ (p \in found \/ Pending(p))
      BY DEF WalkInv, Found, Paths
    <3>2. ASSUME Along(p, n), p[n] = e PROVE p \in found'
      BY <1>0, <2>1, <3>2, WayHere DEF WalkInv, q
    <3> QED BY <2>1, <2>6, <3>1, <3>2
  <2>11. Paths({}, {})' = Paths({}, {}) /\ Paths(removed, nofile)' = Paths(removed, nofile)
    BY PathsAre
  <2>12. found \subseteq Paths({}, {})
    BY DEF WalkInv, Found
  <2>13. Found'
    BY <2>1, <2>2, <2>8, <2>9, <2>10, <2>11, <2>12 DEF Found
  <2>14. FInv'
    BY <1>0, DropStep DEF WalkInv
  <2> QED BY <1>0, <2>6, <2>13, <2>14 DEF WalkInv, fs
<1> QED BY <1>1, <1>2

LEMMA DescendWalk ==
    ASSUME WalkInv, NEW e \in Top.rest, Descend(e), UNCHANGED fs, status = "reading"
    PROVE  WalkInv'
<1> DEFINE r == [real |-> e.to, by |-> e, rest |-> EntriesOf(e.to, removed, nofile)]
           d == Dropped(e)
<1>00. PICK n \in Nat : n = Len(stack)
  BY Levels DEF WalkInv
<1>0. /\ e \notin skips /\ e.what # "file" /\ stack' = Append(d, r)
      /\ UNCHANGED <<found, nfound, status>>
  BY DEF Descend
<1>1. /\ n = Len(stack) /\ n >= 1 /\ Top = stack[n] /\ e \in Entry
      /\ e \in EntriesOf(stack[n].real, {}, {})
  BY <1>00, Levels DEF WalkInv, Entered
<1>2. /\ d \in Seq(Level) /\ Len(d) = n
      /\ \A i \in 1 .. n - 1 : d[i] = stack[i]
      /\ d[n].real = stack[n].real /\ d[n].by = stack[n].by /\ d[n].rest = stack[n].rest \ {e}
  BY <1>1, DropKeeps, DropParts DEF WalkInv
<1>3. r.real = e.to /\ r.by = e /\ r.rest = EntriesOf(e.to, removed, nofile)
  OBVIOUS
<1> HIDE DEF r, d
<1>4. /\ Len(stack') = n + 1 /\ stack'[n + 1] = r
      /\ \A i \in 1 .. n : stack'[i] = d[i]
  BY <1>0, <1>1, <1>2
<1>5. \A i \in 1 .. n : /\ stack'[i].real = stack[i].real /\ stack'[i].by = stack[i].by
                        /\ stack'[i].rest \subseteq stack[i].rest
                        /\ i # n => stack'[i].rest = stack[i].rest
  <2>1. \A i \in 1 .. n : i = n \/ i \in 1 .. n - 1
    BY <1>1
  <2> QED BY <1>2, <1>4, <2>1
<1>6. stack'[n].rest = stack[n].rest \ {e}
  BY <1>1, <1>2, <1>4
<1>7. FInv'
  BY <1>1, DescendStep DEF WalkInv
<1>8. Entered'
  <2>1. \A x : EntriesOf(x, {}, {})' = EntriesOf(x, {}, {})
    BY DEF EntriesOf, fs
  <2>2. skips' = skips /\ 1 \in 1 .. n /\ stack[1].real = Base
    BY <1>1 DEF fs, WalkInv, Entered
  <2>3. EntriesOf(e.to, removed, nofile) \subseteq EntriesOf(e.to, {}, {})
    BY FewerEntries
  <2>4. ASSUME NEW i \in 1 .. n + 1
        PROVE  stack'[i].rest \subseteq EntriesOf(stack[i].real, {}, {})'
    <3>1. CASE i = n + 1
      BY <1>3, <1>4, <2>1, <2>3, <3>1
    <3>2. CASE i # n + 1
      <4>1. i \in 1 .. n
        BY <1>1, <3>2
      <4> QED BY <1>1, <1>5, <2>1, <4>1 DEF WalkInv, Entered
    <3> QED BY <3>1, <3>2
  <2>5. ASSUME NEW i \in 2 .. n + 1
        PROVE  /\ stack'[i].real = stack'[i].by.to /\ stack'[i].by.what # "file"
               /\ stack'[i].by \in EntriesOf(stack[i - 1].real, {}, {})' \ skips'
               /\ stack'[i].by \notin stack'[i - 1].rest
    <3>1. CASE i = n + 1
      <4>1. i - 1 = n /\ n \in 1 .. n
        BY <1>1, <3>1
      <4>2. stack'[i].real = e.to /\ stack'[i].by = e
        BY <1>3, <1>4, <3>1
      <4>3. stack'[i - 1].real = stack[n].real /\ stack'[i - 1].rest = stack[n].rest \ {e}
        BY <1>5, <1>6, <4>1
      <4> QED BY <1>0, <1>1, <2>1, <2>2, <4>2, <4>3
    <3>2. CASE i # n + 1
      <4>1. i \in 2 .. n /\ i \in 1 .. n /\ i - 1 \in 1 .. n
        BY <1>1, <3>2
      <4> QED BY <1>1, <1>5, <2>1, <2>2, <4>1 DEF WalkInv, Entered
    <3> QED BY <3>1, <3>2
  <2> QED BY <1>4, <1>5, <2>2, <2>4, <2>5 DEF Entered
<1>9. ASSUME NEW p \in Ways, NEW i \in 1 .. n PROVE Along(p, i)' <=> Along(p, i)
  <2>1. \A j \in 1 .. i - 1 : j + 1 \in 1 .. n
    BY <1>1
  <2> QED BY <1>5, <2>1 DEF Along
<1>10. ASSUME NEW p \in Ways PROVE Along(p, n + 1)' <=> Along(p, n) /\ p[n] = e /\ n < Len(p)
  <2>1. Len(p) \in Nat
    BY WayParts
  <2>2. stack'[n + 1].by = e
    BY <1>3, <1>4
  <2>3. \A j \in 1 .. n - 1 : j + 1 \in 1 .. n /\ j \in 1 .. n
    BY <1>1
  <2>4. \A j \in 1 .. n : j = n \/ j \in 1 .. n - 1
    BY <1>1
  <2>5. (n + 1 \in 1 .. Len(p)) <=> (n \in 1 .. Len(p) /\ n < Len(p))
    BY <1>1, <2>1
  <2>6. (n + 1) - 1 = n /\ n \in 1 .. n
    BY <1>1
  <2>7. (\A j \in 1 .. n : p[j] = stack'[j + 1].by) <=>
          (\A j \in 1 .. n - 1 : p[j] = stack[j + 1].by) /\ p[n] = e
    BY <1>5, <2>2, <2>3, <2>4, <2>6
  <2> QED BY <2>5, <2>6, <2>7 DEF Along
<1>11. \A p \in Ways : Pending(p)' => Pending(p)
  <2> SUFFICES ASSUME NEW p \in Ways, NEW i \in 1 .. n + 1,
                      Along(p, i)', p[i] \in stack'[i].rest
               PROVE  Pending(p)
    BY <1>4 DEF Pending
  <2>1. CASE i = n + 1
    <3>1. Along(p, n) /\ p[n] = e /\ n \in 1 .. Len(stack)
      BY <1>1, <1>10, <2>1
    <3> QED BY <1>1, <3>1 DEF Pending
  <2>2. CASE i # n + 1
    <3>1. i \in 1 .. n
      BY <1>1, <2>2
    <3>2. Along(p, i) /\ p[i] \in stack[i].rest
      BY <1>5, <1>9, <3>1
    <3> QED BY <1>1, <3>1, <3>2 DEF Pending
  <2> QED BY <2>1, <2>2
<1>12. \A p \in Paths(removed, nofile) : Pending(p) => Pending(p)'
  <2> SUFFICES ASSUME NEW p \in Paths(removed, nofile),
                      NEW i \in 1 .. n, Along(p, i), p[i] \in stack[i].rest
               PROVE  Pending(p)'
    BY <1>1 DEF Pending
  <2>0. p \in Ways /\ i \in 1 .. n + 1 /\ n + 1 \in 1 .. n + 1
    BY <1>1 DEF Paths
  <2>1. CASE i = n /\ p[i] = e
    <3>1. n < Len(p) /\ Len(p) \in Nat
      <4>1. Along(p, Len(stack)) /\ p[Len(stack)] = e /\ n = Len(stack)
        BY <1>1, <2>1
      <4> QED BY <1>0, <2>0, <4>1, WayHere, WayParts DEF WalkInv
    <3>2. Along(p, n + 1)'
      BY <1>10, <2>0, <2>1, <3>1
    <3>3. p[n + 1] \in EntriesOf(e.to, removed, nofile)
      <4>1. n + 1 \in DOMAIN p
        BY <1>1, <2>0, <3>1, WayParts
      <4>2. HolderOf(p, n + 1) = e.to
        BY <1>1, <2>1 DEF HolderOf
      <4> QED BY <4>1, <4>2 DEF Paths
    <3>4. p[n + 1] \in stack'[n + 1].rest
      BY <1>3, <1>4, <3>3
    <3> QED BY <1>4, <2>0, <3>2, <3>4 DEF Pending
  <2>2. CASE ~(i = n /\ p[i] = e)
    <3>1. p[i] \in stack'[i].rest
      BY <1>5, <1>6, <2>2
    <3> QED BY <1>4, <1>9, <2>0, <3>1 DEF Pending
  <2> QED BY <2>1, <2>2
<1>13. Found'
  BY <1>0, <1>11, <1>12, FoundKept DEF WalkInv
<1> QED BY <1>0, <1>7, <1>8, <1>13 DEF WalkInv, fs

(* The list on top is empty: nothing that goes by it is to come. *)
LEMMA PopWalk ==
    ASSUME WalkInv, Pop, UNCHANGED fs, status = "reading"
    PROVE  WalkInv'
<1>1. PICK n \in Nat : n = Len(stack)
  BY Levels DEF WalkInv
<1>2. /\ n > 1 /\ stack[n].rest = {} /\ stack \in Seq(Level)
      /\ stack' = SubSeq(stack, 1, n - 1) /\ UNCHANGED <<found, nfound, status>>
  BY <1>1 DEF Pop, Top, WalkInv, FInv, StackOK
<1>3. Len(stack') = n - 1 /\ \A i \in 1 .. n - 1 : stack'[i] = stack[i]
  BY <1>1, <1>2
<1>4. FInv'
  BY PopStep DEF WalkInv
<1>5. Entered'
  <2>1. \A x : EntriesOf(x, {}, {})' = EntriesOf(x, {}, {})
    BY DEF EntriesOf, fs
  <2>2. skips' = skips /\ 1 \in 1 .. n - 1
    BY <1>2 DEF fs
  <2>3. stack'[1].real = Base
    BY <1>3, <2>2 DEF WalkInv, Entered
  <2>4. ASSUME NEW i \in 1 .. n - 1
        PROVE  stack'[i].rest \subseteq EntriesOf(stack[i].real, {}, {})'
    <3>1. i \in 1 .. n
      BY <1>1
    <3> QED BY <1>1, <1>3, <2>1, <3>1 DEF WalkInv, Entered
  <2>5. ASSUME NEW i \in 2 .. n - 1
        PROVE  /\ stack'[i].real = stack'[i].by.to /\ stack'[i].by.what # "file"
               /\ stack'[i].by \in EntriesOf(stack[i - 1].real, {}, {})' \ skips'
               /\ stack'[i].by \notin stack'[i - 1].rest
    <3>1. i \in 2 .. n /\ i \in 1 .. n - 1 /\ i - 1 \in 1 .. n - 1
      BY <1>1
    <3> QED BY <1>1, <1>3, <2>1, <2>2, <3>1 DEF WalkInv, Entered
  <2> QED BY <1>3, <2>3, <2>4, <2>5 DEF Entered
<1>6. ASSUME NEW p \in Ways, NEW i \in 1 .. n - 1 PROVE Along(p, i)' <=> Along(p, i)
  <2>1. \A j \in 1 .. i - 1 : j + 1 \in 1 .. n - 1
    BY <1>1
  <2> QED BY <1>3, <2>1 DEF Along
<1>7. \A p \in Ways : Pending(p)' => Pending(p)
  <2> SUFFICES ASSUME NEW p \in Ways, NEW i \in 1 .. n - 1,
                      Along(p, i)', p[i] \in stack'[i].rest
               PROVE  Pending(p)
    BY <1>3 DEF Pending
  <2>1. i \in 1 .. n /\ Along(p, i) /\ p[i] \in stack[i].rest
    BY <1>1, <1>3, <1>6
  <2> QED BY <1>1, <2>1 DEF Pending
<1>8. \A p \in Paths(removed, nofile) : Pending(p) => Pending(p)'
  <2> SUFFICES ASSUME NEW p \in Ways, NEW i \in 1 .. n, Along(p, i), p[i] \in stack[i].rest
               PROVE  Pending(p)'
    BY <1>1 DEF Pending, Paths
  <2>1. i \in 1 .. n - 1
    BY <1>1, <1>2
  <2>2. Along(p, i)' /\ p[i] \in stack'[i].rest
    BY <1>3, <1>6, <2>1
  <2> QED BY <1>3, <2>1, <2>2 DEF Pending
<1>9. Found'
  BY <1>2, <1>7, <1>8, FoundKept DEF WalkInv
<1> QED BY <1>2, <1>4, <1>5, <1>9 DEF WalkInv, fs

(* What does not touch the stack. *)
LEMMA StackKept ==
    ASSUME WalkInv, UNCHANGED <<links, skips, stack>>
    PROVE  FInv' /\ Entered' /\ \A p \in Ways : Pending(p)' <=> Pending(p)
<1>1. \A x : EntriesOf(x, {}, {})' = EntriesOf(x, {}, {})
  BY DEF EntriesOf
<1>2. Entered'
  BY <1>1 DEF WalkInv, Entered
<1>3. \A p \in Ways : Pending(p)' <=> Pending(p)
  BY DEF Pending, Along
<1> QED BY <1>2, <1>3, SameStack DEF WalkInv

LEMMA EofWalk == ASSUME WalkInv, Eof, UNCHANGED fs PROVE WalkInv'
<1>1. UNCHANGED <<links, skips, removed, nofile, stack, found, nfound>>
  BY DEF Eof, fs
<1>2. Len(stack) = 1 /\ stack[1].rest = {}
  BY DEF Eof, Top
<1>3. FInv' /\ Entered' /\ \A p \in Ways : Pending(p)' <=> Pending(p)
  BY <1>1, StackKept
<1>4. \A p \in Paths(removed, nofile) : p \in Ways
  BY DEF Paths
<1>5. Found'
  BY <1>1, <1>3, <1>4, FoundKept DEF WalkInv
<1> QED BY <1>1, <1>2, <1>3, <1>5 DEF WalkInv

(* What is removed leaves fewer paths, and the way to the project. *)
LEMMA RemovalWalk == ASSUME WalkInv, Removal PROVE WalkInv'
<1>1. /\ UNCHANGED <<links, skips, stack, found, nfound, status>> /\ status = "reading"
      /\ removed \subseteq removed' /\ nofile \subseteq nofile'
      /\ Above[Base] \cap removed' = {}
  BY DEF Removal, RemoveDir, RemoveFile, WalkInv
<1>2. FInv' /\ Entered' /\ \A p \in Ways : Pending(p)' <=> Pending(p)
  BY <1>1, StackKept
<1>3. \A x : /\ EntriesOf(x, {}, {})' = EntriesOf(x, {}, {})
             /\ EntriesOf(x, removed, nofile)' \subseteq EntriesOf(x, removed, nofile)
  <2> TAKE x
  <2>1. EntriesOf(x, {}, {})' = EntriesOf(x, {}, {})
    BY <1>1 DEF EntriesOf
  <2>2. EntriesOf(x, removed, nofile)' = EntriesOf(x, removed', nofile')
    BY <1>1 DEF EntriesOf
  <2> QED BY <1>1, <2>1, <2>2, FewerEntries
<1>4. Paths({}, {})' = Paths({}, {})
  BY <1>1, <1>3 DEF Paths
<1>5. Paths(removed, nofile)' \subseteq Paths(removed, nofile)
  BY <1>1, <1>3 DEF Paths
<1>6. Found'
  <2>1. \A p \in found : p \in Ways
    BY DEF WalkInv, Found, Paths
  <2>2. \A p \in Paths(removed, nofile) : p \in Ways
    BY DEF Paths
  <2> QED BY <1>1, <1>2, <1>4, <1>5, <2>1, <2>2 DEF WalkInv, Found
<1> QED BY <1>1, <1>2, <1>6 DEF WalkInv

LEMMA InitWalk == FindInit => WalkInv
<1> SUFFICES ASSUME FindInit PROVE WalkInv
  OBVIOUS
<1>1. /\ Len(stack) = 1 /\ stack[1].real = Base /\ stack[1].rest = EntriesOf(Base, {}, {})
      /\ removed = {} /\ nofile = {} /\ found = {} /\ nfound = 0 /\ status = "reading"
  BY DEF FindInit
<1>2. Entered
  BY <1>1 DEF Entered
<1>3. ASSUME NEW p \in Paths({}, {}) PROVE Pending(p)
  <2>1. 1 \in DOMAIN p /\ 1 \in 1 .. Len(p)
    BY WayParts DEF Paths
  <2>2. p[1] \in EntriesOf(Base, {}, {})
    BY <2>1 DEF Paths, HolderOf
  <2>3. Along(p, 1)
    BY <2>1 DEF Along
  <2> QED BY <1>1, <2>2, <2>3 DEF Pending
<1>4. Found
  BY <1>1, <1>3, FS_EmptySet DEF Found
<1> QED BY <1>1, <1>2, <1>4, InitFInv DEF WalkInv

LEMMA NextWalk == WalkInv /\ [FindNext]_findvars => WalkInv'
<1> SUFFICES ASSUME WalkInv, [FindNext]_findvars PROVE WalkInv'
  OBVIOUS
<1>1. CASE FindRead
  <2>0. status = "reading" /\ UNCHANGED fs
    BY <1>1 DEF FindRead
  <2>1. CASE Pop
    BY <2>0, <2>1, PopWalk
  <2>2. CASE Eof
    BY <2>0, <2>2, EofWalk
  <2>3. ASSUME NEW e \in Top.rest,
               Skip(e) \/ ReadFile(e) \/ Descend(e) \/ Refuse(e) \/ Vanished(e)
        PROVE  WalkInv'
    <3>1. CASE Skip(e)
      <4>1. \A p \in Paths(removed, nofile) : ~(Along(p, Len(stack)) /\ p[Len(stack)] = e)
        BY <3>1, WayHere DEF WalkInv, Skip
      <4> QED BY <2>0, <3>1, <4>1, DropNothing DEF Skip
    <3>2. CASE ReadFile(e)
      BY <2>0, <3>2, ReadFileStep
    <3>3. CASE Descend(e)
      BY <2>0, <3>3, DescendWalk
    <3>4. CASE Refuse(e)
      <4>1. \A p \in Paths(removed, nofile) : ~(Along(p, Len(stack)) /\ p[Len(stack)] = e)
        BY <3>4, WayHere DEF WalkInv, Refuse
      <4> QED BY <2>0, <3>4, <4>1, DropNothing DEF Refuse
    <3>5. CASE Vanished(e)
      <4>1. \A p \in Paths(removed, nofile) : ~(Along(p, Len(stack)) /\ p[Len(stack)] = e)
        BY <3>5, WayHere DEF WalkInv, Vanished
      <4>2. CASE stack' = Dropped(e) /\ UNCHANGED status
        BY <2>0, <3>5, <4>1, <4>2, DropNothing DEF Vanished
      <4>3. CASE status' = "died" /\ UNCHANGED stack
        <5>1. UNCHANGED <<links, skips, removed, nofile, stack, found, nfound>>
          BY <2>0, <3>5, <4>3 DEF Vanished, fs
        <5>2. FInv' /\ Entered' /\ \A p \in Ways : Pending(p)' <=> Pending(p)
          BY <5>1, StackKept
        <5>3. Found'
          BY <2>0, <5>1, <5>2, FoundKept DEF WalkInv, Paths
        <5> QED BY <4>3, <5>1, <5>2, <5>3 DEF WalkInv
      <4> QED BY <3>5, <4>2, <4>3 DEF Vanished
    <3> QED BY <2>3, <3>1, <3>2, <3>3, <3>4, <3>5
  <2> QED BY <1>1, <2>1, <2>2, <2>3 DEF FindRead
<1>2. CASE Removal
  BY <1>2, RemovalWalk
<1>3. CASE FindOver \/ UNCHANGED findvars
  <2>1. UNCHANGED <<links, skips, removed, nofile, stack, found, nfound, status>>
    BY <1>3 DEF FindOver, findvars
  <2>2. FInv' /\ Entered' /\ \A p \in Ways : Pending(p)' <=> Pending(p)
    BY <2>1, StackKept
  <2>3. Found'
    BY <2>1, <2>2, FoundKept DEF WalkInv, Paths, fs
  <2> QED BY <2>1, <2>2, <2>3 DEF WalkInv
<1> QED BY <1>1, <1>2, <1>3 DEF FindNext

(* find_read returns every file of the project that stays, each path of it *)
(* once, and nothing else: for any tree, links and skip list, and whatever *)
(* is removed between the reading of a name and its use.                   *)
THEOREM FindsExactlyHolds == FindSpec => []FindsExactly
<1>1. WalkInv => FindsExactly
  <2> SUFFICES ASSUME WalkInv, status = "eof", NEW p \in Paths(removed, nofile)
               PROVE  p \in found
    BY DEF FindsExactly, WalkInv, Found
  <2>1. Len(stack) = 1 /\ stack[1].rest = {} /\ \A i \in 1 .. 1 : i = 1
    BY DEF WalkInv
  <2>2. ~Pending(p)
    BY <2>1 DEF Pending
  <2> QED BY <2>2 DEF WalkInv, Found
<1> QED BY InitWalk, NextWalk, <1>1, PTL DEF FindSpec

-----------------------------------------------------------------------------
(* Sorted writing. *)

OutEnd(t)  == [proc |-> "gtags", tag |-> t, pipe |-> "to", rw |-> "w"]
SortEnd(t) == [proc |-> t, tag |-> t, pipe |-> "from", rw |-> "w"]

(* gtags has sortout of t still to close. *)
OutOpen(t) ==
    \/ pc \in {"pipe", "setup", "work"}
    \/ pc = "close" /\ ~(tag = "GRTAGS" /\ t = "GTAGS")
    \/ pc \in {"load", "wait"} /\ tag = "GTAGS" /\ t = "GRTAGS"

(* The sorts are started in turn. *)
Early ==
    pc \in {"pipe", "setup"} =>
        /\ tag = "GTAGS" => sort["GRTAGS"] = "none"
        /\ pc = "pipe" => sort[tag] = "none"
        /\ pc = "setup" => sort[tag] # "none"

(* No record leaves its way. *)
Flow == \A t \in Tag : sort[t] # "failed" =>
            put[t] = buf[t] \cup to[t] \cup got[t] \cup from[t] \cup loaded[t]

(* What is marked belongs to gtags, or to a sort that inherited it. *)
MarkedOnly == \A e \in cloexec : /\ e.proc = "gtags" => sort[e.tag] # "none"
                                 /\ e.proc # e.tag

OpenOut == \A t \in Tag : sort[t] # "none" /\ OutOpen(t) => OutEnd(t) \in ends
SortOut == \A t \in Tag : Live(t) => SortEnd(t) \in ends
Drained == \A t \in Tag : sort[t] \in {"writing", "ok"} => to[t] = {} /\ ~OutOpen(t)
OkEmpty == \A t \in Tag : sort[t] = "ok" => got[t] = {}
ClosedOut == \A t \in Tag : ~Gone /\ ~OutOpen(t) => buf[t] = {}
Waiting == pc = "wait" => from[tag] = {} /\ ~Live(tag)
ClosedEmpty ==
    /\ closed # {} => pc \notin {"pipe", "setup", "work"}
    /\ \A t \in closed : /\ sort[t] = "ok"
                         /\ buf[t] = {} /\ to[t] = {} /\ got[t] = {} /\ from[t] = {}

IInv == /\ TypeOK /\ Early /\ Flow /\ MarkedOnly /\ OpenOut /\ SortOut
        /\ Drained /\ OkEmpty /\ ClosedOut /\ Waiting /\ ClosedEmpty

-----------------------------------------------------------------------------
(* Every step keeps the invariant: one lemma per action.                   *)

LEMMA ForkKeeps ==
    ASSUME IInv, Fork PROVE IInv'
<1>1. TypeOK'
  BY DEF IInv, TypeOK, Fork, Tag, Proc, End, EndsOf, data
<1>2. Early'
  BY DEF IInv, TypeOK, Early, Fork, Tag
<1>3. Flow'
  BY DEF IInv, TypeOK, Early, Flow, Fork, Tag, data
<1>4. MarkedOnly'
  BY DEF IInv, TypeOK, Early, MarkedOnly, Fork, Tag, Proc, End, EndsOf
<1>5. OpenOut'
  BY DEF IInv, OpenOut, Fork, OutOpen, OutEnd, EndsOf
<1>6. SortOut'
  <2> DEFINE e == [proc |-> "gtags", tag |-> tag, pipe |-> "from", rw |-> "w"]
  <2>1. e \in [proc : {"gtags"}, tag : {tag}, pipe : {"to", "from"}, rw : {"r", "w"}]
    OBVIOUS
  <2>2. SortEnd(tag) = [proc |-> tag, tag |-> e.tag, pipe |-> e.pipe, rw |-> e.rw]
    BY DEF SortEnd
  <2>3. SortEnd(tag) \in ends'
    BY <2>1, <2>2 DEF Fork
  <2>4. ends \subseteq ends'
    BY DEF Fork
  <2> QED BY <2>3, <2>4 DEF IInv, TypeOK, SortOut, Live, Fork
<1>7. Drained'
  BY DEF IInv, Drained, Fork, OutOpen
<1>8. OkEmpty'
  BY DEF IInv, OkEmpty, Fork, Tag, EndsOf, data
<1>9. ClosedOut'
  BY DEF ClosedOut, Fork, OutOpen
<1>10. Waiting'
  BY DEF IInv, Waiting, Fork, Live, EndsOf, data
<1>11. ClosedEmpty'
  BY DEF IInv, ClosedEmpty, Fork, data
<1> QED BY <1>1, <1>2, <1>3, <1>4, <1>5, <1>6, <1>7, <1>8, <1>9, <1>10, <1>11 DEF IInv

LEMMA SetupKeeps ==
    ASSUME IInv, Setup PROVE IInv'
<1>1. Flow' /\ OkEmpty'
  BY DEF IInv, Flow, OkEmpty, Setup, Tag, data, Marked
<1>2. TypeOK'
  BY DEF IInv, TypeOK, Setup, Tag, Proc, End, data, Marked
<1>3. Early'
  BY DEF IInv, Early, Setup
<1>4. MarkedOnly'
  BY DEF IInv, TypeOK, Early, MarkedOnly, Setup, Tag, Marked
<1>5. OpenOut'
  BY DEF IInv, OpenOut, Setup, OutOpen, OutEnd, data
<1>6. SortOut'
  BY DEF IInv, SortOut, Setup, SortEnd, Live, Tag, data, Marked
<1>7. Drained'
  BY DEF IInv, Drained, Setup, OutOpen
<1>8. ClosedOut'
  BY DEF ClosedOut, Setup, OutOpen
<1>9. Waiting'
  BY DEF Waiting, Setup
<1>10. ClosedEmpty'
  BY DEF IInv, ClosedEmpty, Setup, data
<1> QED BY <1>1, <1>2, <1>3, <1>4, <1>5, <1>6, <1>7, <1>8, <1>9, <1>10 DEF IInv

LEMMA ExecKeeps ==
    ASSUME NEW t \in Tag, IInv, Exec(t) PROVE IInv'
<1>1. ClosedOut'
  BY DEF IInv, ClosedOut, Exec, OutOpen, Gone, Tag, EndsOf, data, ChildCloses
<1>2. TypeOK'
  BY DEF IInv, TypeOK, Exec, Tag, Proc, End, EndsOf, data, ChildCloses
<1>3. Early'
  BY DEF IInv, Early, Exec
<1>4. Flow'
  BY DEF IInv, Flow, Exec, data
<1>5. MarkedOnly'
  BY DEF IInv, MarkedOnly, Exec, data
<1>6. OpenOut'
  BY DEF IInv, OpenOut, Exec, OutOpen, OutEnd, Tag, EndsOf, data, ChildCloses
<1>7. SortOut'
  BY DEF IInv, TypeOK, MarkedOnly, SortOut, Exec, SortEnd, Live, Tag, EndsOf,
      ChildCloses
<1>8. Drained'
  BY DEF IInv, Drained, Exec, OutOpen, Tag, EndsOf, data, ChildCloses
<1>9. OkEmpty'
  BY DEF IInv, OkEmpty, Exec, data
<1>10. Waiting'
  BY DEF IInv, Waiting, Exec, Live, data
<1>11. ClosedEmpty'
  BY DEF IInv, ClosedEmpty, Exec, data
<1> QED BY <1>1, <1>2, <1>3, <1>4, <1>5, <1>6, <1>7, <1>8, <1>9, <1>10, <1>11 DEF IInv

LEMMA DieKeeps ==
    ASSUME IInv, Die PROVE IInv'
<1>1. Flow' /\ OkEmpty'
  BY DEF IInv, Flow, OkEmpty, Die, Tag, EndsOf, data, CloseAll
<1>2. TypeOK'
  BY DEF IInv, TypeOK, Die, Tag, Proc, End, EndsOf, data, CloseAll
<1>3. Early'
  BY DEF Early, Die
<1>4. MarkedOnly'
  BY DEF IInv, MarkedOnly, Die, CloseAll
<1>5. OpenOut'
  BY DEF OpenOut, Die, OutOpen, OutEnd
<1>6. SortOut'
  BY DEF IInv, SortOut, Die, SortEnd, Live, Tag, EndsOf, data, CloseAll
<1>7. Drained'
  BY DEF IInv, Drained, Die, OutOpen, Tag, data
<1>8. ClosedOut'
  BY DEF IInv, ClosedOut, Die, Gone, Tag, EndsOf
<1>9. Waiting'
  BY DEF Waiting, Die
<1>10. ClosedEmpty'
  BY DEF IInv, ClosedEmpty, Die, EndsOf, data, CloseAll
<1> QED BY <1>1, <1>2, <1>3, <1>4, <1>5, <1>6, <1>7, <1>8, <1>9, <1>10 DEF IInv

LEMMA PutKeeps ==
    ASSUME NEW t \in Tag, NEW r \in Record, IInv, Put(t, r) PROVE IInv'
<1>1. Early' /\ MarkedOnly' /\ OpenOut'
         /\ SortOut' /\ Drained' /\ OkEmpty' /\ Waiting'
  BY DEF IInv, Early, MarkedOnly, OpenOut, SortOut, Drained, OkEmpty,
      Waiting, Put, OutOpen, OutEnd, SortEnd, Live, Gone, Move
<1>2. TypeOK'
  BY DEF IInv, TypeOK, Put
<1>3. Flow'
  BY DEF IInv, TypeOK, Flow, Put, Tag
<1>4. ClosedOut'
  BY DEF ClosedOut, Put, OutOpen
<1>5. ClosedEmpty'
  BY DEF IInv, ClosedEmpty, Put
<1> QED BY <1>1, <1>2, <1>3, <1>4, <1>5 DEF IInv

LEMMA WriteKeeps ==
    ASSUME NEW t \in Tag, NEW r \in Record, IInv, Write(t, r) PROVE IInv'
<1>1. Early' /\ MarkedOnly' /\ OpenOut'
         /\ SortOut' /\ OkEmpty' /\ Waiting'
  BY DEF IInv, Early, MarkedOnly, OpenOut, SortOut, OkEmpty, Waiting, Write,
      OutOpen, OutEnd, SortEnd, Live, Gone, Move
<1>2. TypeOK'
  BY DEF IInv, TypeOK, Write, Tag, End, Flushing
<1>3. Flow'
  BY DEF IInv, TypeOK, Flow, Write, Tag
<1>4. Drained'
  BY DEF IInv, Drained, Write, OutOpen, Tag, Readers, Flushing
<1>5. ClosedOut'
  BY DEF IInv, ClosedOut, Write, OutOpen, Gone, Flushing
<1>6. ClosedEmpty'
  BY DEF IInv, ClosedEmpty, Write
<1> QED BY <1>1, <1>2, <1>3, <1>4, <1>5, <1>6 DEF IInv

LEMMA WorkKeeps ==
    ASSUME IInv, Work PROVE IInv'
<1>1. Flow' /\ MarkedOnly' /\ SortOut' /\ OkEmpty'
  BY DEF IInv, Flow, MarkedOnly, SortOut, OkEmpty, Work, SortEnd, Live, Tag,
      data
<1>2. TypeOK'
  BY DEF IInv, TypeOK, Work, Tag, data
<1>3. Early'
  BY DEF Early, Work
<1>4. OpenOut'
  BY DEF IInv, OpenOut, Work, OutOpen, OutEnd, Tag, data
<1>5. Drained'
  BY DEF IInv, Drained, Work, OutOpen
<1>6. ClosedOut'
  BY DEF IInv, ClosedOut, Work, OutOpen, Gone, Tag, data
<1>7. Waiting'
  BY DEF Waiting, Work
<1>8. ClosedEmpty'
  BY DEF IInv, ClosedEmpty, Work, data
<1> QED BY <1>1, <1>2, <1>3, <1>4, <1>5, <1>6, <1>7, <1>8 DEF IInv

LEMMA CloseOutKeeps ==
    ASSUME IInv, CloseOut PROVE IInv'
<1>1. Flow' /\ OkEmpty'
  BY DEF IInv, Flow, OkEmpty, CloseOut, Tag, data
<1>2. TypeOK'
  BY DEF IInv, TypeOK, CloseOut, data
<1>3. Early'
  BY DEF Early, CloseOut
<1>4. MarkedOnly'
  BY DEF IInv, MarkedOnly, CloseOut
<1>5. OpenOut'
  BY DEF IInv, OpenOut, CloseOut, OutOpen, OutEnd, Tag, data
<1>6. SortOut'
  BY DEF IInv, SortOut, CloseOut, SortEnd, Live, Tag, data
<1>7. Drained'
  BY DEF IInv, Drained, CloseOut, OutOpen, Tag, data
<1>8. ClosedOut'
  BY DEF IInv, TypeOK, ClosedOut, CloseOut, OutOpen, Gone, Tag, data
<1>9. Waiting'
  BY DEF Waiting, CloseOut
<1>10. ClosedEmpty'
  BY DEF IInv, ClosedEmpty, CloseOut, data
<1> QED BY <1>1, <1>2, <1>3, <1>4, <1>5, <1>6, <1>7, <1>8, <1>9, <1>10 DEF IInv

LEMMA LoadKeeps ==
    ASSUME NEW r \in Record, IInv, Load(r) PROVE IInv'
<1>1. Early' /\ MarkedOnly' /\ OpenOut'
         /\ SortOut' /\ Drained' /\ OkEmpty' /\ ClosedOut'
  BY DEF IInv, Early, MarkedOnly, OpenOut, SortOut, Drained, OkEmpty,
      ClosedOut, Load, OutOpen, OutEnd, SortEnd, Live, Gone, Move
<1>2. TypeOK'
  BY DEF IInv, TypeOK, Load, Tag, Proc, End, Move
<1>3. Flow'
  BY DEF IInv, TypeOK, Flow, Load, Tag, Move
<1>4. Waiting'
  BY DEF Waiting, Load
<1>5. ClosedEmpty'
  BY DEF IInv, ClosedEmpty, Load, Move
<1> QED BY <1>1, <1>2, <1>3, <1>4, <1>5 DEF IInv

LEMMA LoadDoneKeeps ==
    ASSUME IInv, LoadDone PROVE IInv'
<1>1. Flow' /\ OkEmpty'
  BY DEF IInv, Flow, OkEmpty, LoadDone, data
<1>2. TypeOK'
  BY DEF IInv, TypeOK, LoadDone, Proc, End, data
<1>3. Early'
  BY DEF Early, LoadDone
<1>4. MarkedOnly'
  BY DEF IInv, MarkedOnly, LoadDone
<1>5. OpenOut'
  BY DEF IInv, OpenOut, LoadDone, OutOpen, OutEnd, Writers
<1>6. SortOut'
  BY DEF IInv, SortOut, LoadDone, SortEnd, Live, Writers
<1>7. Drained'
  BY DEF IInv, Drained, LoadDone, OutOpen, Tag, Writers, data
<1>8. ClosedOut'
  BY DEF IInv, ClosedOut, LoadDone, OutOpen, Gone, Tag, Writers, data
<1>9. Waiting'
  BY DEF IInv, TypeOK, SortOut, Waiting, LoadDone, SortEnd, Live, Tag,
      Writers, data
<1>10. ClosedEmpty'
  BY DEF IInv, ClosedEmpty, LoadDone, data
<1> QED BY <1>1, <1>2, <1>3, <1>4, <1>5, <1>6, <1>7, <1>8, <1>9, <1>10 DEF IInv

LEMMA WaitKeeps ==
    ASSUME IInv, Wait PROVE IInv'
<1>1. Flow' /\ OkEmpty'
  BY DEF IInv, Flow, OkEmpty, Wait, Live, Tag, EndsOf, CloseAll, Succeeded
<1>2. TypeOK'
  BY DEF IInv, TypeOK, Wait, Live, Tag, Proc, End, EndsOf, CloseAll,
      Succeeded
<1>3. Early'
  BY DEF Early, Wait
<1>4. MarkedOnly'
  BY DEF IInv, MarkedOnly, Wait, CloseAll
<1>5. OpenOut'
  BY DEF IInv, OpenOut, Wait, OutOpen, OutEnd, Live, Tag, EndsOf, CloseAll,
      Succeeded
<1>6. SortOut'
  BY DEF IInv, SortOut, Wait, SortEnd, Live, Tag, EndsOf, CloseAll, Succeeded
<1>7. Drained'
  BY DEF IInv, Drained, Wait, OutOpen, Live, Tag, EndsOf, CloseAll, Succeeded
<1>8. ClosedOut'
  BY DEF IInv, ClosedOut, Wait, OutOpen, Live, Gone, Tag, EndsOf, CloseAll,
      Succeeded
<1>9. Waiting'
  BY DEF IInv, Waiting, Wait
<1>10. ClosedEmpty'
  BY DEF IInv, TypeOK, Drained, OkEmpty, ClosedOut, Waiting, ClosedEmpty,
      Wait, OutOpen, Gone, Tag, Succeeded
<1> QED BY <1>1, <1>2, <1>3, <1>4, <1>5, <1>6, <1>7, <1>8, <1>9, <1>10 DEF IInv

LEMMA SortReadsKeeps ==
    ASSUME NEW t \in Tag, NEW r \in Record, IInv, SortReads(t, r) PROVE IInv'
<1>1. Early' /\ MarkedOnly' /\ OpenOut'
         /\ SortOut' /\ ClosedOut' /\ Waiting'
  BY DEF IInv, Early, MarkedOnly, OpenOut, SortOut, ClosedOut, Waiting,
      SortReads, OutOpen, OutEnd, SortEnd, Live, Gone, Move
<1>2. TypeOK'
  BY DEF IInv, TypeOK, SortReads
<1>3. Flow'
  BY DEF IInv, TypeOK, Flow, SortReads, Tag
<1>4. Drained'
  BY DEF IInv, Drained, SortReads, OutOpen
<1>5. OkEmpty'
  BY DEF IInv, OkEmpty, SortReads
<1>6. ClosedEmpty'
  BY DEF IInv, ClosedEmpty, SortReads
<1> QED BY <1>1, <1>2, <1>3, <1>4, <1>5, <1>6 DEF IInv

LEMMA SortEofKeeps ==
    ASSUME NEW t \in Tag, IInv, SortEof(t) PROVE IInv'
<1>1. ClosedOut'
  BY DEF IInv, ClosedOut, SortEof, OutOpen, Gone, data
<1>2. TypeOK'
  BY DEF IInv, TypeOK, SortEof, Tag, Writers, data
<1>3. Early'
  BY DEF IInv, Early, SortEof
<1>4. Flow'
  BY DEF IInv, Flow, SortEof, Tag, Writers, data
<1>5. MarkedOnly'
  BY DEF IInv, MarkedOnly, SortEof
<1>6. OpenOut'
  BY DEF IInv, OpenOut, SortEof, OutOpen, Writers, data
<1>7. SortOut'
  BY DEF IInv, SortOut, SortEof, Live
<1>8. Drained'
  BY DEF IInv, TypeOK, OpenOut, Drained, SortEof, OutOpen, OutEnd, Tag,
      Writers, data
<1>9. OkEmpty'
  BY DEF IInv, OkEmpty, SortEof, Tag, Writers, data
<1>10. Waiting'
  BY DEF IInv, Waiting, SortEof, Live, Writers, data
<1>11. ClosedEmpty'
  BY DEF IInv, ClosedEmpty, SortEof, data
<1> QED BY <1>1, <1>2, <1>3, <1>4, <1>5, <1>6, <1>7, <1>8, <1>9, <1>10, <1>11 DEF IInv

LEMMA SortWritesKeeps ==
    ASSUME NEW t \in Tag, NEW r \in Record, IInv, SortWrites(t, r) PROVE IInv'
<1>1. Early' /\ MarkedOnly' /\ OpenOut'
         /\ SortOut' /\ Drained' /\ ClosedOut'
  BY DEF IInv, Early, MarkedOnly, OpenOut, SortOut, Drained, ClosedOut,
      SortWrites, OutOpen, OutEnd, SortEnd, Live, Gone, Move
<1>2. TypeOK'
  BY DEF IInv, TypeOK, SortWrites, Readers
<1>3. Flow'
  BY DEF IInv, TypeOK, Flow, SortWrites, Tag
<1>4. OkEmpty'
  BY DEF IInv, OkEmpty, SortWrites
<1>5. Waiting'
  BY DEF IInv, Waiting, SortWrites, Live
<1>6. ClosedEmpty'
  BY DEF IInv, ClosedEmpty, SortWrites
<1> QED BY <1>1, <1>2, <1>3, <1>4, <1>5, <1>6 DEF IInv

LEMMA SortExitsKeeps ==
    ASSUME NEW t \in Tag, IInv, SortExits(t) PROVE IInv'
<1>1. ClosedOut'
  BY DEF IInv, ClosedOut, SortExits, OutOpen, Gone, Tag, EndsOf, data,
      CloseAll, SortEnds
<1>2. TypeOK'
  BY DEF IInv, TypeOK, SortExits, Tag, Proc, End, EndsOf, data, CloseAll,
      SortEnds
<1>3. Early'
  BY DEF IInv, Early, SortExits, SortEnds
<1>4. Flow'
  BY DEF IInv, Flow, SortExits, Tag, EndsOf, data, CloseAll, SortEnds
<1>5. MarkedOnly'
  BY DEF IInv, MarkedOnly, SortExits, EndsOf, data, CloseAll, SortEnds
<1>6. OpenOut'
  BY DEF IInv, OpenOut, SortExits, OutOpen, OutEnd, Tag, EndsOf, data,
      CloseAll, SortEnds
<1>7. SortOut'
  BY DEF IInv, TypeOK, SortOut, SortExits, SortEnd, Live, Tag, EndsOf, data,
      CloseAll, SortEnds
<1>8. Drained'
  BY DEF IInv, Drained, SortExits, OutOpen, Tag, EndsOf, data, CloseAll,
      SortEnds
<1>9. OkEmpty'
  BY DEF IInv, OkEmpty, SortExits, Tag, data, SortEnds
<1>10. Waiting'
  BY DEF IInv, Waiting, SortExits, Live, data, SortEnds
<1>11. ClosedEmpty'
  BY DEF IInv, ClosedEmpty, SortExits, data, SortEnds
<1> QED BY <1>1, <1>2, <1>3, <1>4, <1>5, <1>6, <1>7, <1>8, <1>9, <1>10, <1>11 DEF IInv

LEMMA SortSigPipeKeeps ==
    ASSUME NEW t \in Tag, IInv, SortSigPipe(t) PROVE IInv'
<1>1. ClosedOut'
  BY DEF IInv, ClosedOut, SortSigPipe, OutOpen, Gone, Tag, EndsOf, Readers,
      data, CloseAll, SortEnds
<1>2. TypeOK'
  BY DEF IInv, TypeOK, SortSigPipe, Tag, Readers, data, CloseAll, SortEnds
<1>3. Early'
  BY DEF IInv, Early, SortSigPipe, Readers, data, SortEnds
<1>4. Flow'
  BY DEF IInv, Flow, SortSigPipe, Tag, EndsOf, Readers, data, CloseAll,
      SortEnds
<1>5. MarkedOnly'
  BY DEF IInv, MarkedOnly, SortSigPipe, data, CloseAll, SortEnds
<1>6. OpenOut'
  BY DEF IInv, OpenOut, SortSigPipe, OutOpen, OutEnd, Tag, EndsOf, Readers,
      data, CloseAll, SortEnds
<1>7. SortOut'
  BY DEF IInv, TypeOK, SortOut, SortSigPipe, SortEnd, Live, Tag, EndsOf,
      data, CloseAll, SortEnds
<1>8. Drained'
  BY DEF IInv, Drained, SortSigPipe, OutOpen, Tag, EndsOf, Readers, data,
      CloseAll, SortEnds
<1>9. OkEmpty'
  BY DEF IInv, OkEmpty, SortSigPipe, Tag, EndsOf, Readers, data, CloseAll,
      SortEnds
<1>10. Waiting'
  BY DEF IInv, Waiting, SortSigPipe, Live, EndsOf, Readers, data, CloseAll,
      SortEnds
<1>11. ClosedEmpty'
  BY DEF IInv, ClosedEmpty, SortSigPipe, data, CloseAll, SortEnds
<1> QED BY <1>1, <1>2, <1>3, <1>4, <1>5, <1>6, <1>7, <1>8, <1>9, <1>10, <1>11 DEF IInv

LEMMA SortFailsKeeps ==
    ASSUME NEW t \in Tag, IInv, SortFails(t) PROVE IInv'
<1>1. ClosedOut'
  BY DEF IInv, ClosedOut, SortFails, OutOpen, Live, Gone, Tag, EndsOf, data,
      CloseAll, SortEnds
<1>2. TypeOK'
  BY DEF IInv, TypeOK, SortFails, Live, Tag, Proc, End, EndsOf, data,
      CloseAll, SortEnds
<1>3. Early'
  BY DEF IInv, Early, SortFails, Live, EndsOf, data, CloseAll, SortEnds
<1>4. Flow'
  BY DEF IInv, Flow, SortFails, Tag, data, SortEnds
<1>5. MarkedOnly'
  BY DEF IInv, MarkedOnly, SortFails, Live, EndsOf, data, CloseAll, SortEnds
<1>6. OpenOut'
  BY DEF IInv, OpenOut, SortFails, OutOpen, OutEnd, Live, Tag, EndsOf, data,
      CloseAll, SortEnds
<1>7. SortOut'
  BY DEF IInv, TypeOK, SortOut, SortFails, SortEnd, Live, Tag, EndsOf, data,
      CloseAll, SortEnds
<1>8. Drained'
  BY DEF IInv, Drained, SortFails, OutOpen, Live, Tag, EndsOf, data,
      CloseAll, SortEnds
<1>9. OkEmpty'
  BY DEF IInv, OkEmpty, SortFails, Live, Tag, EndsOf, data, CloseAll,
      SortEnds
<1>10. Waiting'
  BY DEF IInv, Waiting, SortFails, Live, EndsOf, data, CloseAll, SortEnds
<1>11. ClosedEmpty'
  BY DEF IInv, ClosedEmpty, SortFails, Live, EndsOf, data, CloseAll, SortEnds
<1> QED BY <1>1, <1>2, <1>3, <1>4, <1>5, <1>6, <1>7, <1>8, <1>9, <1>10, <1>11 DEF IInv
-----------------------------------------------------------------------------
LEMMA InitHolds == Init => IInv
  BY SortedWriteAssumption
  DEF Init, IInv, TypeOK, Early, Flow, MarkedOnly, OpenOut, SortOut, Drained, OkEmpty,
      ClosedOut, Waiting, ClosedEmpty, OutOpen, Live, Gone, Tag, End

LEMMA GtagsKeeps ==
    ASSUME IInv, GtagsStep PROVE IInv'
<1>1. CASE Fork BY <1>1, ForkKeeps
<1>2. CASE Setup BY <1>2, SetupKeeps
<1>3. CASE Work BY <1>3, WorkKeeps
<1>4. CASE CloseOut BY <1>4, CloseOutKeeps
<1>5. CASE LoadDone BY <1>5, LoadDoneKeeps
<1>6. CASE Wait BY <1>6, WaitKeeps
<1>7. CASE WaitDies BY <1>7, DieKeeps DEF WaitDies
<1>8. CASE \E r \in Record : Load(r) BY <1>8, LoadKeeps
<1>9. CASE \E t \in Tag : SigPipe(t) BY <1>9, DieKeeps DEF SigPipe
<1>10. CASE \E t \in Tag : \E r \in Record : Write(t, r) BY <1>10, WriteKeeps
<1> QED BY <1>1, <1>2, <1>3, <1>4, <1>5, <1>6, <1>7, <1>8, <1>9, <1>10 DEF GtagsStep

LEMMA SortKeeps ==
    ASSUME NEW t \in Tag, IInv, SortStep(t) PROVE IInv'
  BY ExecKeeps, SortEofKeeps, SortExitsKeeps, SortSigPipeKeeps, SortReadsKeeps,
     SortWritesKeeps
  DEF SortStep

LEMMA UnchangedKeeps ==
    ASSUME IInv, UNCHANGED vars PROVE IInv'
  BY DEF vars, IInv, TypeOK, Early, Flow, MarkedOnly, OpenOut, SortOut, Drained,
      OkEmpty, ClosedOut, Waiting, ClosedEmpty, OutOpen, OutEnd, SortEnd, Live, Gone

LEMMA Inductive ==
    ASSUME IInv, [Next]_vars PROVE IInv'
<1>1. CASE GtagsStep BY <1>1, GtagsKeeps
<1>2. CASE Killed BY <1>2, DieKeeps DEF Killed
<1>3. CASE UNCHANGED vars BY <1>3, UnchangedKeeps
<1>4. CASE \E t \in Tag : SortStep(t) BY <1>4, SortKeeps
<1>5. CASE \E t \in Tag : SortFails(t) BY <1>5, SortFailsKeeps
<1>6. CASE \E t \in Tag : \E r \in Record : Put(t, r) BY <1>6, PutKeeps
<1> QED BY <1>1, <1>2, <1>3, <1>4, <1>5, <1>6 DEF Next, Finished

LEMMA IInvHolds == Spec => []IInv
<1>1. Init => IInv BY InitHolds
<1>2. IInv /\ [Next]_vars => IInv' BY Inductive
<1> QED BY <1>1, <1>2, PTL DEF Spec

(* The processes, their descriptors and the places of the records have     *)
(* their types in every behaviour.                                         *)
THEOREM TypeCorrect == Spec => []TypeOK
<1>1. IInv => TypeOK BY DEF IInv
<1> QED BY <1>1, IInvHolds, PTL

(* A file that dbop_close has closed holds every record that was put, also *)
(* when sorts and gtags may die at any moment.                             *)
THEOREM NoSilentLossHolds == Spec => []NoSilentLoss
<1>1. IInv => NoSilentLoss
  <2> SUFFICES ASSUME IInv, NEW t \in closed PROVE loaded[t] = put[t]
    BY DEF NoSilentLoss
  <2>1. t \in Tag
    BY DEF IInv, TypeOK
  <2>2. sort[t] = "ok" /\ buf[t] = {} /\ to[t] = {} /\ got[t] = {} /\ from[t] = {}
    BY DEF IInv, ClosedEmpty
  <2>3. put[t] = buf[t] \cup to[t] \cup got[t] \cup from[t] \cup loaded[t]
    BY <2>1, <2>2 DEF IInv, Flow
  <2> QED BY <2>2, <2>3
<1> QED BY <1>1, IInvHolds, PTL

(* What a sort reads to its end is complete: when it gets end of file,     *)
(* gtags has written all that it put.                                      *)
THEOREM EofComplete ==
    Spec => [](\A t \in Tag : sort[t] \in {"writing", "ok"} /\ ~Gone => buf[t] = {} /\ to[t] = {})
<1>1. IInv => \A t \in Tag : sort[t] \in {"writing", "ok"} /\ ~Gone => buf[t] = {} /\ to[t] = {}
  BY DEF IInv, Drained, ClosedOut
<1> QED BY <1>1, IInvHolds, PTL
=============================================================================
