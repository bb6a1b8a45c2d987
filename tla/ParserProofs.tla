---------------------------- MODULE ParserProofs ----------------------------
(***************************************************************************)
(* Proofs about what reads the source files.                               *)
(*                                                                         *)
(* The parser of C++ keeps count of the braces of a source in all its      *)
(* branches, if no #if divides a class or a head, no macro closes a class, *)
(* and none assigns without a semicolon.                                   *)
(*                                                                         *)
(* Plug-in parsers, for any files, languages, lists of parsers, sizes of   *)
(* pipes, and programs that may break off: a file gets exactly the tags    *)
(* that its program found in it.                                           *)
(***************************************************************************)
EXTENDS CppParser, Plugins, SequenceTheorems, TLAPS

WellWritten == ~Splits /\ ~BareAssign

Looped == {"enum", "paren", "record", "inner"}
Kinds == {"namespace", "class", "function", "initializer"} \cup Looped
Loops == [name : {"main", "enum", "typedef enum", "typedef struct", "names"}, level : Nat]

Block_ == [kind : Kinds, depth : Nat, classes : Seq(Nat), loop : Loops]

(* The loop that has to read a block *)
LoopOK(b, outer) ==
    /\ IF b.kind \in {"paren", "inner"} THEN b.loop = outer.loop ELSE outer.loop = Main
    /\ b.kind \notin Looped => b.loop = Main
    /\ b.kind \in Looped => b.loop.name \in {"enum", "typedef enum", "typedef struct"}
    /\ b.kind = "enum" => b.loop.name # "typedef struct"
    /\ b.kind = "record" => b.loop.name = "typedef struct"
    /\ b.kind \in {"enum", "record"} => b.loop.level + 1 = b.depth
    /\ b.kind \in {"paren", "inner"} => b.loop.level + 1 < b.depth
    /\ b.kind = "paren" => outer.kind \in {"enum", "paren"}

(* What a block says of what encloses it is so. *)
BlockOK(b, outer) ==
    /\ b.depth = IF b.kind = "namespace" THEN outer.depth ELSE outer.depth + 1
    /\ b.classes = IF b.kind = "class" THEN Append(outer.classes, b.depth) ELSE outer.classes
    /\ TopOf(b.classes, 0) <= b.depth
    /\ b.kind = "function" => TopOf(b.classes, 0) < b.depth
    /\ b.kind = "namespace" => b.depth = 0
    /\ LoopOK(b, outer)

Nests == {n \in Seq(Block_) :
             \A i \in 1 .. Len(n) : BlockOK(n[i], IF i = 1 THEN Outside ELSE n[i - 1])}

Places == [nest : Nests, at : {"item", "head", "names"}, assign : BOOLEAN]
Conds == [start : Places, zero : BOOLEAN, end : {<<>>} \cup {<<p>> : p \in Places}]
Pifs == [start : Nat, end : Nat \cup {-1}, if0only : BOOLEAN]

(* An entry of the #if stack is what the source has there. *)
CondOK(c, f) ==
    /\ f.start = Inner(c.start.nest).depth
    /\ f.end = IF c.end = <<>> THEN -1 ELSE Inner(c.end[1].nest).depth
    /\ f.if0only = c.zero
    /\ c.start.assign => Inner(c.start.nest).kind = "initializer" /\ c.start.at # "names"
    /\ c.start.at # "item" => Inner(c.start.nest).kind \notin Looped

CTypeOK ==
    /\ Here \in Places
    /\ level \in Nat /\ savelevel \in Nat \cup {-1}
    /\ startmacro \in BOOLEAN /\ startequal \in BOOLEAN /\ inhead \in BOOLEAN
    /\ in_expression \in BOOLEAN
    /\ conds \in Seq(Conds) /\ pifstack \in Seq(Pifs) /\ Len(pifstack) = Len(conds)

(* Where the parser is, and where the source is *)
Reading ==
    /\ loop = Loop(Here)
    /\ in_expression <=> assign /\ Kind \in {"enum", "paren"}
    /\ startequal => assign /\ Kind \notin Looped
    /\ at = "names" => ~assign
    /\ at # "item" => Kind \notin Looped
    /\ inhead => at = "head"
    /\ startmacro => at = "item"

CInv ==
    /\ CTypeOK
    /\ (IF startmacro THEN savelevel ELSE level) = Inner(nest).depth
    /\ classes = Inner(nest).classes
    /\ \A i \in 1 .. Len(conds) : CondOK(conds[i], pifstack[i])
    /\ Reading
    /\ ~misfiled

(* Facts about sequences, and about a nest *)
LEMMA PoppedSeq ==
    ASSUME NEW S, NEW s \in Seq(S), s # <<>>
    PROVE  /\ Popped(s) \in Seq(S) /\ Len(Popped(s)) = Len(s) - 1
           /\ \A i \in 1 .. Len(s) - 1 : Popped(s)[i] = s[i]
<1>1. Len(s) \in Nat /\ Len(s) >= 1 /\ \A i \in 1 .. Len(s) - 1 : s[i] \in S
  OBVIOUS
<1> DEFINE m == Len(s) - 1
<1>2. m \in Nat /\ 1 \in Int /\ m \in Int /\ m - 1 + 1 = m
  BY <1>1
<1>3. /\ SubSeq(s, 1, m) \in Seq(S) /\ Len(SubSeq(s, 1, m)) = IF 1 <= m THEN m - 1 + 1 ELSE 0
      /\ \A i \in 1 .. m - 1 + 1 : SubSeq(s, 1, m)[i] = s[1 + i - 1]
  <2> HIDE DEF m
  <2> QED BY <1>1, <1>2, SubSeqProperties DEF m
<1>4. Popped(s) = SubSeq(s, 1, m)
  BY DEF Popped
<1> HIDE DEF m
<1>5. /\ Popped(s) \in Seq(S) /\ Len(Popped(s)) = m
      /\ \A i \in 1 .. m : Popped(s)[i] = s[i]
  BY <1>2, <1>3, <1>4
<1> QED BY <1>5 DEF m

LEMMA InnerOK ==
    ASSUME NEW n \in Nests
    PROVE  /\ Inner(n) \in Block_
           /\ TopOf(Inner(n).classes, 0) <= Inner(n).depth
           /\ Inner(n).kind = "function" => TopOf(Inner(n).classes, 0) < Inner(n).depth
           /\ Inner(n).kind = "namespace" => Inner(n).depth = 0
           /\ Inner(n).kind = "class" => TopOf(Inner(n).classes, 0) = Inner(n).depth
<1>1. CASE n = <<>>
  BY <1>1 DEF Inner, TopOf, Outside, Block_, Main, Loops, Kinds
<1>2. CASE n # <<>>
  <2>1. Len(n) \in 1 .. Len(n) /\ n \in Seq(Block_)
    BY <1>2 DEF Nests
  <2> DEFINE b == n[Len(n)]
             o == IF Len(n) = 1 THEN Outside ELSE n[Len(n) - 1]
  <2>2. Inner(n) = b
    BY <1>2 DEF Inner, TopOf
  <2>3. b \in Block_ /\ o \in Block_ /\ BlockOK(b, o)
    <3>1. Outside \in Block_
      BY DEF Outside, Block_, Main, Loops, Kinds
    <3>2. Len(n) = 1 \/ Len(n) - 1 \in 1 .. Len(n)
      <4>1. \A m \in Nat : m >= 1 => (m = 1 \/ m - 1 \in 1 .. m)
        OBVIOUS
      <4>2. Len(n) \in Nat /\ Len(n) >= 1
        BY <2>1
      <4> QED BY <4>1, <4>2
    <3> QED BY <2>1, <3>1, <3>2 DEF Nests
  <2> HIDE DEF b, o
  <2>4. b.kind = "class" => TopOf(b.classes, 0) = b.depth
    <3>1. SUFFICES ASSUME b.kind = "class" PROVE TopOf(b.classes, 0) = b.depth
      OBVIOUS
    <3>2. b.depth \in Nat /\ o.classes \in Seq(Nat) /\ b.classes = Append(o.classes, b.depth)
      BY <2>3, <3>1 DEF BlockOK, Block_
    <3> QED BY <3>2 DEF TopOf
  <2> QED BY <2>2, <2>3, <2>4 DEF BlockOK
<1> QED BY <1>1, <1>2

(* What it says of its loop *)
LEMMA InnerLoop ==
    ASSUME NEW n \in Nests
    PROVE  LET b == Inner(n)
           IN  /\ b.loop = Main <=> b.kind \notin Looped
               /\ b.kind \in Looped => b.loop.name \in {"enum", "typedef enum", "typedef struct"}
               /\ b.kind = "enum" => b.loop.name # "typedef struct"
               /\ b.kind = "record" => b.loop.name = "typedef struct"
               /\ b.kind \in {"enum", "record"} => b.loop.level + 1 = b.depth
               /\ b.kind \in {"paren", "inner"} => b.loop.level + 1 < b.depth
<1>1. CASE n = <<>>
  BY <1>1 DEF Inner, TopOf, Outside, Main, Looped
<1>2. CASE n # <<>>
  <2> DEFINE b == Inner(n)
             o == IF Len(n) = 1 THEN Outside ELSE n[Len(n) - 1]
  <2>1. Len(n) \in 1 .. Len(n) /\ b = n[Len(n)]
    BY <1>2 DEF Nests, Inner, TopOf
  <2>2. BlockOK(b, o)
    BY <2>1 DEF Nests
  <2> HIDE DEF b, o
  <2>3. /\ b.kind \notin Looped => b.loop = Main
        /\ b.kind \in Looped => b.loop.name \in {"enum", "typedef enum", "typedef struct"}
        /\ b.kind = "enum" => b.loop.name # "typedef struct"
        /\ b.kind = "record" => b.loop.name = "typedef struct"
        /\ b.kind \in {"enum", "record"} => b.loop.level + 1 = b.depth
        /\ b.kind \in {"paren", "inner"} => b.loop.level + 1 < b.depth
    BY <2>2 DEF BlockOK, LoopOK
  <2>4. b.loop = Main => b.loop.name = "main"
    BY DEF Main
  <2>5. b.loop = Main <=> b.kind \notin Looped
    BY <2>3, <2>4
  <2> QED BY <2>3, <2>5 DEF b
<1> QED BY <1>1, <1>2

LEMMA AppendNest ==
    ASSUME NEW n \in Nests, NEW b \in Block_, BlockOK(b, Inner(n))
    PROVE  Append(n, b) \in Nests /\ Inner(Append(n, b)) = b
<1> DEFINE m == Append(n, b)
<1>1. n \in Seq(Block_)
  BY DEF Nests
<1>2. /\ m \in Seq(Block_) /\ Len(m) = Len(n) + 1 /\ m[Len(n) + 1] = b
      /\ \A i \in 1 .. Len(n) : m[i] = n[i]
  BY <1>1
<1>3. Len(n) \in Nat /\ (n = <<>> <=> Len(n) = 0)
  BY <1>1
<1>4. ASSUME NEW i \in 1 .. Len(m)
      PROVE  BlockOK(m[i], IF i = 1 THEN Outside ELSE m[i - 1])
  <2>1. CASE i \in 1 .. Len(n)
    <3>1. i = 1 \/ i - 1 \in 1 .. Len(n)
      BY <2>1, <1>3
    <3> QED BY <2>1, <3>1, <1>2 DEF Nests
  <2>2. CASE i = Len(n) + 1
    <3>1. (IF i = 1 THEN Outside ELSE m[i - 1]) = Inner(n)
      BY <2>2, <1>2, <1>3 DEF Inner, TopOf
    <3> QED BY <2>2, <3>1, <1>2
  <2> QED BY <1>2, <1>3, <2>1, <2>2
<1>5. m \in Nests
  BY <1>2, <1>4 DEF Nests
<1>6. Inner(m) = b
  BY <1>2, <1>3 DEF Inner, TopOf
<1> QED BY <1>5, <1>6

LEMMA PoppedNest ==
    ASSUME NEW n \in Nests, n # <<>>
    PROVE  Popped(n) \in Nests /\ BlockOK(Inner(n), Inner(Popped(n)))
<1> DEFINE m == Popped(n)
<1>1. n \in Seq(Block_) /\ Len(n) \in Nat /\ Len(n) >= 1
  BY DEF Nests
<1>2. /\ m \in Seq(Block_) /\ Len(m) = Len(n) - 1
      /\ \A i \in 1 .. Len(n) - 1 : m[i] = n[i]
  BY <1>1, PoppedSeq
<1> HIDE DEF m
<1>3. ASSUME NEW i \in 1 .. Len(m)
      PROVE  BlockOK(m[i], IF i = 1 THEN Outside ELSE m[i - 1])
  <2>1. i \in 1 .. Len(n) /\ m[i] = n[i] /\ (i = 1 \/ m[i - 1] = n[i - 1])
    BY <1>1, <1>2
  <2> QED BY <2>1 DEF Nests
<1>4. m \in Nests
  BY <1>2, <1>3 DEF Nests
<1>5. Inner(m) = IF Len(n) = 1 THEN Outside ELSE n[Len(n) - 1]
  BY <1>1, <1>2 DEF Inner, TopOf
<1>6. Inner(n) = n[Len(n)] /\ Len(n) \in 1 .. Len(n)
  BY <1>1 DEF Inner, TopOf
<1>7. BlockOK(Inner(n), Inner(m))
  BY <1>5, <1>6 DEF Nests
<1> QED BY <1>4, <1>7 DEF m
-----------------------------------------------------------------------------
(* What a new block, and a brace that closes one, do to nest and level *)
LEMMA NestedInOK ==
    ASSUME CInv, ~startmacro, NEW k \in Kinds, NEW l \in Loops,
           NestedIn(l, k), k = "namespace" => Kind = "namespace",
           LoopOK([kind |-> k, loop |-> l, depth |-> level + IF k = "namespace" THEN 0 ELSE 1],
                  Inner(nest))
    PROVE  /\ nest' \in Nests
           /\ Inner(nest').kind = k /\ Inner(nest').loop = l
           /\ Inner(nest').depth = IF k = "namespace" THEN level ELSE level + 1
           /\ Inner(nest').classes = IF k = "class" THEN Append(classes, level + 1) ELSE classes
<1> DEFINE o == Inner(nest)
           d == o.depth + IF k = "namespace" THEN 0 ELSE 1
           cs == IF k = "class" THEN Append(o.classes, d) ELSE o.classes
           b == [kind |-> k, depth |-> d, loop |-> l, classes |-> cs]
<1>1. nest \in Nests /\ o.depth = level /\ o.classes = classes
  BY DEF CInv, CTypeOK, Places, Here
<1>2. /\ o \in Block_ /\ TopOf(o.classes, 0) <= o.depth
      /\ o.kind = "namespace" => o.depth = 0
  BY <1>1, InnerOK
<1>3. d \in Nat /\ o.classes \in Seq(Nat) /\ o.depth \in Nat /\ TopOf(o.classes, 0) \in Int
  <2>1. d \in Nat /\ o.classes \in Seq(Nat) /\ o.depth \in Nat
    BY <1>2 DEF Block_
  <2>2. TopOf(o.classes, 0) \in Int
    BY <2>1 DEF TopOf
  <2> QED BY <2>1, <2>2
<1>4. cs \in Seq(Nat) /\ TopOf(cs, 0) = IF k = "class" THEN d ELSE TopOf(o.classes, 0)
  <2> HIDE DEF d, o
  <2>1. CASE k = "class"
    <3>1. cs = Append(o.classes, d)
      BY <2>1
    <3> HIDE DEF cs
    <3>2. cs \in Seq(Nat) /\ Len(cs) = Len(o.classes) + 1 /\ cs[Len(o.classes) + 1] = d
      BY <3>1, <1>3
    <3>3. cs # <<>> /\ Len(o.classes) \in Nat
      BY <3>2, <1>3
    <3> QED BY <2>1, <3>2, <3>3 DEF TopOf
  <2>2. CASE k # "class"
    BY <2>2, <1>3
  <2> QED BY <2>1, <2>2
<1>5. b \in Block_
  BY <1>3, <1>4 DEF Block_
<1>6. BlockOK(b, o)
  <2>1. k = "namespace" => d = 0
    BY <1>2 DEF Kind
  <2>2. LoopOK(b, o)
    BY <1>1 DEF LoopOK
  <2> QED BY <1>2, <1>3, <1>4, <2>1, <2>2 DEF BlockOK
<1>7. nest' = Append(nest, b)
  BY DEF NestedIn
<1> HIDE DEF b
<1>8. nest' \in Nests /\ Inner(nest') = b
  BY <1>1, <1>5, <1>6, <1>7, AppendNest
<1>9. /\ d = IF k = "namespace" THEN level ELSE level + 1
      /\ cs = IF k = "class" THEN Append(classes, level + 1) ELSE classes
  <2> HIDE DEF o
  <2>1. o.depth = level /\ level \in Nat
    BY <1>1, <1>3
  <2> QED BY <1>1, <2>1
<1>10. b.depth = d /\ b.classes = cs /\ b.kind = k /\ b.loop = l
  BY DEF b
<1> HIDE DEF d, cs
<1> QED BY <1>8, <1>9, <1>10

(* The blocks that Cpp() reads in its own loop *)
LEMMA NestedOK ==
    ASSUME CInv, ~startmacro, NEW k \in Kinds \ Looped, Nested(k), Kind \notin Looped,
           k = "namespace" => Kind = "namespace"
    PROVE  /\ nest' \in Nests
           /\ Inner(nest').kind = k /\ Inner(nest').loop = Main
           /\ Inner(nest').depth = IF k = "namespace" THEN level ELSE level + 1
           /\ Inner(nest').classes = IF k = "class" THEN Append(classes, level + 1) ELSE classes
<1>1. Main \in Loops
  BY DEF Main, Loops
<1>2. Inner(nest).loop = Main
  BY InnerLoop DEF CInv, CTypeOK, Places, Here, Kind
<1>3. LoopOK([kind |-> k, loop |-> Main, depth |-> level + IF k = "namespace" THEN 0 ELSE 1],
             Inner(nest))
  BY <1>2 DEF LoopOK, Looped
<1> QED BY <1>1, <1>3, NestedInOK DEF Nested

LEMMA CloseOK ==
    ASSUME CInv, ~startmacro, nest # <<>>, Kind \notin Looped, nest' = Popped(nest), RBrace
    PROVE  /\ nest' \in Nests /\ level' \in Nat
           /\ Inner(nest').depth = level' /\ Inner(nest').classes = classes'
           /\ Inner(nest').loop = Main
<1> DEFINE b == Inner(nest)
           o == Inner(nest')
<1>1. nest \in Nests /\ b.depth = level /\ b.classes = classes /\ level \in Nat
  BY DEF CInv, CTypeOK, Places, Here
<1>2. nest' \in Nests /\ BlockOK(b, o)
  BY <1>1, PoppedNest
<1>3. b \in Block_ /\ o \in Block_ /\ TopOf(o.classes, 0) <= o.depth
  BY <1>1, <1>2, InnerOK
<1>8. b.kind = Kind
  BY DEF Kind
<1> HIDE DEF b, o
<1>9. b.kind \in {"namespace", "class", "function", "initializer"}
  BY <1>3, <1>8 DEF Block_, Kinds
<1>10. o.loop = Main
  <2>1. b.kind \notin {"paren", "inner"}
    BY <1>9
  <2> QED BY <1>2, <2>1 DEF BlockOK, LoopOK
<1>4. o.depth \in Nat /\ o.classes \in Seq(Nat) /\ TopOf(o.classes, 0) \in Nat
  <2>1. o.depth \in Nat /\ o.classes \in Seq(Nat)
    BY <1>3 DEF Block_
  <2> QED BY <2>1 DEF TopOf
<1>5. CASE b.kind = "namespace"
  <2>1. level = 0 /\ o.depth = 0 /\ o.classes = classes /\ level' = 0
    BY <1>1, <1>2, <1>5 DEF BlockOK, RBrace
  <2>2. classes' = classes
    BY <1>3, <1>4, <2>1 DEF RBrace, ClassLevel
  <2> QED BY <1>2, <1>10, <2>1, <2>2 DEF o
<1>6. CASE b.kind = "class"
  <2>1. level = o.depth + 1 /\ level' = o.depth /\ classes = Append(o.classes, level)
    BY <1>1, <1>2, <1>4, <1>6 DEF BlockOK, RBrace
  <2>2. ClassLevel = level
    BY <1>1, <1>4, <2>1 DEF ClassLevel, TopOf
  <2>3. classes' = Popped(classes)
    BY <1>4, <2>1, <2>2 DEF RBrace
  <2>4. Popped(classes) = o.classes
    <3>1. classes \in Seq(Nat) /\ classes # <<>> /\ Len(classes) = Len(o.classes) + 1
      BY <1>1, <1>4, <2>1
    <3>2. Len(o.classes) \in Nat /\ \A i \in 1 .. Len(o.classes) : classes[i] = o.classes[i]
      BY <1>1, <1>4, <2>1
    <3>3. /\ Popped(classes) \in Seq(Nat) /\ Len(Popped(classes)) = Len(classes) - 1
          /\ \A i \in 1 .. Len(classes) - 1 : Popped(classes)[i] = classes[i]
      BY <3>1, PoppedSeq
    <3>4. Len(classes) - 1 = Len(o.classes)
      BY <3>1, <3>2
    <3>5. /\ Popped(classes) \in Seq(Nat) /\ Len(Popped(classes)) = Len(o.classes)
          /\ \A i \in 1 .. Len(o.classes) : Popped(classes)[i] = o.classes[i]
      BY <3>2, <3>3, <3>4
    <3> QED BY <3>5, <1>4, SeqEqual
  <2> QED BY <1>2, <1>4, <1>10, <2>1, <2>3, <2>4 DEF o
<1>7. CASE b.kind \in {"function", "initializer"}
  <2>1. level = o.depth + 1 /\ level' = o.depth /\ classes = o.classes
    BY <1>1, <1>2, <1>4, <1>7 DEF BlockOK, RBrace
  <2>2. classes' = classes
    BY <1>3, <1>4, <2>1 DEF RBrace, ClassLevel
  <2> QED BY <1>2, <1>4, <1>10, <2>1, <2>2 DEF o
<1> QED BY <1>5, <1>6, <1>7, <1>9

(* A block that another loop reads is closed. *)
LEMMA LoopClosed ==
    ASSUME CInv, ~startmacro, nest # <<>>, Kind \in Looped, nest' = Popped(nest), level' = level - 1
    PROVE  /\ nest' \in Nests /\ level' \in Nat
           /\ Inner(nest').depth = level' /\ Inner(nest').classes = classes
           /\ IF Kind \in {"paren", "inner"} THEN Inner(nest').loop = Inner(nest).loop
              ELSE Inner(nest').loop = Main
           /\ Kind = "paren" => Inner(nest').kind \in {"enum", "paren"}
<1> DEFINE b == Inner(nest)
           o == Inner(nest')
<1>1. nest \in Nests /\ b.depth = level /\ b.classes = classes /\ level \in Nat
  BY DEF CInv, CTypeOK, Places, Here
<1>2. nest' \in Nests /\ BlockOK(b, o)
  BY <1>1, PoppedNest
<1>3. o.depth \in Nat
  BY <1>2, InnerOK DEF Block_
<1>4. b.kind \in Looped
  BY DEF Kind
<1> HIDE DEF b, o
<1>5. b.depth = o.depth + 1 /\ b.classes = o.classes /\ LoopOK(b, o)
  BY <1>2, <1>4 DEF BlockOK, Looped
<1>6. level' = o.depth /\ o.classes = classes
  BY <1>1, <1>3, <1>5
<1> QED BY <1>2, <1>3, <1>5, <1>6 DEF LoopOK, Kind, b, o
-----------------------------------------------------------------------------
LEMMA CppInitOK == CppInit => CInv
<1> SUFFICES ASSUME CppInit PROVE CInv
  OBVIOUS
<1>1. nest \in Nests
  BY DEF CppInit, Nests
<1>2. conds \in Seq(Conds) /\ pifstack \in Seq(Pifs) /\ Len(pifstack) = Len(conds) /\ Len(conds) = 0
  BY DEF CppInit
<1>3. CTypeOK
  BY <1>1, <1>2 DEF CppInit, CTypeOK, Here, Places
<1>4. Inner(nest) = Outside
  BY DEF CppInit, Inner, TopOf
<1>5. Reading
  BY <1>4 DEF CppInit, Reading, Loop, Here, Kind, Outside, Looped
<1> QED BY <1>2, <1>3, <1>4, <1>5 DEF CppInit, CInv, Outside

(* What every step uses of the invariant *)
LEMMA Here_ ==
    ASSUME CInv
    PROVE  /\ nest \in Nests /\ at \in {"item", "head", "names"} /\ assign \in BOOLEAN
           /\ level \in Nat /\ savelevel \in Nat \cup {-1}
           /\ startmacro \in BOOLEAN /\ startequal \in BOOLEAN /\ inhead \in BOOLEAN
           /\ in_expression \in BOOLEAN
           /\ conds \in Seq(Conds) /\ pifstack \in Seq(Pifs) /\ Len(pifstack) = Len(conds)
           /\ Here \in Places
BY DEF CInv, CTypeOK, Places, Here

(* The #if that is open, and what the source has there *)
LEMMA InnermostIf ==
    ASSUME CInv, conds # <<>>
    PROVE  /\ Cond \in Conds /\ Cur \in Pifs /\ CondOK(Cond, Cur)
           /\ Len(conds) \in 1 .. Len(conds)
<1>1. conds \in Seq(Conds) /\ pifstack \in Seq(Pifs) /\ Len(pifstack) = Len(conds)
  BY Here_
<1>2. Len(conds) \in 1 .. Len(conds) /\ Len(conds) \in 1 .. Len(pifstack)
  BY <1>1
<1>3. Cond \in Conds /\ Cur \in Pifs
  BY <1>1, <1>2 DEF Cond, Cur
<1>4. CondOK(Cond, Cur)
  BY <1>1, <1>2 DEF CInv, Cond, Cur
<1> QED BY <1>2, <1>3, <1>4

(* A step that leaves the conditionals alone keeps what they say. *)
LEMMA SameConds ==
    ASSUME CInv, UNCHANGED <<conds, pifstack>>,
           nest' \in Nests, at' \in {"item", "head", "names"}, assign' \in BOOLEAN,
           level' \in Nat, savelevel' \in Nat \cup {-1},
           startmacro' \in BOOLEAN, startequal' \in BOOLEAN, inhead' \in BOOLEAN,
           in_expression' \in BOOLEAN,
           (IF startmacro' THEN savelevel' ELSE level') = Inner(nest').depth,
           classes' = Inner(nest').classes,
           Reading', ~misfiled'
    PROVE  CInv'
<1>1. CTypeOK'
  BY Here_ DEF CTypeOK, Here, Places
<1>2. \A i \in 1 .. Len(conds') : CondOK(conds'[i], pifstack'[i])
  BY DEF CInv
<1> QED BY <1>1, <1>2 DEF CInv

(* The loop of Cpp() goes on with its own blocks. *)
LEMMA StaysInMain ==
    ASSUME CInv, Kind \notin Looped, at # "names", UNCHANGED loopvars,
           nest' \in Nests, Inner(nest').loop = Main, at' # "names",
           startequal' => assign', inhead' => at' = "head", startmacro' => at' = "item"
    PROVE  Reading'
<1>1. loop = Main /\ ~in_expression
  BY Here_, InnerLoop DEF CInv, Reading, Loop, Here, Kind, Looped
<1>2. Kind' \notin Looped
  BY InnerLoop DEF Kind
<1>3. Loop(Here)' = Main
  BY DEF Loop, Here
<1> QED BY <1>1, <1>2, <1>3 DEF Reading, loopvars, Looped

LEMMA SameReading ==
    ASSUME CInv, UNCHANGED <<nest, at, assign, inhead, loopvars>>,
           startequal' => startequal, startmacro' => at = "item"
    PROVE  Reading'
BY DEF CInv, Reading, Loop, Here, Kind, loopvars

(* Where Cpp() itself reads *)
LEMMA PlainOK ==
    ASSUME CInv, Plain \/ (Item /\ Kind = "initializer")
    PROVE  /\ Kind \notin Looped /\ at = "item" /\ ~startmacro /\ loop = Main /\ ~in_expression
           /\ level = Inner(nest).depth /\ classes = Inner(nest).classes /\ Inner(nest).loop = Main
<1>1. Kind \notin Looped /\ at = "item" /\ ~startmacro
  BY DEF Plain, Item, Looped
<1>2. Inner(nest).loop = Main
  BY <1>1, Here_, InnerLoop DEF Kind
<1> QED BY <1>1, <1>2 DEF CInv, Reading, Loop, Here, Looped

(* Where another loop reads a block *)
LEMMA LoopedOK ==
    ASSUME CInv, Item, Kind \in Looped
    PROVE  /\ loop = Inner(nest).loop /\ loop \in Loops /\ at = "item" /\ ~startmacro /\ ~startequal
           /\ level = Inner(nest).depth /\ classes = Inner(nest).classes /\ nest # <<>>
           /\ Kind \in {"enum", "record"} => loop.level + 1 = level
           /\ Kind \in {"paren", "inner"} => loop.level + 1 < level
           /\ loop.name \in {"enum", "typedef enum", "typedef struct"}
           /\ Kind = "enum" => loop.name # "typedef struct"
           /\ Kind = "record" => loop.name = "typedef struct"
<1>1. at = "item" /\ ~startmacro /\ ~startequal
  BY DEF Item, CInv, Reading
<1>2. loop = Inner(nest).loop /\ level = Inner(nest).depth /\ classes = Inner(nest).classes
  BY <1>1 DEF CInv, Reading, Loop, Here
<1>3. Inner(nest).loop \in Loops
  BY Here_, InnerOK DEF Block_
<1>4. nest # <<>>
  BY DEF Kind, Inner, TopOf, Outside, Looped
<1> QED BY <1>1, <1>2, <1>3, <1>4, Here_, InnerLoop DEF Kind

(* Another loop takes over. *)
LoopFor(k, l) ==
    \/ k = "enum" /\ l.name \in {"enum", "typedef enum"}
    \/ k = "record" /\ l.name = "typedef struct"

LEMMA LoopBegins ==
    ASSUME CInv, Plain, ~assign, NEW l \in Loops, l.level = level,
           NEW k, LoopFor(k, l), NestedIn(l, k),
           level' = level + 1, loop' = l,
           UNCHANGED <<at, assign, conds, pifstack, startmacro, savelevel, startequal, classes,
                       inhead, in_expression, misfiled>>
    PROVE  CInv'
<1> USE Here_
<1>1. Kind \notin Looped /\ at = "item" /\ ~startmacro /\ ~in_expression
      /\ level = Inner(nest).depth /\ Inner(nest).loop = Main
  BY PlainOK
<1>2. k \in Kinds /\ k # "namespace" /\ k # "class"
  BY DEF LoopFor, Kinds, Looped
<1>3. LoopOK([kind |-> k, loop |-> l, depth |-> level + IF k = "namespace" THEN 0 ELSE 1],
             Inner(nest))
  BY <1>1, <1>2 DEF LoopFor, LoopOK, Looped
<1>4. /\ nest' \in Nests /\ Inner(nest').kind = k /\ Inner(nest').loop = l
      /\ Inner(nest').depth = level + 1 /\ Inner(nest').classes = classes
  BY <1>1, <1>2, <1>3, NestedInOK
<1>5. ~startequal /\ ~inhead
  BY <1>1 DEF CInv, Reading
<1>6. Loop(Here)' = loop'
  BY <1>1, <1>4 DEF Loop, Here
<1>7. Reading'
  BY <1>1, <1>2, <1>4, <1>5, <1>6 DEF Reading, Kind
<1>8. ~misfiled'
  BY DEF CInv
<1>9. level' \in Nat /\ (IF startmacro' THEN savelevel' ELSE level') = Inner(nest').depth
      /\ classes' = Inner(nest').classes
  <2>1. level \in Nat /\ startmacro' = startmacro /\ classes' = classes /\ ~startmacro
    BY <1>1, Here_
  <2>2. level' \in Nat /\ Inner(nest').depth = level'
    BY <1>4, <2>1
  <2> QED BY <1>4, <2>1, <2>2
<1> QED BY <1>1, <1>4, <1>7, <1>8, <1>9, SameConds

(* A loop goes on reading its block. *)
LEMMA ReadsOn ==
    ASSUME CInv, Item, Kind \in Looped, Kind \notin {"record", "inner"},
           UNCHANGED <<nest, at, startmacro, startequal, inhead, loop>>,
           in_expression' <=> assign'
    PROVE  Reading'
<1>1. at = "item" /\ ~startequal /\ ~startmacro
  BY LoopedOK
<1>2. Loop(Here)' = loop'
  BY <1>1 DEF CInv, Reading, Loop, Here
<1> QED BY <1>1, <1>2 DEF CInv, Reading, Kind, Looped

(* A branch that ends where one may goes back to where the #if began. *)
LEMMA GoesBack ==
    ASSUME WellWritten, CInv, ~startmacro, conds # <<>>, Whole,
           nest' = Cond.start.nest, at' = Cond.start.at, assign' = Cond.start.assign,
           UNCHANGED <<startmacro, startequal, inhead, loop, in_expression>>
    PROVE  Reading'
<1> DEFINE s == Cond.start
<1>1. s \in Places /\ CondOK(Cond, Cur)
  BY InnermostIf DEF Conds
<1>2. /\ s.assign => Inner(s.nest).kind = "initializer" /\ s.at # "names"
      /\ s.at # "item" => Inner(s.nest).kind \notin Looped
  BY <1>1 DEF CondOK
<1>3. /\ Loop(Here) = Loop(s)
      /\ at # "item" => at = s.at
      /\ assign => s.assign
  BY DEF Whole, WellWritten
<1>4. loop = Loop(Here)'
  BY <1>3 DEF CInv, Reading, Loop, Here
<1>5. ~in_expression
  <2>1. SUFFICES ASSUME in_expression PROVE FALSE
    BY Here_
  <2>2. assign /\ Kind \in {"enum", "paren"} /\ at = "item"
    BY <2>1 DEF CInv, Reading, Looped
  <2>3. Loop(s) = Main
    <3>1. s.at # "names" /\ Inner(s.nest).kind \notin Looped
      BY <1>2, <1>3, <2>2 DEF Looped
    <3>2. Inner(s.nest).loop = Main
      BY <1>1, <3>1, InnerLoop DEF Places
    <3> QED BY <3>1, <3>2 DEF Loop
  <2>4. Inner(nest).loop = Main
    BY <1>3, <2>2, <2>3 DEF Loop, Here
  <2> QED BY <2>2, <2>4, Here_, InnerLoop DEF Kind, Looped
<1>6. ~(assign' /\ Kind' \in {"enum", "paren"})
  BY <1>2 DEF Kind
<1>7. startequal' => assign' /\ Kind' \notin Looped
  BY <1>2, <1>3 DEF CInv, Reading, Kind, Looped
<1>8. /\ at' = "names" => ~assign'
      /\ at' # "item" => Kind' \notin Looped
  BY <1>1, <1>2 DEF Kind, Places
<1>9. inhead' => at' = "head"
  BY <1>3 DEF CInv, Reading
<1>10. in_expression' <=> assign' /\ Kind' \in {"enum", "paren"}
  BY <1>5, <1>6
<1> QED BY <1>4, <1>7, <1>8, <1>9, <1>10 DEF Reading

LEMMA CppNextOK ==
    ASSUME WellWritten, CInv, CppNext PROVE CInv'
<1> USE Here_
<1>1. CASE CppNamespace
  <2>1. Kind \notin Looped /\ at = "item" /\ ~startmacro /\ Kind = "namespace"
    BY <1>1 DEF CppNamespace, Item, Looped
  <2>2. /\ nest' \in Nests /\ Inner(nest').depth = level /\ Inner(nest').classes = classes
        /\ Inner(nest').loop = Main
    BY <1>1, <2>1, NestedOK DEF CppNamespace, Kinds, Looped
  <2>3. Reading'
    BY <1>1, <2>1, <2>2, StaysInMain DEF CppNamespace, CInv, Reading
  <2> QED BY <1>1, <2>1, <2>2, <2>3, SameConds DEF CppNamespace, CInv, loopvars
<1>2. CASE CppClass
  <2>1. Kind \notin Looped /\ at = "item" /\ ~startmacro
    BY <1>2, PlainOK DEF CppClass
  <2>2. /\ nest' \in Nests /\ Inner(nest').depth = level + 1
        /\ Inner(nest').classes = Append(classes, level + 1) /\ Inner(nest').loop = Main
    BY <1>2, <2>1, NestedOK DEF CppClass, Kinds, Looped
  <2>3. Reading'
    BY <1>2, <2>1, <2>2, StaysInMain DEF CppClass, CInv, Reading
  <2> QED BY <1>2, <2>1, <2>2, <2>3, SameConds DEF CppClass, LBrace, CInv, loopvars
<1>3. CASE FunctionHead
  <2>1. Plain /\ ~assign
    BY <1>3 DEF FunctionHead, Plain
  <2>2. Kind \notin Looped /\ at = "item" /\ ~startmacro
        /\ level = Inner(nest).depth /\ classes = Inner(nest).classes /\ Inner(nest).loop = Main
    BY <2>1, PlainOK
  <2>3. HeadPlace /\ ~inhead
    <3>1. level = ClassLevel
      <4>1. CASE Kind = "class"
        BY <2>2, <4>1, InnerOK DEF Kind, ClassLevel
      <4>2. CASE Kind = "namespace"
        <5>1. TopOf(classes, 0) <= 0 /\ level = 0 /\ classes \in Seq(Nat)
          BY <2>2, <4>2, InnerOK DEF Kind, Block_
        <5>2. TopOf(classes, 0) \in Nat
          BY <5>1 DEF TopOf
        <5> QED BY <5>1, <5>2 DEF ClassLevel
      <4> QED BY <1>3, <4>1, <4>2 DEF FunctionHead
    <3> QED BY <2>1, <2>2, <3>1 DEF CInv, Reading, HeadPlace
  <2>4. Reading'
    BY <1>3, <2>1, <2>2, <2>3, StaysInMain DEF FunctionHead, CInv, Reading
  <2> QED BY <1>3, <2>2, <2>3, <2>4, SameConds DEF FunctionHead, CInv, loopvars
<1>4. CASE Body
  <2>1. ~startmacro /\ at = "head" /\ Kind \notin Looped
    BY <1>4 DEF Body, CInv, Reading
  <2>2. /\ nest' \in Nests /\ Inner(nest').depth = level + 1 /\ Inner(nest').classes = classes
        /\ Inner(nest').loop = Main
    BY <1>4, <2>1, NestedOK DEF Body, Kinds, Looped
  <2>3. ~misfiled'
    BY <1>4, <2>1 DEF Body, CInv
  <2>4. level = Inner(nest).depth /\ classes = Inner(nest).classes /\ (startequal => assign)
    BY <2>1 DEF CInv, Reading
  <2>5. /\ at' = "item" /\ inhead' = FALSE /\ level' = level + 1
        /\ UNCHANGED <<assign, conds, pifstack, startmacro, savelevel, startequal, classes, loopvars>>
    BY <1>4 DEF Body, LBrace
  <2>6. level' \in Nat /\ (IF startmacro' THEN savelevel' ELSE level') = Inner(nest').depth
    BY <2>1, <2>2, <2>4, <2>5
  <2>7. Reading'
    BY <2>1, <2>2, <2>4, <2>5, StaysInMain
  <2> QED BY <2>1, <2>2, <2>3, <2>4, <2>5, <2>6, <2>7, SameConds DEF loopvars
<1>5. CASE Declaration
  <2>1. ~startmacro /\ at = "head" /\ Kind \notin Looped /\ Inner(nest).loop = Main
    BY <1>5, InnerLoop DEF Declaration, CInv, Reading, Kind
  <2>2. Reading'
    BY <1>5, <2>1, StaysInMain DEF Declaration
  <2> QED BY <1>5, <2>1, <2>2, SameConds DEF Declaration, CInv, loopvars
<1>6. CASE Semicolon
  <2>1. Kind \notin Looped /\ at = "item" /\ ~startmacro /\ Inner(nest).loop = Main
    BY <1>6, PlainOK DEF Semicolon
  <2>2. Reading'
    BY <1>6, <2>1, StaysInMain DEF Semicolon, CInv, Reading
  <2> QED BY <1>6, <2>1, <2>2, SameConds DEF Semicolon, CInv, loopvars
<1>7. CASE Equal
  <2>1. Kind \notin Looped /\ at = "item" /\ ~startmacro /\ Inner(nest).loop = Main
    BY <1>7, PlainOK DEF Equal
  <2>2. Reading'
    BY <1>7, <2>1, StaysInMain DEF Equal, CInv, Reading
  <2> QED BY <1>7, <2>1, <2>2, SameConds DEF Equal, CInv, loopvars
<1>8. CASE Initializer
  <2>1. Kind \notin Looped /\ at = "item" /\ ~startmacro
    BY <1>8, PlainOK DEF Initializer
  <2>2. /\ nest' \in Nests /\ Inner(nest').depth = level + 1 /\ Inner(nest').classes = classes
        /\ Inner(nest').loop = Main
    BY <1>8, <2>1, NestedOK DEF Initializer, Kinds, Looped
  <2>3. Reading'
    BY <1>8, <2>1, <2>2, StaysInMain DEF Initializer, CInv, Reading
  <2> QED BY <1>8, <2>1, <2>2, <2>3, SameConds DEF Initializer, LBrace, CInv, loopvars
<1>9. CASE Block
  <2>1. Plain /\ Kind = "function"
    BY <1>9 DEF Block, Plain
  <2>2. Kind \notin Looped /\ at = "item" /\ ~startmacro
        /\ level = Inner(nest).depth /\ classes = Inner(nest).classes
    BY <2>1, PlainOK
  <2>3. /\ nest' \in Nests /\ Inner(nest').depth = level + 1 /\ Inner(nest').classes = classes
        /\ Inner(nest').loop = Main
    BY <1>9, <2>2, NestedOK DEF Block, Kinds, Looped
  <2>4. ~HeadPlace
    <3>1. Inner(nest).kind = "function" /\ TopOf(Inner(nest).classes, 0) < Inner(nest).depth
      BY <2>1, InnerOK DEF Kind
    <3>2. TopOf(classes, 0) < level
      BY <2>2, <3>1
    <3>3. level # ClassLevel
      BY <3>2 DEF ClassLevel
    <3> QED BY <3>3 DEF HeadPlace
  <2>5. Reading'
    BY <1>9, <2>2, <2>3, StaysInMain DEF Block, CInv, Reading
  <2> QED BY <1>9, <2>2, <2>3, <2>4, <2>5, SameConds DEF Block, LBrace, CInv, loopvars
<1>10. CASE Close
  <2>1. Kind \notin Looped /\ at = "item" /\ ~startmacro
    BY <1>10, PlainOK DEF Close
  <2>2. /\ nest' \in Nests /\ level' \in Nat /\ Inner(nest').loop = Main
        /\ Inner(nest').depth = level' /\ Inner(nest').classes = classes'
    BY <1>10, <2>1, CloseOK DEF Close
  <2>3. Reading'
    BY <1>10, <2>1, <2>2, StaysInMain DEF Close, CInv, Reading
  <2> QED BY <1>10, <2>1, <2>2, <2>3, SameConds DEF Close, CInv, loopvars
<1>11. CASE Define
  <2>1. Kind \notin Looped /\ at = "item" /\ ~startmacro /\ Inner(nest).loop = Main
    BY <1>11, PlainOK DEF Define
  <2>2. Reading'
    BY <1>11, <2>1, SameReading DEF Define
  <2> QED BY <1>11, <2>1, <2>2, SameConds DEF Define, CInv, loopvars
<1>12. CASE MacroBlock
  <2>1. Reading'
    BY <1>12, SameReading DEF MacroBlock, CInv, Reading
  <2>2. /\ UNCHANGED <<nest, at, assign, conds, pifstack, startmacro, savelevel, startequal,
                       classes, inhead, in_expression>>
        /\ startmacro /\ level' = level + 1 /\ ~misfiled'
    BY <1>12 DEF MacroBlock, LBrace, HeadPlace, CInv, loopvars
  <2>3. savelevel = Inner(nest).depth /\ classes = Inner(nest).classes
    BY <2>2 DEF CInv
  <2> QED BY <2>1, <2>2, <2>3, SameConds
<1>13. CASE MacroClose
  <2>1. classes' = classes /\ level' \in Nat
    BY <1>13 DEF MacroClose, RBrace, WellWritten
  <2>2. Reading'
    BY <1>13, SameReading DEF MacroClose, CInv, Reading
  <2> QED BY <1>13, <2>1, <2>2, SameConds DEF MacroClose, CInv, loopvars
<1>14. CASE MacroAssign
  <2>1. Reading'
    BY <1>14, SameReading DEF MacroAssign, CInv, Reading, WellWritten
  <2> QED BY <1>14, <2>1, SameConds DEF MacroAssign, CInv, WellWritten, loopvars
<1>15. CASE MacroEnd
  <2>1. savelevel \in Nat
    BY <1>15, InnerOK DEF MacroEnd, CInv, Block_
  <2>2. Reading'
    BY <1>15, SameReading DEF MacroEnd, CInv, Reading
  <2> QED BY <1>15, <2>1, <2>2, SameConds DEF MacroEnd, CInv, loopvars
<1>16. CASE \E zero \in BOOLEAN : If(zero)
  <2>1. PICK zero \in BOOLEAN : If(zero)
    BY <1>16
  <2> DEFINE c == [start |-> Here, zero |-> zero, end |-> <<>>]
             f == [start |-> level, end |-> -1, if0only |-> zero]
  <2>2. c \in Conds /\ f \in Pifs
    BY DEF Conds, Pifs
  <2>3. CondOK(c, f)
    <3>1. level = Inner(nest).depth
      BY <2>1 DEF If, CInv, WellWritten
    <3>2. /\ assign => Inner(nest).kind = "initializer" /\ at # "names"
          /\ at # "item" => Inner(nest).kind \notin Looped
      BY <2>1 DEF If, CInv, Reading, Kind, WellWritten
    <3> QED BY <3>1, <3>2 DEF CondOK, Here
  <2>4. conds' = Append(conds, c) /\ pifstack' = Append(pifstack, f)
    BY <2>1 DEF If
  <2> HIDE DEF c, f
  <2>5. conds' \in Seq(Conds) /\ pifstack' \in Seq(Pifs) /\ Len(pifstack') = Len(conds')
    BY <2>2, <2>4
  <2>6. ASSUME NEW i \in 1 .. Len(conds') PROVE CondOK(conds'[i], pifstack'[i])
    <3>1. CASE i \in 1 .. Len(conds)
      <4>1. conds'[i] = conds[i] /\ pifstack'[i] = pifstack[i]
        BY <2>4, <3>1
      <4> QED BY <3>1, <4>1 DEF CInv
    <3>2. CASE i = Len(conds) + 1
      <4>1. conds'[i] = c /\ pifstack'[i] = f
        BY <2>4, <3>2
      <4> QED BY <2>3, <4>1
    <3> QED BY <2>4, <3>1, <3>2
  <2>7. CTypeOK'
    BY <2>1, <2>5 DEF If, CTypeOK, Here, Places, loopvars
  <2>8. Reading'
    BY <2>1, SameReading DEF If
  <2> QED BY <2>1, <2>6, <2>7, <2>8 DEF If, CInv
<1>17. CASE Else
  <2>1. /\ Cond \in Conds /\ Cur \in Pifs /\ CondOK(Cond, Cur) /\ Len(conds) \in 1 .. Len(conds)
        /\ Cond.end \in {<<>>, <<Here>>}
    BY <1>17, InnermostIf DEF Else
  <2>2. level = Inner(nest).depth /\ classes = Inner(nest).classes /\ ~startmacro
    BY <1>17 DEF Else, CInv
  <2> DEFINE c == [Cond EXCEPT !.end = <<Here>>, !.zero = FALSE]
             f == [Cur EXCEPT !.end = IF @ = -1 THEN level ELSE @, !.if0only = FALSE]
  <2>3. c \in Conds /\ f \in Pifs
    <3>1. c \in Conds
      BY <2>1 DEF Conds
    <3> QED BY <2>1, <3>1 DEF Pifs
  <2>4. CondOK(c, f)
    <3>1. /\ c.start = Cond.start /\ c.zero = FALSE /\ c.end = <<Here>>
          /\ f.start = Cur.start /\ f.if0only = FALSE
          /\ f.end = IF Cur.end = -1 THEN level ELSE Cur.end
      BY <2>1 DEF Conds, Pifs
    <3>2. f.end = Inner(Here.nest).depth
      <4>1. CASE Cond.end = <<>>
        BY <2>1, <2>2, <3>1, <4>1 DEF CondOK, Here
      <4>2. CASE Cond.end = <<Here>>
        <5>1. Cur.end = level /\ Cur.end # -1
          BY <2>1, <2>2, <4>2 DEF CondOK, Here
        <5> QED BY <2>2, <3>1, <5>1 DEF Here
      <4> QED BY <2>1, <4>1, <4>2
    <3> HIDE DEF c, f
    <3>3. c.end # <<>> /\ c.end[1] = Here
      BY <3>1
    <3> QED BY <2>1, <3>1, <3>2, <3>3 DEF CondOK
  <2>5. conds' = [conds EXCEPT ![Len(conds)] = c] /\ pifstack' = [pifstack EXCEPT ![Len(conds)] = f]
    BY <1>17 DEF Else, Cond, Cur
  <2> HIDE DEF c, f
  <2>6. /\ conds' \in Seq(Conds) /\ pifstack' \in Seq(Pifs)
        /\ Len(conds') = Len(conds) /\ Len(pifstack') = Len(conds)
    BY <2>1, <2>3, <2>5
  <2>7. ASSUME NEW i \in 1 .. Len(conds') PROVE CondOK(conds'[i], pifstack'[i])
    BY <2>1, <2>4, <2>5, <2>6 DEF CInv
  <2>8. Cond.start \in Places /\ Cur.start = Inner(Cond.start.nest).depth /\ Cur.start \in Nat
    BY <2>1 DEF CondOK, Conds, Pifs
  <2>9. /\ nest' = Cond.start.nest /\ at' = Cond.start.at /\ assign' = Cond.start.assign
        /\ level' = Cur.start
        /\ UNCHANGED <<startmacro, savelevel, startequal, classes, inhead, misfiled, loop, in_expression>>
    BY <1>17 DEF Else, Goto, loopvars
  <2>10. CTypeOK'
    BY <2>6, <2>8, <2>9 DEF CTypeOK, Here, Places
  <2>11. Whole /\ Inner(nest).classes = Inner(Cond.start.nest).classes
    BY <1>17 DEF Else, Whole, WellWritten
  <2>12. (IF startmacro' THEN savelevel' ELSE level') = Inner(nest').depth /\ classes' = Inner(nest').classes
    BY <2>2, <2>8, <2>9, <2>11
  <2>13. Reading' /\ ~misfiled'
    BY <1>17, <2>2, <2>9, <2>11, GoesBack DEF Else, CInv
  <2> QED BY <2>7, <2>10, <2>12, <2>13 DEF CInv
<1>18. CASE Endif
  <2>1. /\ Cond \in Conds /\ Cur \in Pifs /\ CondOK(Cond, Cur) /\ Len(conds) \in 1 .. Len(conds)
        /\ Cond.end \in {<<>>, <<Here>>}
    BY <1>18, InnermostIf DEF Endif
  <2>2. level = Inner(nest).depth /\ classes = Inner(nest).classes /\ ~startmacro
    BY <1>18 DEF Endif, CInv
  <2>3. /\ conds' = Popped(conds) /\ pifstack' = Popped(pifstack) /\ level' = EndifLevel
        /\ UNCHANGED <<startmacro, savelevel, startequal, classes, inhead, misfiled, loop, in_expression>>
    BY <1>18 DEF Endif, loopvars
  <2>4. /\ conds' \in Seq(Conds) /\ pifstack' \in Seq(Pifs)
        /\ Len(conds') = Len(conds) - 1 /\ Len(pifstack') = Len(conds) - 1
        /\ \A i \in 1 .. Len(conds) - 1 : conds'[i] = conds[i] /\ pifstack'[i] = pifstack[i]
    <3>1. conds # <<>> /\ pifstack # <<>>
      BY <1>18 DEF Endif
    <3> QED BY <2>3, <3>1, PoppedSeq
  <2>5. ASSUME NEW i \in 1 .. Len(conds') PROVE CondOK(conds'[i], pifstack'[i])
    <3>1. i \in 1 .. Len(conds) - 1 /\ i \in 1 .. Len(conds)
      BY <2>1, <2>4
    <3> QED BY <2>4, <3>1 DEF CInv
  <2>6. CASE Cond.zero
    <3>1. /\ nest' = Cond.start.nest /\ at' = Cond.start.at /\ assign' = Cond.start.assign
      BY <1>18, <2>6 DEF Endif, Goto
    <3>2. Whole /\ Inner(nest).classes = Inner(Cond.start.nest).classes
      BY <1>18, <2>6 DEF Endif, Whole, WellWritten
    <3>3. /\ Cond.start \in Places /\ level' = Inner(Cond.start.nest).depth /\ level' \in Nat
      BY <2>1, <2>3, <2>6 DEF CondOK, Conds, Pifs, EndifLevel
    <3>4. CTypeOK'
      BY <2>3, <2>4, <3>1, <3>3 DEF CTypeOK, Here, Places
    <3>5. (IF startmacro' THEN savelevel' ELSE level') = Inner(nest').depth /\ classes' = Inner(nest').classes
      BY <2>2, <2>3, <3>1, <3>2, <3>3
    <3>6. Reading' /\ ~misfiled'
      BY <1>18, <2>2, <2>3, <3>1, <3>2, GoesBack DEF Endif, CInv
    <3> QED BY <2>5, <3>4, <3>5, <3>6 DEF CInv
  <2>7. CASE ~Cond.zero
    <3>1. UNCHANGED <<nest, at, assign>>
      BY <1>18, <2>7 DEF Endif
    <3>2. level' = level
      <4>1. CASE Cond.end = <<>>
        BY <2>1, <2>3, <2>7, <4>1 DEF CondOK, EndifLevel
      <4>2. CASE Cond.end = <<Here>>
        BY <2>1, <2>2, <2>3, <2>7, <4>2 DEF CondOK, EndifLevel, Here
      <4> QED BY <2>1, <4>1, <4>2
    <3>3. CTypeOK'
      BY <2>3, <2>4, <3>1, <3>2 DEF CTypeOK, Here, Places
    <3>4. Reading'
      BY <2>2, <2>3, <3>1, SameReading DEF CInv, Reading, loopvars
    <3> QED BY <2>2, <2>3, <2>5, <3>1, <3>2, <3>3, <3>4 DEF CInv
  <2> QED BY <2>6, <2>7
<1>19. CASE \E name \in {"enum", "typedef enum"} : CppEnum(name)
  <2>1. PICK name \in {"enum", "typedef enum"} : CppEnum(name)
    BY <1>19
  <2> DEFINE l == [name |-> name, level |-> level]
  <2>2. /\ Plain /\ ~assign /\ NestedIn(l, "enum") /\ level' = level + 1 /\ loop' = l
        /\ UNCHANGED <<at, assign, conds, pifstack, startmacro, savelevel, startequal, classes,
                       inhead, in_expression, misfiled>>
    BY <2>1, PlainOK DEF CppEnum
  <2>3. l \in Loops /\ LoopFor("enum", l) /\ l.level = level
    BY DEF Loops, LoopFor
  <2> HIDE DEF l
  <2> QED BY <2>2, <2>3, LoopBegins
<1>20. CASE TypedefStruct
  <2> DEFINE l == [name |-> "typedef struct", level |-> level]
  <2>2. /\ Plain /\ ~assign /\ NestedIn(l, "record") /\ level' = level + 1 /\ loop' = l
        /\ UNCHANGED <<at, assign, conds, pifstack, startmacro, savelevel, startequal, classes,
                       inhead, in_expression, misfiled>>
    BY <1>20, PlainOK DEF TypedefStruct
  <2>3. l \in Loops /\ LoopFor("record", l) /\ l.level = level
    BY DEF Loops, LoopFor
  <2> HIDE DEF l
  <2> QED BY <2>2, <2>3, LoopBegins
<1>21. CASE Enumerator
  <2>1. at = "item" /\ ~startmacro
    BY <1>21 DEF Enumerator, Item
  <2>2. ~misfiled'
    BY <1>21 DEF Enumerator, CInv, Reading
  <2>3. Reading'
    BY <1>21, <2>1, SameReading DEF Enumerator
  <2> QED BY <1>21, <2>1, <2>2, <2>3, SameConds DEF Enumerator, CInv, loopvars
<1>22. CASE EnumEqual
  <2>1. Item /\ Kind = "enum" /\ at = "item" /\ ~startmacro /\ ~startequal
    BY <1>22, LoopedOK DEF EnumEqual, Looped
  <2>2. Reading'
    BY <1>22, <2>1, ReadsOn DEF EnumEqual, Looped
  <2> QED BY <1>22, <2>1, <2>2, SameConds DEF EnumEqual, CInv
<1>23. CASE EnumComma
  <2>1. Item /\ Kind \in {"enum", "paren"} /\ at = "item" /\ ~startmacro /\ ~startequal
        /\ (level = loop.level + 1 <=> Kind = "enum")
    <3>1. Item /\ Kind \in {"enum", "paren"} /\ Kind \in Looped
      BY <1>23 DEF EnumComma, Looped
    <3>2. /\ at = "item" /\ ~startmacro /\ ~startequal /\ loop.level \in Nat
          /\ Kind = "enum" => loop.level + 1 = level
          /\ Kind = "paren" => loop.level + 1 < level
      BY <3>1, LoopedOK DEF Loops
    <3> QED BY <3>1, <3>2
  <2>2. in_expression <=> assign
    BY <2>1 DEF CInv, Reading
  <2>3. assign' \in BOOLEAN /\ in_expression' \in BOOLEAN /\ (in_expression' <=> assign')
    BY <1>23, <2>1, <2>2 DEF EnumComma
  <2>4. UNCHANGED <<nest, at, conds, level, pifstack, startmacro, savelevel, startequal, classes,
                   inhead, loop, misfiled>>
    BY <1>23 DEF EnumComma
  <2>5. Reading'
    BY <2>1, <2>3, <2>4, ReadsOn DEF Looped
  <2> QED BY <2>1, <2>3, <2>4, <2>5, SameConds DEF CInv
<1>24. CASE Member
  <2>1. Item /\ Kind \in {"record", "inner"} /\ Kind \in Looped
    BY <1>24 DEF Member, Looped
  <2>2. at = "item" /\ ~startmacro /\ level # loop.level
    <3>1. /\ at = "item" /\ ~startmacro /\ loop.level \in Nat
          /\ loop.level + 1 = level \/ loop.level + 1 < level
      BY <2>1, LoopedOK DEF Loops
    <3> QED BY <3>1
  <2>3. ~misfiled' /\ UNCHANGED <<nest, at, assign, conds, level, pifstack, startmacro, savelevel,
                                  startequal, classes, inhead, loop, in_expression>>
    BY <1>24, <2>2 DEF Member, CInv
  <2>4. Reading'
    BY <2>2, <2>3, SameReading DEF loopvars
  <2> QED BY <2>2, <2>3, <2>4, SameConds DEF CInv
<1>25. CASE LoopOpens
  <2>1. PICK k \in {"inner", "paren"} :
          /\ NestedIn(Inner(nest).loop, k)
          /\ k = "inner" => Kind \in {"record", "inner"}
          /\ k = "paren" => Kind \in {"enum", "paren"} /\ assign
    BY <1>25 DEF LoopOpens
  <2>2. /\ Item /\ Kind \in Looped /\ level' = level + 1
        /\ UNCHANGED <<at, assign, conds, pifstack, startmacro, savelevel, startequal, classes,
                       inhead, misfiled, loop, in_expression>>
    BY <1>25 DEF LoopOpens, Looped, loopvars
  <2>3. /\ loop = Inner(nest).loop /\ loop \in Loops /\ at = "item" /\ ~startmacro /\ ~startequal
        /\ level = Inner(nest).depth /\ classes = Inner(nest).classes
        /\ loop.name \in {"enum", "typedef enum", "typedef struct"}
        /\ loop.level + 1 <= level
    <3>1. /\ Kind \in {"enum", "record"} => loop.level + 1 = level
          /\ Kind \in {"paren", "inner"} => loop.level + 1 < level
          /\ loop \in Loops
      BY <2>2, LoopedOK
    <3>2. loop.level \in Nat
      BY <3>1 DEF Loops
    <3>3. loop.level + 1 <= level
      BY <2>2, <3>1, <3>2 DEF Looped
    <3> QED BY <2>2, <3>3, LoopedOK
  <2>4. LoopOK([kind |-> k, loop |-> Inner(nest).loop,
                depth |-> level + IF k = "namespace" THEN 0 ELSE 1], Inner(nest))
    <3>1. loop.level \in Nat
      BY <2>3 DEF Loops
    <3>2. k = "paren" => Inner(nest).kind \in {"enum", "paren"}
      BY <2>1 DEF Kind
    <3> DEFINE b == [kind |-> k, loop |-> Inner(nest).loop,
                     depth |-> level + IF k = "namespace" THEN 0 ELSE 1]
    <3>3. b.kind = k /\ b.loop = loop /\ b.depth = level + 1
      BY <2>3
    <3> HIDE DEF b
    <3>4. b.loop.level + 1 < b.depth
      <4>1. level \in Nat /\ loop.level + 1 <= level
        BY <2>3, Here_
      <4>2. loop.level + 1 < level + 1
        BY <3>1, <4>1
      <4> QED BY <3>3, <4>2
    <3>5. LoopOK(b, Inner(nest))
      BY <2>3, <3>2, <3>3, <3>4 DEF LoopOK, Looped
    <3> QED BY <3>5 DEF b
  <2>5. /\ nest' \in Nests /\ Inner(nest').kind = k /\ Inner(nest').loop = loop
        /\ Inner(nest').depth = level + 1 /\ Inner(nest').classes = classes
    <3>1. k \in Kinds
      BY DEF Kinds, Looped
    <3> QED BY <2>1, <2>3, <2>4, <3>1, NestedInOK
  <2>6. Reading'
    <3>1. Kind' = k /\ at' = "item" /\ ~startequal' /\ ~startmacro' /\ ~inhead'
      BY <2>2, <2>3, <2>5 DEF Kind, CInv, Reading
    <3>2. Loop(Here)' = loop'
      BY <2>2, <2>5, <3>1 DEF Loop, Here
    <3>3. in_expression' <=> assign' /\ Kind' \in {"enum", "paren"}
      <4>1. CASE k = "paren"
        BY <2>1, <2>2, <3>1, <4>1 DEF CInv, Reading
      <4>2. CASE k = "inner"
        BY <2>1, <2>2, <3>1, <4>2 DEF CInv, Reading
      <4> QED BY <4>1, <4>2
    <3> QED BY <3>1, <3>2, <3>3 DEF Reading
  <2>7. level' \in Nat /\ ~misfiled'
    BY <2>2 DEF CInv
  <2> QED BY <2>2, <2>3, <2>5, <2>6, <2>7, SameConds
<1>26. CASE LoopCloses
  <2>1. Item /\ Kind \in Looped /\ nest' = Popped(nest) /\ level' = level - 1
    BY <1>26 DEF LoopCloses, Looped
  <2>2. /\ loop = Inner(nest).loop /\ loop \in Loops /\ at = "item" /\ ~startmacro /\ ~startequal
        /\ level = Inner(nest).depth /\ classes = Inner(nest).classes /\ nest # <<>>
        /\ loop.name \in {"enum", "typedef enum", "typedef struct"}
        /\ Kind = "enum" => loop.name # "typedef struct"
        /\ Kind = "record" => loop.name = "typedef struct"
    BY <2>1, LoopedOK
  <2>3. /\ nest' \in Nests /\ level' \in Nat
        /\ Inner(nest').depth = level' /\ Inner(nest').classes = classes
        /\ IF Kind \in {"paren", "inner"} THEN Inner(nest').loop = loop
           ELSE Inner(nest').loop = Main
        /\ Kind = "paren" => Inner(nest').kind \in {"enum", "paren"}
    BY <2>1, <2>2, LoopClosed
  <2>4. level' = loop.level <=> Kind \in {"enum", "record"}
    <3>1. /\ Kind \in {"enum", "record"} => loop.level + 1 = level
          /\ Kind \in {"paren", "inner"} => loop.level + 1 < level
          /\ loop.level \in Nat
      BY <2>1, <2>2, LoopedOK DEF Loops
    <3> QED BY <2>1, <3>1 DEF Looped
  <2>5. /\ UNCHANGED <<conds, pifstack, startmacro, savelevel, startequal, classes, inhead, misfiled>>
        /\ loop' = IF Kind \in {"enum", "record"} THEN AfterLoop ELSE loop
        /\ at' = IF Kind = "record" \/ (Kind = "enum" /\ loop.name = "typedef enum")
                 THEN "names" ELSE "item"
        /\ assign' = (assign /\ Kind = "paren")
        /\ in_expression' = (in_expression /\ Kind \notin {"enum", "record"})
    BY <1>26, <2>2, <2>4 DEF LoopCloses
  <2>6. in_expression' = assign' /\ (assign' => Kind = "paren")
    BY <2>5 DEF CInv, Reading
  <2>7. /\ in_expression' <=> assign' /\ Kind' \in {"enum", "paren"}
        /\ ~inhead' /\ ~startmacro' /\ ~startequal'
        /\ at' = "names" => ~assign'
    BY <2>2, <2>3, <2>5, <2>6 DEF Kind, CInv, Reading
  <2>8. at' # "item" => Kind' \notin Looped
    <3>1. at' # "item" => Inner(nest').loop = Main
      BY <2>3, <2>5
    <3> QED BY <2>3, <3>1, InnerLoop DEF Kind
  <2>9. loop' = Loop(Here)'
    <3>1. CASE Kind \in {"paren", "inner"}
      BY <2>3, <2>5, <3>1 DEF Loop, Here
    <3>2. CASE Kind \in {"enum", "record"}
      <4>1. Inner(nest').loop = Main /\ Inner(nest').depth = loop.level
        BY <2>3, <2>4, <3>2
      <4>2. CASE loop.name = "enum"
        <5>1. at' = "item" /\ loop' = Main
          BY <2>2, <2>5, <3>2, <4>2 DEF AfterLoop
        <5> QED BY <4>1, <5>1 DEF Loop, Here
      <4>3. CASE loop.name # "enum"
        <5>1. at' = "names" /\ loop' = [name |-> "names", level |-> loop.level]
          BY <2>2, <2>5, <3>2, <4>3 DEF AfterLoop
        <5> QED BY <4>1, <5>1 DEF Loop, Here
      <4> QED BY <4>2, <4>3
    <3> QED BY <2>1, <3>1, <3>2 DEF Looped
  <2>10. Reading'
    BY <2>7, <2>8, <2>9 DEF Reading
  <2>11. at' \in {"item", "head", "names"} /\ assign' \in BOOLEAN /\ in_expression' \in BOOLEAN
         /\ ~misfiled'
    BY <2>5 DEF CInv
  <2> QED BY <2>2, <2>3, <2>5, <2>10, <2>11, SameConds
<1>27. CASE TypedefType
  <2>1. Kind \notin Looped /\ at = "item" /\ ~startmacro /\ ~in_expression
        /\ level = Inner(nest).depth
    BY <1>27, PlainOK DEF TypedefType
  <2>2. /\ ~assign /\ at' = "names" /\ loop' = [name |-> "names", level |-> level]
        /\ UNCHANGED <<nest, assign, conds, level, pifstack, startmacro, savelevel, startequal,
                       classes, inhead, in_expression, misfiled>>
    BY <1>27 DEF TypedefType
  <2>3. ~startequal /\ ~inhead
    BY <2>1, <2>2 DEF CInv, Reading
  <2>4. loop' = Loop(Here)'
    BY <2>1, <2>2 DEF Loop, Here
  <2>5. Reading'
    BY <2>1, <2>2, <2>3, <2>4 DEF Reading, Kind
  <2> QED BY <2>1, <2>2, <2>5, SameConds DEF CInv
<1>28. CASE \E last \in BOOLEAN : TypedefName(last)
  <2>1. PICK last \in BOOLEAN : TypedefName(last)
    BY <1>28
  <2>2. /\ at = "names" /\ ~assign /\ Kind \notin Looped /\ ~startmacro /\ ~inhead /\ ~startequal
        /\ ~in_expression
    BY <2>1 DEF TypedefName, CInv, Reading
  <2>3. loop = [name |-> "names", level |-> level] /\ level = Inner(nest).depth
        /\ classes = Inner(nest).classes
    BY <2>2 DEF CInv, Reading, Loop, Here
  <2>4. /\ ~misfiled' /\ at' = (IF last THEN "item" ELSE "names")
        /\ loop' = (IF last THEN Main ELSE loop)
        /\ UNCHANGED <<nest, assign, conds, level, pifstack, startmacro, savelevel, startequal,
                       classes, inhead, in_expression>>
    <3>1. loop.name = "names" /\ loop.level = level /\ ~(level > loop.level)
      BY <2>3
    <3> QED BY <2>1, <2>2, <3>1 DEF TypedefName, CInv
  <2>5. Inner(nest).loop = Main
    BY <2>2, InnerLoop DEF Kind
  <2>6. loop' = Loop(Here)'
    BY <2>3, <2>4, <2>5 DEF Loop, Here
  <2>7. Reading'
    BY <2>2, <2>4, <2>6 DEF Reading, Kind
  <2> QED BY <2>2, <2>3, <2>4, <2>7, SameConds
<1> QED BY <1>1, <1>2, <1>3, <1>4, <1>5, <1>6, <1>7, <1>8, <1>9, <1>10, <1>11, <1>12,
           <1>13, <1>14, <1>15, <1>16, <1>17, <1>18, <1>19, <1>20, <1>21, <1>22, <1>23,
           <1>24, <1>25, <1>26, <1>27, <1>28 DEF CppNext

THEOREM CInvHolds == WellWritten => (CppSpec => []CInv)
<1> SUFFICES ASSUME WellWritten PROVE CppSpec => []CInv
  OBVIOUS
<1>1. CInv /\ [CppNext]_cvars => CInv'
  <2>1. CASE UNCHANGED cvars /\ CInv
    <3>1. Reading'
      BY <2>1, SameReading DEF cvars, CInv, Reading, loopvars
    <3> QED BY <2>1, <3>1, Here_, SameConds DEF cvars, CInv, loopvars
  <2> QED BY <2>1, CppNextOK
<1> QED BY <1>1, CppInitOK, PTL DEF CppSpec

(* If no class or head is divided by an #if, no macro closes a class and   *)
(* every assignment in a macro has its semicolon, the level and the class  *)
(* stack of Cpp() are those of the source, in every branch and after every *)
(* macro.                                                                  *)
THEOREM NestingHolds == WellWritten => (CppSpec => []NestingRight)
<1>1. CInv => NestingRight
  BY DEF CInv, NestingRight
<1> QED BY <1>1, CInvHolds, PTL

(* Then Cpp() records every function that is defined in a namespace or a   *)
(* class as defined, and takes no call or macro for one.                   *)
THEOREM DefsHold == WellWritten => (CppSpec => []DefsRight)
<1>1. CInv => DefsRight
  BY DEF CInv, DefsRight
<1> QED BY <1>1, CInvHolds, PTL
-----------------------------------------------------------------------------
(* Plug-in parsers                                                         *)
-----------------------------------------------------------------------------
(* Nothing is left of an earlier request. *)
Quiet(l) == request[l] = <<>> /\ reply[l] = <<>> /\ child[l] # "busy"

(* The answer for src, as far as it has come: lines about src, and only    *)
(* when the request is answered the terminator, at the end.  What gtags    *)
(* has put, what is in the pipe and what is to be printed add up.          *)
Answering(l) ==
    /\ request[l] \in {<<>>, <<src>>}
    /\ \A i \in 1 .. Len(reply[l]) : reply[l][i] \in {src, Bad, Term}
    /\ child[l] = "busy" =>
         request[l] = <<src>> /\ tags[src] + Len(reply[l]) + left[l] = lines[src]
    /\ request[l] = <<src>> /\ child[l] \notin {"busy", "ended"} =>
         reply[l] = <<>> /\ tags[src] = 0
    /\ request[l] = <<src>> => \A i \in 1 .. Len(reply[l]) : reply[l][i] # Term
    /\ request[l] = <<>> =>
         /\ child[l] # "busy"
         /\ reply[l] # <<>> /\ tags[src] + Len(reply[l]) = lines[src] + 1
         /\ \A i \in 1 .. Len(reply[l]) : reply[l][i] = Term <=> i = Len(reply[l])

Turn ==
    /\ \A l \in Lib : child[l] = "busy" => request[l] # <<>>
    /\ act \in {"idle", "ask"} => \A l \in Lib : Quiet(l)
    /\ act \in {"ask", "read"} => src \notin parsed
    /\ act = "read" => Answering(lib) /\ \A l \in Lib \ {lib} : Quiet(l)

(* The invariant. *)
IInv == PTypeOK /\ RepliesRight /\ Turn

LEMMA TermIsNoFile == Term \notin Src /\ Bad \notin Src /\ Term # Bad /\ "gtags" \notin Lib
  BY PluginsAssumption DEF PluginsAssumption

(* A sequence is empty if and only if its length is zero. *)
LEMMA EmptyLen ==
    ASSUME NEW S, NEW s \in Seq(S) PROVE s = <<>> <=> Len(s) = 0
  OBVIOUS

LEMMA InitIInv == PluginsInit => IInv
<1> SUFFICES ASSUME PluginsInit PROVE IInv
  OBVIOUS
<1>1. PTypeOK
  <2>1. <<>> \in Seq(Src) /\ <<>> \in Seq(Src \cup {Term, Bad})
    OBVIOUS
  <2>3. 0 \in 0 .. MaxLines /\ 0 \in Nat
    <3>1. MaxLines \in Nat  BY PluginsAssumption, Zenon DEF PluginsAssumption
    <3> QED  BY <3>1
  <2>2. plugins \in Seq([lang : {LangOf[f] : f \in Src}, lib : Lib])
    BY PluginsAssumption DEF PluginsAssumption, PluginsInit
  <2> QED  BY <2>1, <2>2, <2>3 DEF PluginsInit, PTypeOK
<1>2. RepliesRight
  BY DEF PluginsInit, RepliesRight
<1>3. Turn
  BY DEF PluginsInit, Turn, Quiet
<1> QED
  BY <1>1, <1>2, <1>3 DEF IInv

(* The first entry for a language has a library.                           *)
LEMMA ParserIsLib ==
    ASSUME PTypeOK, NEW f \in Src PROVE ParserOf(f) \subseteq Lib
<1> DEFINE entries == {i \in 1 .. Len(plugins) : plugins[i].lang = LangOf[f]}
<1>1. \A i \in 1 .. Len(plugins) : plugins[i].lib \in Lib
  <2> DEFINE E == [lang : {LangOf[g] : g \in Src}, lib : Lib]
  <2>1. plugins \in Seq(E)  BY DEF PTypeOK
  <2>2. \A e \in E : e.lib \in Lib  OBVIOUS
  <2> HIDE DEF E
  <2>3. \A i \in 1 .. Len(plugins) : plugins[i] \in E  BY <2>1
  <2> QED  BY <2>2, <2>3
<1>2. ParserOf(f) = {plugins[i].lib : i \in {j \in entries : \A k \in entries : j <= k}}
  BY DEF ParserOf
<1>3. \A i \in {j \in entries : \A k \in entries : j <= k} : i \in 1 .. Len(plugins)
  OBVIOUS
<1> HIDE DEF entries
<1> QED  BY <1>1, <1>2, <1>3

LEMMA DiesList ==
    ASSUME PTypeOK, Dies
    PROVE  plugins' \in Seq([lang : {LangOf[f] : f \in Src}, lib : Lib]) /\ act' = "exit"
<1> DEFINE E == [lang : {LangOf[f] : f \in Src}, lib : Lib]
<1>1. plugins \in Seq(E) /\ Len(plugins) \in Nat  BY DEF PTypeOK
<1>2. plugins' \in [1 .. Len(plugins) -> {plugins[i] : i \in 1 .. Len(plugins)}]  BY DEF Dies
<1> HIDE DEF E
<1>3. {plugins[i] : i \in 1 .. Len(plugins)} \subseteq E
  <2>1. \A i \in 1 .. Len(plugins) : plugins[i] \in E  BY <1>1
  <2> QED  BY <2>1
<1>4. plugins' \in [1 .. Len(plugins) -> E]  BY <1>2, <1>3
<1>5. plugins' \in Seq(E)  BY <1>1, <1>4
<1> QED  BY <1>5 DEF Dies, E

(* Steps of gtags.                                                         *)
LEMMA GtagsStepInv ==
    ASSUME IInv, PGtagsStep
    PROVE  IInv'
<1> USE DEF IInv
<1>1. ASSUME NEW f \in Src, ParseFile(f) PROVE IInv'
  <2>1. lib' \in Lib /\ src' = f /\ f \notin parsed /\ act = "idle" /\ act' = "ask"
    BY <1>1, ParserIsLib DEF ParseFile
  <2>2. /\ child' \in [Lib -> {"none", "forked", "ready", "busy", "ended"}]
        /\ pends' \subseteq PEnd
        /\ \A l \in Lib : child'[l] # "busy"
    <3>1. CASE UNCHANGED <<child, pends>>
      BY <2>1, <3>1 DEF PTypeOK, Turn, Quiet
    <3>2. CASE Started(lib')
      <4>1. child' = [child EXCEPT ![lib'] = "forked"]  BY <3>2 DEF Started
      <4>2. pends' \subseteq PEnd
        <5>1. Own("gtags", lib', NearEnds) \cup Own(lib', lib', NearEnds \cup FarEnds) \subseteq PEnd
          BY <2>1 DEF Own, NearEnds, FarEnds, PEnd
        <5>2. {[e EXCEPT !.proc = lib'] : e \in Held("gtags")} \subseteq PEnd
          <6>1. \A e \in Held("gtags") : e \in PEnd
            BY DEF Held, PTypeOK
          <6>2. \A e \in PEnd : [e EXCEPT !.proc = lib'] \in PEnd
            BY <2>1 DEF PEnd
          <6> QED BY <6>1, <6>2
        <5>3. pends' = pends \cup Own("gtags", lib', NearEnds)
                        \cup Own(lib', lib', NearEnds \cup FarEnds)
                        \cup {[e EXCEPT !.proc = lib'] : e \in Held("gtags")}
          BY <3>2 DEF Started
        <5>4. pends \subseteq PEnd  BY DEF PTypeOK
        <5> QED  BY <5>1, <5>2, <5>3, <5>4
      <4> QED  BY <2>1, <4>1, <4>2 DEF PTypeOK, Turn, Quiet
    <3> QED  BY <1>1, <3>1, <3>2 DEF ParseFile
  <2>3. UNCHANGED <<setup, plugins>> /\ UNCHANGED pdata
    BY <1>1 DEF ParseFile
  <2>4. PTypeOK'
    BY <2>1, <2>2, <2>3 DEF PTypeOK, pdata
  <2>5. RepliesRight'
    BY <2>1, <2>3 DEF RepliesRight, pdata
  <2>6. Turn'
    BY <2>1, <2>2, <2>3 DEF Turn, Quiet, pdata
  <2> QED  BY <2>4, <2>5, <2>6
<1>2. CASE Ask
  <2>1. /\ act = "ask" /\ act' = "read" /\ request' = [request EXCEPT ![lib] = Append(@, src)]
        /\ UNCHANGED <<setup, plugins, src, lib, parsed, lines, tags, child, pends, reply, left>>
    BY <1>2 DEF Ask, Sent
  <2>2. src \in Src /\ lib \in Lib /\ request[lib] = <<>> /\ reply[lib] = <<>> /\ child[lib] # "busy"
    BY <2>1 DEF PTypeOK, Turn, Quiet
  <2>3. request'[lib] = <<src>> /\ \A l \in Lib \ {lib} : request'[l] = request[l]
    BY <2>1, <2>2 DEF PTypeOK
  <2>4. PTypeOK'
    BY <2>1, <2>2 DEF PTypeOK
  <2>5. RepliesRight'
    BY <2>1 DEF RepliesRight
  <2>6. tags[src] = 0 /\ src \notin parsed
    BY <2>1, <2>2 DEF RepliesRight, Turn
  <2>7. Answering(lib)'
    BY <2>1, <2>2, <2>3, <2>6 DEF Answering
  <2>8. Turn'
    BY <2>1, <2>3, <2>6, <2>7 DEF Turn, Quiet
  <2> QED  BY <2>4, <2>5, <2>8
<1>3. ASSUME ReadLine \/ ReadTerm PROVE IInv'
  <2> DEFINE r == reply[lib]
  <2>1. /\ act = "read" /\ r # <<>> /\ reply' = [reply EXCEPT ![lib] = Tail(@)]
        /\ UNCHANGED <<setup, plugins, src, lib, lines, child, pends, request, left>>
    BY <1>3 DEF ReadLine, ReadTerm
  <2>2. /\ src \in Src /\ lib \in Lib /\ src \notin parsed /\ Answering(lib)
        /\ \A l \in Lib \ {lib} : Quiet(l)
        /\ r \in Seq(Src \cup {Term, Bad}) /\ tags[src] \in Nat /\ lines[src] \in Nat
    BY <2>1, PluginsAssumption DEF PTypeOK, Turn, PluginsAssumption
  <2>3. /\ Len(r) \in Nat \ {0} /\ Tail(r) \in Seq(Src \cup {Term, Bad}) /\ Len(Tail(r)) = Len(r) - 1
        /\ \A i \in 1 .. Len(Tail(r)) : Tail(r)[i] = r[i + 1] /\ i + 1 \in 1 .. Len(r)
        /\ Head(r) = r[1] /\ 1 \in 1 .. Len(r)
    BY <2>1, <2>2
  <2>4. reply'[lib] = Tail(r) /\ \A l \in Lib \ {lib} : reply'[l] = reply[l]
    BY <2>1, <2>2 DEF PTypeOK
  <2>5. reply' \in [Lib -> Seq(Src \cup {Term, Bad})]
    BY <2>1, <2>3 DEF PTypeOK
  <2>6. CASE ReadLine
    <3>1. Head(r) = src
      BY <2>2, <2>3, <2>6, TermIsNoFile DEF ReadLine, Answering
    <3>2. tags' = [tags EXCEPT ![src] = @ + 1] /\ act' = act /\ parsed' = parsed
      BY <2>6, <3>1 DEF ReadLine, PutLine
    <3>3. tags'[src] = tags[src] + 1 /\ \A f \in Src \ {src} : tags'[f] = tags[f]
      BY <2>2, <3>2 DEF PTypeOK
    <3>4. PTypeOK'
      BY <2>1, <2>2, <2>5, <3>2 DEF PTypeOK
    <3>5. RepliesRight'
      BY <2>1, <2>2, <3>2, <3>3 DEF RepliesRight, PTypeOK
    <3>6. Answering(lib)'
      <4>1. request[lib] = <<>> => Len(r) > 1
        BY <2>2, <2>3, <3>1, TermIsNoFile DEF Answering
      <4>2. CASE request[lib] = <<>>
        <5>1. /\ child[lib] # "busy"
              /\ tags[src] + Len(r) = lines[src] + 1
              /\ \A i \in 1 .. Len(r) : r[i] = Term <=> i = Len(r)
              /\ \A i \in 1 .. Len(r) : r[i] \in {src, Bad, Term}
          BY <2>2, <4>2 DEF Answering
        <5>2. tags[src] + 1 + Len(Tail(r)) = lines[src] + 1
          BY <2>2, <2>3, <5>1
        <5>3. \A i \in 1 .. Len(Tail(r)) : Tail(r)[i] = Term <=> i = Len(Tail(r))
          BY <2>3, <5>1
        <5>4. Tail(r) # <<>>
          <6>1. Len(Tail(r)) # 0
            <7>1. Len(r) > 1  BY <4>1, <4>2
            <7> HIDE DEF r
            <7> QED  BY <2>3, <7>1
          <6>2. Tail(r) = <<>> <=> Len(Tail(r)) = 0  BY <2>3, EmptyLen, Zenon
          <6> QED  BY <6>1, <6>2
        <5>5. \A i \in 1 .. Len(Tail(r)) : Tail(r)[i] \in {src, Bad, Term}
          BY <2>3, <5>1
        <5>6. request'[lib] = <<>> /\ <<src>> # <<>>  BY <2>1, <4>2
        <5> HIDE DEF r
        <5> QED  BY <2>1, <2>4, <3>3, <5>1, <5>2, <5>3, <5>4, <5>5, <5>6 DEF Answering
      <4>3. CASE request[lib] = <<src>>
        <5>1. /\ child[lib] = "busy" => tags[src] + Len(r) + left[lib] = lines[src]
              /\ child[lib] \in {"busy", "ended"}
              /\ \A i \in 1 .. Len(r) : r[i] # Term
              /\ \A i \in 1 .. Len(r) : r[i] \in {src, Bad, Term}
          BY <2>1, <2>2, <4>3 DEF Answering
        <5>2. child[lib] = "busy" => tags[src] + 1 + Len(Tail(r)) + left[lib] = lines[src]
          BY <2>2, <2>3, <5>1 DEF PTypeOK
        <5>3. \A i \in 1 .. Len(Tail(r)) : Tail(r)[i] # Term /\ Tail(r)[i] \in {src, Bad, Term}
          BY <2>3, <5>1
        <5>6. request'[lib] = <<src>> /\ <<src>> # <<>>  BY <2>1, <4>3
        <5> HIDE DEF r
        <5> QED  BY <2>1, <2>4, <3>3, <5>1, <5>2, <5>3, <5>6 DEF Answering
      <4> QED  BY <2>2, <4>2, <4>3 DEF Answering
    <3>7. Turn'
      BY <2>1, <2>2, <2>4, <3>2, <3>6 DEF Turn, Quiet
    <3> QED  BY <3>4, <3>5, <3>7
  <2>7. CASE ReadTerm
    <3>1. Head(r) = Term /\ act' = "idle" /\ parsed' = parsed \cup {src} /\ tags' = tags
      BY <2>7 DEF ReadTerm
    <3>2. request[lib] = <<>>
      BY <2>2, <2>3, <3>1 DEF Answering
    <3>3. Len(r) = 1 /\ tags[src] = lines[src] /\ child[lib] # "busy"
      <4>1. /\ child[lib] # "busy" /\ tags[src] + Len(r) = lines[src] + 1
            /\ \A i \in 1 .. Len(r) : r[i] = Term <=> i = Len(r)
        BY <2>2, <3>2 DEF Answering
      <4>2. Len(r) = 1  BY <2>3, <3>1, <4>1
      <4> QED  BY <2>2, <4>1, <4>2
    <3>4. reply'[lib] = <<>>
      <4>1. Len(Tail(r)) = 0  BY <2>3, <3>3
      <4>2. Tail(r) = <<>> <=> Len(Tail(r)) = 0  BY <2>3, EmptyLen, Zenon
      <4> QED  BY <2>4, <4>1, <4>2
    <3>5. PTypeOK'
      BY <2>1, <2>2, <2>5, <3>1 DEF PTypeOK
    <3>6. RepliesRight'
      BY <2>1, <3>1, <3>3 DEF RepliesRight
    <3>7. \A l \in Lib : Quiet(l)'
      BY <2>1, <2>2, <2>4, <3>2, <3>3, <3>4 DEF Quiet
    <3>8. Turn'
      BY <2>1, <3>1, <3>7 DEF Turn, Quiet
    <3> QED  BY <3>5, <3>6, <3>8
  <2> QED  BY <1>3, <2>6, <2>7
<1>4. ASSUME AskSigPipe \/ ExitDone PROVE IInv'
  BY <1>4 DEF AskSigPipe, ExitDone, AllClosed, PTypeOK, RepliesRight, Turn, pdata
<1>5. ASSUME ReadBad \/ ReadEof PROVE IInv'
  <2>1. /\ act' = "exit" /\ plugins' \in Seq([lang : {LangOf[f] : f \in Src}, lib : Lib])
        /\ act = "read"
        /\ UNCHANGED <<setup, src, lib, child, pends>> /\ UNCHANGED pdata
    BY <1>5, DiesList DEF ReadBad, ReadEof, AtEof
  <2> QED  BY <2>1 DEF PTypeOK, RepliesRight, Turn, pdata
<1>6. ASSUME ParserExit \/ Reap PROVE IInv'
  BY <1>6 DEF ParserExit, Reap, PTypeOK, RepliesRight, Turn, pdata
<1>7. CASE Unload
  <2>1. /\ act = "exit" /\ act' \in {"exit", "wait"} /\ lib' \in Lib
        /\ plugins' \in Seq([lang : {LangOf[f] : f \in Src}, lib : Lib])
        /\ pends' \subseteq pends
        /\ UNCHANGED <<setup, src, child>> /\ UNCHANGED pdata
    <3> DEFINE E == [lang : {LangOf[f] : f \in Src}, lib : Lib]
    <3>1. plugins \in Seq(E) /\ plugins # <<>> /\ \A e \in E : e.lib \in Lib
      BY <1>7 DEF Unload, PTypeOK
    <3> HIDE DEF E
    <3>2. Tail(plugins) \in Seq(E) /\ Head(plugins) \in E  BY <3>1
    <3>3. lib' \in Lib /\ pends' \subseteq pends /\ act' \in {"exit", "wait"}
      BY <1>7, <3>1, <3>2 DEF Unload, PTypeOK
    <3> QED  BY <1>7, <3>2, <3>3 DEF Unload, E
  <2> QED  BY <2>1 DEF PTypeOK, RepliesRight, Turn, pdata
<1> QED
  BY <1>1, <1>2, <1>3, <1>4, <1>5, <1>6, <1>7 DEF PGtagsStep

(* Steps of a program. *)
LEMMA ChildStepInv ==
    ASSUME IInv, NEW l \in Lib, ChildStep(l) \/ ChildFails(l)
    PROVE  IInv'
<1> USE DEF IInv
<1>1. ASSUME ChildExecs(l) PROVE IInv'
  <2>1. /\ child[l] = "forked" /\ child' = [child EXCEPT ![l] = "ready"] /\ pends' \subseteq pends
        /\ UNCHANGED <<setup, plugins, act, src, lib>> /\ UNCHANGED pdata
    BY <1>1 DEF ChildExecs
  <2>2. PTypeOK' /\ RepliesRight'
    BY <2>1 DEF PTypeOK, RepliesRight, pdata
  <2>3. Turn'
    BY <2>1 DEF Turn, Quiet, Answering, PTypeOK, pdata
  <2> QED  BY <2>2, <2>3
<1>2. ASSUME ChildTakes(l) PROVE IInv'
  <2>1. /\ child[l] = "ready" /\ request[l] # <<>> /\ child' = [child EXCEPT ![l] = "busy"]
        /\ left' = [left EXCEPT ![l] = lines[Head(request[l])]]
        /\ UNCHANGED <<setup, plugins, act, src, lib, parsed, lines, tags, pends, request, reply>>
    BY <1>2 DEF ChildTakes
  <2>2. PTypeOK'
    <3>1. request[l] \in Seq(Src)
      BY DEF PTypeOK
    <3>2. Head(request[l]) \in Src
      BY <2>1, <3>1
    <3>3. lines[Head(request[l])] \in 0 .. MaxLines
      BY <3>2 DEF PTypeOK
    <3>4. left' \in [Lib -> 0 .. MaxLines]
      BY <2>1, <3>3 DEF PTypeOK
    <3>5. child' \in [Lib -> {"none", "forked", "ready", "busy", "ended"}]
      BY <2>1 DEF PTypeOK
    <3> QED BY <2>1, <3>4, <3>5 DEF PTypeOK
  <2>3. RepliesRight'
    BY <2>1 DEF RepliesRight
  <2>4. CASE act = "read"
    <3>1. l = lib /\ Answering(l) /\ src \in Src
      BY <2>1, <2>4 DEF Turn, Quiet, PTypeOK
    <3>2. request[l] = <<src>> /\ reply[l] = <<>> /\ tags[src] = 0
      BY <2>1, <3>1 DEF Answering
    <3>3. left'[l] = lines[src] /\ child'[l] = "busy" /\ lines[src] \in Nat
      BY <2>1, <3>1, <3>2, PluginsAssumption DEF PTypeOK, PluginsAssumption
    <3>4. Answering(lib)'
      BY <2>1, <3>1, <3>2, <3>3 DEF Answering
    <3> QED  BY <2>1, <2>2, <2>3, <2>4, <3>1, <3>4 DEF Turn, Quiet, PTypeOK
  <2>5. CASE act # "read"
    BY <2>1, <2>2, <2>3, <2>5 DEF Turn, Quiet
  <2> QED  BY <2>4, <2>5
<1>3. ASSUME ChildPrints(l) PROVE IInv'
  <2>1. PICK x \in {Head(request[l])} \cup {Bad} :
          /\ left[l] > 0 /\ child[l] = "busy"
          /\ reply' = [reply EXCEPT ![l] = Append(@, x)]
          /\ left' = [left EXCEPT ![l] = @ - 1]
          /\ UNCHANGED <<setup, plugins, act, src, lib, parsed, lines, tags, pends, child, request>>
    BY <1>3 DEF ChildPrints, Prints
  <2>2. RepliesRight'
    BY <2>1 DEF RepliesRight
  <2>3. CASE act = "read"
    <3>1. l = lib /\ Answering(l) /\ src \in Src
      BY <2>1, <2>3 DEF Turn, Quiet, PTypeOK
    <3>2. /\ request[l] = <<src>> /\ x \in {src, Bad} /\ tags[src] + Len(reply[l]) + left[l] = lines[src]
          /\ \A i \in 1 .. Len(reply[l]) : reply[l][i] # Term /\ reply[l][i] \in {src, Bad, Term}
      BY <2>1, <3>1 DEF Answering
    <3>3. /\ reply'[l] = Append(reply[l], x) /\ Len(reply'[l]) = Len(reply[l]) + 1
          /\ Len(reply[l]) \in Nat
          /\ \A i \in 1 .. Len(reply[l]) : reply'[l][i] = reply[l][i]
          /\ reply'[l][Len(reply[l]) + 1] = x
      BY <2>1 DEF PTypeOK
    <3>8. left'[l] = left[l] - 1 /\ left[l] \in Nat /\ left[l] - 1 \in 0 .. MaxLines
      BY <2>1, PluginsAssumption DEF PTypeOK, PluginsAssumption
    <3>4. PTypeOK'
      <4>1. Append(reply[l], x) \in Seq(Src \cup {Term, Bad})
        BY <3>1, <3>2 DEF PTypeOK
      <4> QED  BY <2>1, <3>8, <4>1 DEF PTypeOK
    <3>5. tags[src] + Len(reply'[l]) + left'[l] = lines[src]
      BY <3>1, <3>2, <3>3, <3>8 DEF PTypeOK
    <3>6. \A i \in 1 .. Len(reply'[l]) : reply'[l][i] # Term /\ reply'[l][i] \in {src, Bad, Term}
      BY <3>1, <3>2, <3>3, TermIsNoFile
    <3>7. Answering(lib)'
      BY <2>1, <3>1, <3>2, <3>5, <3>6 DEF Answering
    <3> QED  BY <2>1, <2>2, <2>3, <3>1, <3>4, <3>7 DEF Turn, Quiet, PTypeOK
  <2>4. CASE act # "read"
    <3>1. request[l] \in Seq(Src) /\ request[l] # <<>> /\ reply[l] \in Seq(Src \cup {Term, Bad})
      BY <2>1 DEF PTypeOK, Turn
    <3>2. x \in Src \cup {Term, Bad}
      BY <2>1, <3>1
    <3>3. left[l] - 1 \in 0 .. MaxLines
      BY <2>1, PluginsAssumption DEF PTypeOK, PluginsAssumption
    <3>4. PTypeOK'
      <4>1. Append(reply[l], x) \in Seq(Src \cup {Term, Bad})  BY <3>1, <3>2
      <4> QED  BY <2>1, <3>3, <4>1 DEF PTypeOK
    <3> QED  BY <2>1, <2>2, <2>4, <3>4 DEF Turn, Quiet
  <2> QED  BY <2>3, <2>4
<1>4. ASSUME ChildEndsReply(l) PROVE IInv'
  <2>1. /\ left[l] = 0 /\ child[l] = "busy"
        /\ reply' = [reply EXCEPT ![l] = Append(@, Term)]
        /\ child' = [child EXCEPT ![l] = "ready"]
        /\ request' = [request EXCEPT ![l] = Tail(@)]
        /\ UNCHANGED <<setup, plugins, act, src, lib, parsed, lines, tags, pends, left>>
    BY <1>4 DEF ChildEndsReply, Prints
  <2>2. RepliesRight'
    BY <2>1 DEF RepliesRight
  <2>3. PTypeOK'
    <3>1. request[l] \in Seq(Src) /\ request[l] # <<>> /\ reply[l] \in Seq(Src \cup {Term, Bad})
      BY <2>1 DEF PTypeOK, Turn
    <3>2. Tail(request[l]) \in Seq(Src) /\ Append(reply[l], Term) \in Seq(Src \cup {Term, Bad})
      BY <3>1
    <3> QED  BY <2>1, <3>2 DEF PTypeOK
  <2>4. CASE act = "read"
    <3>1. l = lib /\ Answering(l) /\ src \in Src
      BY <2>1, <2>4 DEF Turn, Quiet, PTypeOK
    <3>2. /\ request[l] = <<src>> /\ tags[src] + Len(reply[l]) = lines[src]
          /\ \A i \in 1 .. Len(reply[l]) : reply[l][i] # Term /\ reply[l][i] \in {src, Bad, Term}
          /\ Len(reply[l]) \in Nat /\ tags[src] \in Nat
      BY <2>1, <3>1 DEF Answering, PTypeOK
    <3>3. /\ reply'[l] = Append(reply[l], Term) /\ Len(reply'[l]) = Len(reply[l]) + 1
          /\ \A i \in 1 .. Len(reply[l]) : reply'[l][i] = reply[l][i]
          /\ reply'[l][Len(reply[l]) + 1] = Term
          /\ request'[l] = <<>> /\ child'[l] = "ready"
      BY <2>1, <3>2 DEF PTypeOK
    <3>4. \A i \in 1 .. Len(reply'[l]) :
             /\ reply'[l][i] \in {src, Bad, Term}
             /\ reply'[l][i] = Term <=> i = Len(reply'[l])
      BY <3>2, <3>3
    <3>5. reply'[l] # <<>> /\ tags[src] + Len(reply'[l]) = lines[src] + 1
      <4>1. reply'[l] \in Seq(Src \cup {Term, Bad})  BY <2>3 DEF PTypeOK
      <4>2. reply'[l] = <<>> <=> Len(reply'[l]) = 0  BY <4>1, EmptyLen, Zenon
      <4> QED  BY <3>2, <3>3, <4>2
    <3>6. Answering(lib)'
      BY <2>1, <3>1, <3>3, <3>4, <3>5 DEF Answering
    <3> QED  BY <2>1, <2>2, <2>3, <2>4, <3>1, <3>6 DEF Turn, Quiet, PTypeOK
  <2>5. CASE act # "read"
    BY <2>1, <2>2, <2>3, <2>5 DEF Turn, Quiet, PTypeOK
  <2> QED  BY <2>4, <2>5
<1>5. ASSUME ChildEnds(l) PROVE IInv'
  <2>1. /\ child' = [child EXCEPT ![l] = "ended"] /\ pends' \subseteq pends
        /\ UNCHANGED <<setup, plugins, act, src, lib>> /\ UNCHANGED pdata
    BY <1>5 DEF ChildEnds, AllClosed
  <2>2. PTypeOK' /\ RepliesRight'
    BY <2>1 DEF PTypeOK, RepliesRight, pdata
  <2>3. Turn'
    BY <2>1 DEF Turn, Quiet, Answering, PTypeOK, pdata
  <2> QED  BY <2>2, <2>3
<1> QED
  BY <1>1, <1>2, <1>3, <1>4, <1>5 DEF ChildStep, ChildEof, ChildSigPipe, ChildFails

(* In every run, also with programs that break off in the middle of an     *)
(* answer, a file that parse_file is done with has exactly the tags that   *)
(* its program found in it.                                                *)
THEOREM RepliesRightHolds == PluginsSpec => []PTypeOK /\ []RepliesRight
<1>1. PluginsInit => IInv
  BY InitIInv
<1>2. IInv /\ [PluginsNext]_pvars => IInv'
  <2> SUFFICES ASSUME IInv, [PluginsNext]_pvars PROVE IInv'
    OBVIOUS
  <2>1. CASE PGtagsStep
    BY <2>1, GtagsStepInv
  <2>2. ASSUME NEW l \in Lib, ChildStep(l) \/ ChildFails(l) PROVE IInv'
    BY <2>2, ChildStepInv
  <2>3. CASE KilledByUser
    BY <2>3 DEF KilledByUser, AllClosed, IInv, PTypeOK, RepliesRight, Turn, pdata
  <2>4. CASE UNCHANGED pvars
    BY <2>4 DEF IInv, PTypeOK, RepliesRight, Turn, Quiet, Answering, pvars
  <2> QED
    BY <2>1, <2>2, <2>3, <2>4 DEF PluginsNext, PFinished
<1>3. IInv => PTypeOK /\ RepliesRight
  BY DEF IInv
<1> QED
  BY <1>1, <1>2, <1>3, PTL DEF PluginsSpec
=============================================================================
