----------------------------- MODULE CppParser -----------------------------
(***************************************************************************)
(* The built-in C++ parser (Cpp.c), which tells the heads of functions     *)
(* from calls by the level of braces, over sources that nest blocks,       *)
(* #if branches and macros in every way.                                   *)
(*                                                                         *)
(* The source is written and parsed item by item.  What it means is kept   *)
(* beside the state of the parser, which sees every branch of an #if and   *)
(* knows of a block only that it has a brace.  Lists of enumerators, the   *)
(* structure of a typedef and its names are read by loops of their own,    *)
(* which count the levels in their own ways.                               *)
(***************************************************************************)
EXTENDS Integers, Sequences

CONSTANTS
    MaxNest,    \* bound on open blocks and conditionals, together
    MaxIf,      \* bound on open conditionals
    MaxMacro,   \* bound on the braces that a macro opens, or closes, too many
    Splits,     \* whether #if may divide classes, the heads of functions and
                \* the expressions of enumerators, and macros may close classes
    BareAssign  \* whether a macro may assign without a semicolon

ASSUME CppAssumption ==
    /\ MaxNest \in Nat /\ MaxIf \in Nat /\ MaxMacro \in Nat
    /\ Splits \in BOOLEAN /\ BareAssign \in BOOLEAN

VARIABLES
    nest,      \* the source: the blocks that are open,
    at,        \* whether it is between items, among the names of a typedef,
               \* or after a head (lost: one that the parser did not take
               \* for a head),
    assign,    \* and after an equal sign,
    conds,     \* the conditionals that are open,
    mnet,      \* the braces that a macro has opened
    level, namespacelevel, pifstack, startmacro, savelevel, startequal,
    classes,   \* stack: the levels of the classes
    inhead,    \* the parser is in function_definition
    loop,      \* the loop that reads tokens, and the level where it began
    in_expression,
    misfiled   \* history: a definition was not recorded as one, or a call was

cvars == <<nest, at, assign, conds, mnet, level, namespacelevel, pifstack,
           startmacro, savelevel, startequal, classes, inhead, loop,
           in_expression, misfiled>>
loopvars == <<loop, in_expression>>

Main == [name |-> "main", level |-> 0]

(* A block knows what encloses it: the braces, its own included but for    *)
(* those of namespaces, at which of them a class begins, and which loop is *)
(* to read it.                                                             *)
Outside == [kind |-> "namespace", depth |-> 0, classes |-> <<>>, loop |-> Main]
TopOf(s, none) == IF s = <<>> THEN none ELSE s[Len(s)]
Popped(s) == SubSeq(s, 1, Len(s) - 1)

Inner(n) == TopOf(n, Outside)
Kind == Inner(nest).kind

NestedIn(l, k) ==
    LET depth == Inner(nest).depth + IF k = "namespace" THEN 0 ELSE 1
    IN  /\ Len(nest) + Len(conds) < MaxNest
        /\ nest' = Append(nest, [kind |-> k, depth |-> depth, loop |-> l,
                        classes |-> IF k = "class" THEN Append(Inner(nest).classes, depth)
                                    ELSE Inner(nest).classes])
Nested(k) == NestedIn(Main, k)

Item == at = "item" /\ ~startmacro
Plain == Item /\ Kind \in {"namespace", "class", "function"}
ClassLevel == TopOf(classes, 0)
-----------------------------------------------------------------------------
(* Where a name with a parenthesis may be the head of a function *)
HeadPlace == level = ClassLevel /\ ~startequal /\ ~startmacro

(* case '{' *)
LBrace == level' = level + 1 /\ UNCHANGED namespacelevel

(* Variant of the next operator with a bug: the end of a class is missed.  *)
RBraceInClass ==
    /\ level' = IF level > 0 THEN level - 1 ELSE 0
    /\ namespacelevel' = IF level = 0 /\ namespacelevel > 0 THEN namespacelevel - 1
                         ELSE namespacelevel
    /\ classes' = classes

(* case '}': a brace too many closes a namespace. *)
RBrace ==
    /\ level' = IF level > 0 THEN level - 1 ELSE 0
    /\ namespacelevel' = IF level = 0 /\ namespacelevel > 0 THEN namespacelevel - 1
                         ELSE namespacelevel
    /\ classes' = IF level' < ClassLevel THEN Popped(classes) ELSE classes

(* namespace and extern "C" *)
CppNamespace ==
    /\ Item /\ ~assign /\ Kind = "namespace"
    /\ conds = <<>> /\ Nested("namespace")
    /\ namespacelevel' = namespacelevel + 1
    /\ UNCHANGED <<at, assign, conds, mnet, level, pifstack, startmacro,
                   savelevel, startequal, classes, inhead, misfiled, loopvars>>

(* A class in a namespace, a class or a function *)
CppClass ==
    /\ Plain /\ ~assign /\ Nested("class")
    /\ LBrace /\ classes' = Append(classes, level')
    /\ UNCHANGED <<at, assign, conds, mnet, pifstack, startmacro, savelevel,
                   startequal, inhead, misfiled, loopvars>>

(* A name and arguments in parentheses, in a namespace or class: the parser *)
(* looks for a brace, unless it is still looking for that of another.       *)
FunctionHead ==
    /\ Item /\ ~assign /\ Kind \in {"namespace", "class"}
    /\ IF HeadPlace /\ ~inhead THEN at' = "head" /\ inhead' = TRUE
       ELSE at' = "lost" /\ UNCHANGED inhead
    /\ UNCHANGED <<nest, assign, conds, mnet, level, namespacelevel, pifstack,
                   startmacro, savelevel, startequal, classes, misfiled, loopvars>>

(* It is there: a definition. *)
Body ==
    /\ at \in {"head", "lost"} /\ Nested("function") /\ LBrace
    /\ at' = "item" /\ inhead' = FALSE
    /\ misfiled' = (misfiled \/ at = "lost")
    /\ UNCHANGED <<assign, conds, mnet, pifstack, startmacro, savelevel,
                   startequal, classes, loopvars>>

(* A semicolon ends a declaration *)
Declaration ==
    /\ at \in {"head", "lost"}
    /\ at' = "item" /\ inhead' = FALSE /\ startequal' = FALSE
    /\ UNCHANGED <<nest, assign, conds, mnet, level, namespacelevel, pifstack,
                   startmacro, savelevel, classes, misfiled, loopvars>>

(* or a statement; *)
Semicolon ==
    /\ Plain
    /\ assign' = FALSE /\ startequal' = FALSE
    /\ UNCHANGED <<nest, at, conds, mnet, level, namespacelevel, pifstack,
                   startmacro, savelevel, classes, inhead, misfiled, loopvars>>

Equal ==
    /\ Plain
    /\ assign' = TRUE /\ startequal' = TRUE
    /\ UNCHANGED <<nest, at, conds, mnet, level, namespacelevel, pifstack,
                   startmacro, savelevel, classes, inhead, misfiled, loopvars>>

Initializer ==
    /\ Plain /\ assign /\ Nested("initializer") /\ LBrace
    /\ UNCHANGED <<at, assign, conds, mnet, pifstack, startmacro, savelevel,
                   startequal, classes, inhead, misfiled, loopvars>>

(* A name, arguments and a block in a function, as by a macro that loops *)
Block ==
    /\ Item /\ ~assign /\ Kind = "function" /\ Nested("function") /\ LBrace
    /\ misfiled' = (misfiled \/ HeadPlace)
    /\ UNCHANGED <<at, assign, conds, mnet, pifstack, startmacro, savelevel,
                   startequal, classes, inhead, loopvars>>

Close ==
    /\ Plain \/ (Item /\ Kind = "initializer")
    /\ nest # <<>> /\ (assign => Kind = "initializer")
    /\ nest' = Popped(nest) /\ RBrace
    /\ UNCHANGED <<at, assign, conds, mnet, pifstack, startmacro, savelevel,
                   startequal, inhead, misfiled, loopvars>>
-----------------------------------------------------------------------------
(* enumerator_list, and the two loops of a typedef: enum {, alone or in a  *)
(* typedef                                                                 *)
CppEnum(name) ==
    /\ Plain /\ ~assign
    /\ NestedIn([name |-> name, level |-> Inner(nest).depth], "enum")
    /\ level' = level + 1
    /\ loop' = [name |-> name, level |-> level]
    /\ UNCHANGED <<at, assign, conds, mnet, namespacelevel, pifstack, startmacro,
                   savelevel, startequal, classes, inhead, in_expression, misfiled>>

(* A name: that of an enumerator, or one in an expression *)
Enumerator ==
    /\ Item /\ Kind \in {"enum", "paren"}
    /\ misfiled' = (misfiled \/ in_expression # assign)
    /\ UNCHANGED <<nest, at, assign, conds, mnet, level, namespacelevel, pifstack,
                   startmacro, savelevel, startequal, classes, inhead, loopvars>>

EnumEqual ==
    /\ Item /\ Kind = "enum"
    /\ assign' = TRUE /\ in_expression' = TRUE
    /\ UNCHANGED <<nest, at, conds, mnet, level, namespacelevel, pifstack, startmacro,
                   savelevel, startequal, classes, inhead, loop, misfiled>>

(* A comma behind an enumerator, or in parentheses *)
EnumComma ==
    /\ Item /\ Kind \in {"enum", "paren"}
    /\ assign' = (assign /\ Kind = "paren")
    /\ in_expression' = (in_expression /\ level # loop.level + 1)
    /\ UNCHANGED <<nest, at, conds, mnet, level, namespacelevel, pifstack, startmacro,
                   savelevel, startequal, classes, inhead, loop, misfiled>>

(* typedef struct { *)
TypedefStruct ==
    /\ Plain /\ ~assign
    /\ NestedIn([name |-> "typedef struct", level |-> Inner(nest).depth], "record")
    /\ level' = level + 1
    /\ loop' = [name |-> "typedef struct", level |-> level]
    /\ UNCHANGED <<at, assign, conds, mnet, namespacelevel, pifstack, startmacro,
                   savelevel, startequal, classes, inhead, in_expression, misfiled>>

(* A structure in it, or parentheses in the expression of an enumerator *)
LoopOpens ==
    /\ Item
    /\ \/ Kind \in {"record", "inner"} /\ NestedIn(Inner(nest).loop, "inner")
       \/ Kind \in {"enum", "paren"} /\ assign /\ NestedIn(Inner(nest).loop, "paren")
    /\ level' = level + 1
    /\ UNCHANGED <<at, assign, conds, mnet, namespacelevel, pifstack, startmacro,
                   savelevel, startequal, classes, inhead, misfiled, loopvars>>

(* The end of a member: at the level of the typedef it would end that, and *)
(* the member be the name.                                                 *)
Member ==
    /\ Item /\ Kind \in {"record", "inner"}
    /\ loop' = IF level = loop.level THEN Main ELSE loop
    /\ misfiled' = (misfiled \/ level = loop.level)
    /\ UNCHANGED <<nest, at, assign, conds, mnet, level, namespacelevel, pifstack,
                   startmacro, savelevel, startequal, classes, inhead, in_expression>>

AfterLoop ==
    IF loop.name = "enum" THEN Main ELSE [name |-> "names", level |-> loop.level]

LoopCloses ==
    /\ Item /\ Kind \in {"enum", "paren", "record", "inner"}
    /\ nest' = Popped(nest)
    /\ level' = level - 1
    /\ loop' = IF level' = loop.level THEN AfterLoop ELSE loop
    /\ at' = IF Kind = "record" \/ (Kind = "enum" /\ Inner(nest).loop.name = "typedef enum")
             THEN "names" ELSE "item"
    /\ assign' = (assign /\ Kind = "paren")
    /\ in_expression' = (in_expression /\ level' # loop.level)
    /\ UNCHANGED <<conds, mnet, namespacelevel, pifstack, startmacro, savelevel,
                   startequal, classes, inhead, misfiled>>

(* typedef of a simple type, *)
TypedefType ==
    /\ Plain /\ ~assign
    /\ at' = "names" /\ loop' = [name |-> "names", level |-> level]
    /\ UNCHANGED <<nest, assign, conds, mnet, level, namespacelevel, pifstack, startmacro,
                   savelevel, startequal, classes, inhead, in_expression, misfiled>>

(* and a name of any, with the comma or the semicolon behind it *)
TypedefName(last) ==
    /\ at = "names"
    /\ misfiled' = (misfiled \/ loop.name # "names" \/ level > loop.level)
    /\ at' = IF last THEN "item" ELSE at
    /\ loop' = IF last /\ level = loop.level THEN Main ELSE loop
    /\ UNCHANGED <<nest, assign, conds, mnet, level, namespacelevel, pifstack, startmacro,
                   savelevel, startequal, classes, inhead, in_expression>>
-----------------------------------------------------------------------------
(* condition_macro *)
Here == [nest |-> nest, at |-> at, assign |-> assign]
Loop(p) ==
    IF p.at = "names" THEN [name |-> "names", level |-> Inner(p.nest).depth]
    ELSE Inner(p.nest).loop
Goto(p) == nest' = p.nest /\ at' = p.at /\ assign' = p.assign

Cond == conds[Len(conds)]
Cur == pifstack[Len(pifstack)]

(* The branch leaves off where a branch may. *)
Whole ==
    \/ Splits
    \/ /\ Inner(nest).classes = Inner(Cond.start.nest).classes
       /\ Loop(Here) = Loop(Cond.start)
       /\ at # "item" => at = Cond.start.at
       /\ assign => Cond.start.assign

If(zero) ==
    /\ ~startmacro /\ Len(conds) < MaxIf
    /\ assign => Kind = "initializer" \/ (Splits /\ Kind \in {"enum", "paren"})
    /\ conds' = Append(conds, [start |-> Here, zero |-> zero, end |-> <<>>])
    /\ pifstack' = Append(pifstack, [start |-> level, end |-> -1, if0only |-> zero])
    /\ UNCHANGED <<nest, at, assign, mnet, level, namespacelevel, startmacro,
                   savelevel, startequal, classes, inhead, misfiled, loopvars>>

(* #else and #elif: all branches have to end alike. *)
Else ==
    /\ ~startmacro /\ conds # <<>> /\ Whole
    /\ Cond.end \in {<<>>, <<Here>>}
    /\ conds' = [conds EXCEPT ![Len(conds)].end = <<Here>>, ![Len(conds)].zero = FALSE]
    /\ Goto(Cond.start)
    /\ pifstack' = [pifstack EXCEPT ![Len(pifstack)] =
                       [Cur EXCEPT !.end = IF @ = -1 THEN level ELSE @, !.if0only = FALSE]]
    /\ level' = Cur.start
    /\ UNCHANGED <<mnet, namespacelevel, startmacro, savelevel, startequal,
                   classes, inhead, misfiled, loopvars>>

(* Variant of the next operator with a bug: #if 0 is taken for an #if.     *)
EndifLevelIfZero == IF Cur.end # -1 THEN Cur.end ELSE level

(* The level after #endif *)
EndifLevel == IF Cur.if0only THEN Cur.start ELSE IF Cur.end # -1 THEN Cur.end ELSE level

(* An #if 0 without an #else leaves nothing. *)
Endif ==
    /\ ~startmacro /\ conds # <<>>
    /\ Cond.end \in {<<>>, <<Here>>}
    /\ IF Cond.zero THEN Whole /\ Goto(Cond.start) ELSE UNCHANGED <<nest, at, assign>>
    /\ conds' = Popped(conds)
    /\ pifstack' = Popped(pifstack)
    /\ level' = EndifLevel
    /\ UNCHANGED <<mnet, namespacelevel, startmacro, savelevel, startequal,
                   classes, inhead, misfiled, loopvars>>
-----------------------------------------------------------------------------
(* #define outside the loops, what it may contain, and the end of its line *)
Define ==
    /\ Plain \/ (Item /\ Kind = "initializer")
    /\ startmacro' = TRUE /\ savelevel' = level /\ mnet' = 0
    /\ UNCHANGED <<nest, at, assign, conds, level, namespacelevel, pifstack,
                   startequal, classes, inhead, misfiled, loopvars>>

MacroBlock ==
    /\ startmacro /\ mnet < MaxMacro /\ mnet' = mnet + 1 /\ LBrace
    /\ misfiled' = (misfiled \/ HeadPlace)
    /\ UNCHANGED <<nest, at, assign, conds, pifstack, startmacro, savelevel,
                   startequal, classes, inhead, loopvars>>

MacroClose ==
    /\ startmacro /\ mnet > -MaxMacro /\ mnet' = mnet - 1 /\ RBrace
    /\ Splits \/ classes' = classes
    /\ UNCHANGED <<nest, at, assign, conds, pifstack, startmacro, savelevel,
                   startequal, inhead, misfiled, loopvars>>

MacroAssign ==
    /\ startmacro
    /\ startequal' \in IF BareAssign THEN BOOLEAN ELSE {FALSE}
    /\ UNCHANGED <<nest, at, assign, conds, mnet, level, namespacelevel, pifstack,
                   startmacro, savelevel, classes, inhead, misfiled, loopvars>>

MacroEnd ==
    /\ startmacro
    /\ startmacro' = FALSE /\ level' = savelevel
    /\ savelevel' = -1 /\ mnet' = 0
    /\ UNCHANGED <<nest, at, assign, conds, namespacelevel, pifstack,
                   startequal, classes, inhead, misfiled, loopvars>>
-----------------------------------------------------------------------------
CppInit ==
    /\ nest = <<>> /\ at = "item" /\ assign = FALSE /\ conds = <<>> /\ mnet = 0
    /\ level = 0 /\ namespacelevel = 0 /\ pifstack = <<>>
    /\ startmacro = FALSE /\ savelevel = -1 /\ startequal = FALSE
    /\ classes = <<>> /\ inhead = FALSE /\ loop = Main /\ in_expression = FALSE
    /\ misfiled = FALSE

CppNext ==
    \/ CppNamespace \/ CppClass \/ FunctionHead \/ Body \/ Declaration \/ Semicolon \/ Equal
    \/ Initializer \/ Block \/ Close
    \/ \E zero \in BOOLEAN : If(zero)
    \/ Else \/ Endif
    \/ \E name \in {"enum", "typedef enum"} : CppEnum(name)
    \/ Enumerator \/ EnumEqual \/ EnumComma
    \/ TypedefStruct \/ TypedefType \/ Member \/ LoopOpens \/ LoopCloses
    \/ \E last \in BOOLEAN : TypedefName(last)
    \/ Define \/ MacroBlock \/ MacroClose \/ MacroAssign \/ MacroEnd

CppSpec == CppInit /\ [][CppNext]_cvars
-----------------------------------------------------------------------------
(* GTAGS is a "tag file for definitions" (gtags/manual.in): every          *)
(* function that is defined in a namespace or class is recorded as         *)
(* defined there, in whatever branch, and no macro or call is.             *)
DefsRight == ~misfiled

(* The level of braces that the parser counts, over all branches, is the   *)
(* nesting of the source that it reads, and the class stack its classes.   *)
NestingRight == ~startmacro => level = Inner(nest).depth /\ classes = Inner(nest).classes
=============================================================================
