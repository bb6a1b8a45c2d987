------------------------------ MODULE Plugins ------------------------------
(***************************************************************************)
(* Plug-in parsers (libparser/parser.c, plugin-factory): gtags hands files *)
(* to shared libraries, each of which starts a program (ctags, a Python    *)
(* script) behind two pipes at its first file, and asks it file by file.   *)
(* The answer to a request ends with a line of its own, the terminator.    *)
(* A library is unloaded with its last entry in the list of parsers; its   *)
(* destructor closes the pipes and waits for the program.                  *)
(*                                                                         *)
(* Unlike the pipes of sort, these are not marked FD_CLOEXEC: a program    *)
(* that is started later inherits those of the earlier ones.               *)
(***************************************************************************)
EXTENDS Naturals, Sequences

CONSTANTS
    Src,        \* source files
    LangOf,     \* their languages (langmap)
    Lib,        \* shared libraries
    Setups,     \* what the user may have configured: the list of parsers,
                \* whether programs may fail, whether files come in any order
    MaxLines,   \* the lines that a program prints for a file, at most
    PipeLines,  \* the lines that fit into a pipe
    Term, Bad   \* the terminator, and a line of a type that is not known

ASSUME PluginsAssumption ==
    /\ MaxLines \in Nat /\ PipeLines \in Nat \ {0}
    /\ Term \notin Src /\ Bad \notin Src /\ Term # Bad
    /\ "gtags" \notin Lib
    /\ \A s \in Setups : s.list \in Seq([lang : {LangOf[f] : f \in Src}, lib : Lib])

PEnd == [proc : {"gtags"} \cup Lib, lib : Lib, pipe : {"to", "from"}, rw : {"r", "w"}]

VARIABLES
    setup,     \* the member of Setups
    plugins,   \* plugin_list, or what exit(3) has still to destroy
    act,       \* what gtags does,
    src,       \* with which file,
    lib,       \* and whose pipes
    parsed,    \* the files that parse_file is done with
    lines,     \* how many tags the programs find in each file
    tags,      \* how many gtags has put under each
    child,     \* the state of the programs
    pends,     \* the open descriptors
    request, reply, \* the file a program has still to answer for, and
               \* what of its answers gtags has not read
    left       \* the lines that a program has still to print

pvars == <<setup, plugins, act, src, lib, parsed, lines, tags, child, pends, request, reply, left>>
pdata == <<parsed, lines, tags, request, reply, left>>

PTypeOK ==
    /\ setup \in Setups
    /\ plugins \in Seq([lang : {LangOf[f] : f \in Src}, lib : Lib])
    /\ act \in {"idle", "ask", "read", "exit", "wait", "over"}
    /\ src \in Src /\ lib \in Lib /\ parsed \subseteq Src
    /\ lines \in [Src -> 0 .. MaxLines] /\ tags \in [Src -> Nat]
    /\ child \in [Lib -> {"none", "forked", "ready", "busy", "ended"}]
    /\ pends \subseteq PEnd
    /\ request \in [Lib -> Seq(Src)]
    /\ reply \in [Lib -> Seq(Src \cup {Term, Bad})]
    /\ left \in [Lib -> 0 .. MaxLines]

Held(p) == {e \in pends : e.proc = p}
Own(p, l, rws) == {[proc |-> p, lib |-> l, pipe |-> x[1], rw |-> x[2]] : x \in rws}
Shut(l, pipe, rw) == \A e \in pends : ~(e.lib = l /\ e.pipe = pipe /\ e.rw = rw)

NearEnds == {<<"to", "w">>, <<"from", "r">>}     \* what gtags keeps of a pair
FarEnds  == {<<"to", "r">>, <<"from", "w">>}     \* what the program keeps

Loaded(s) == {s[i].lib : i \in 1 .. Len(s)}

(* get_lang_entry: the first entry for the language of the file.           *)
ParserOf(f) ==
    LET at == {i \in 1 .. Len(plugins) : plugins[i].lang = LangOf[f]}
    IN  {plugins[i].lib : i \in {j \in at : \A k \in at : j <= k}}

(* No program that runs already will be waited for before that of l. *)
AfterOthers(l) ==
    \A i \in 1 .. Len(plugins) :
       /\ plugins[i].lib = l
       => \A m \in Lib : child[m] = "none" \/ \E j \in i .. Len(plugins) : plugins[j].lib = m
-----------------------------------------------------------------------------
(* gtags *)

(* start_ctags, start_process: pipe(2) twice, fork(2), and the parent's    *)
(* half.  The program inherits all that gtags has open.                    *)
Started(l) ==
    /\ child' = [child EXCEPT ![l] = "forked"]
    /\ pends' = pends \cup Own("gtags", l, NearEnds)
                  \cup Own(l, l, NearEnds \cup FarEnds)
                  \cup {[e EXCEPT !.proc = l] : e \in Held("gtags")}

(* parse_file and the beginning of parser(). *)
ParseFile(f) ==
    /\ act = "idle" /\ f \notin parsed
    /\ src' = f
    /\ lib' \in ParserOf(f)
    /\ IF child[lib'] # "none" THEN UNCHANGED <<child, pends>>
       ELSE (setup.anyOrder \/ AfterOthers(lib')) /\ Started(lib')
    /\ act' = "ask"
    /\ UNCHANGED <<setup, plugins>> /\ UNCHANGED pdata

(* The request after fputs, putc and fflush.  (A variant with a bug: it    *)
(* stays in the buffer.)                                                   *)
SentNot(q, f) == q
Sent(q, f) == Append(q, f)

Ask ==
    /\ act = "ask" /\ ~Shut(lib, "to", "r")
    /\ request' = [request EXCEPT ![lib] = Sent(@, src)]
    /\ act' = "read"
    /\ UNCHANGED <<setup, plugins, src, lib, parsed, lines, tags, child, pends, reply, left>>

AllClosed(p) == pends' = pends \ Held(p)

AskSigPipe ==
    /\ act = "ask" /\ Shut(lib, "to", "r")
    /\ act' = "over" /\ AllClosed("gtags")
    /\ UNCHANGED <<setup, plugins, src, lib, child>> /\ UNCHANGED pdata

(* put_line drops a line that does not name the file. *)
PutLine(x) == tags' = IF x = src THEN [tags EXCEPT ![src] = @ + 1] ELSE tags

ReadLine ==
    /\ act = "read" /\ reply[lib] # <<>> /\ Head(reply[lib]) \in Src
    /\ PutLine(Head(reply[lib]))
    /\ reply' = [reply EXCEPT ![lib] = Tail(@)]
    /\ UNCHANGED <<setup, plugins, act, src, lib, parsed, lines, child, pends, request, left>>

ReadTerm ==
    /\ act = "read" /\ reply[lib] # <<>> /\ Head(reply[lib]) = Term
    /\ reply' = [reply EXCEPT ![lib] = Tail(@)]
    /\ parsed' = parsed \cup {src}
    /\ act' = "idle"
    /\ UNCHANGED <<setup, plugins, src, lib, lines, tags, child, pends, request, left>>

(* die: exit(3) runs the destructors of the loaded libraries, once for     *)
(* each, in an order of its own.                                           *)
Dies ==
    /\ act' = "exit"
    /\ plugins' \in {s \in [1 .. Len(plugins) -> {plugins[i] : i \in 1 .. Len(plugins)}] :
                        Loaded(s) = Loaded(plugins)}

(* "unexpected type string.", *)
ReadBad ==
    /\ act = "read" /\ reply[lib] # <<>> /\ Head(reply[lib]) = Bad
    /\ Dies
    /\ UNCHANGED <<setup, src, lib, child, pends>> /\ UNCHANGED pdata

(* and "unexpected EOF.".  (A variant with a bug: it ends the answer.)     *)
EofAccepted ==
    /\ act' = "idle" /\ parsed' = parsed \cup {src}
    /\ UNCHANGED <<plugins, lines, tags, request, reply, left>>
AtEof == Dies /\ UNCHANGED pdata

ReadEof ==
    /\ act = "read" /\ reply[lib] = <<>> /\ Shut(lib, "from", "w")
    /\ AtEof
    /\ UNCHANGED <<setup, src, lib, child, pends>>

ParserExit ==
    /\ act = "idle"
    /\ act' = "exit"
    /\ UNCHANGED <<setup, plugins, src, lib, child, pends>> /\ UNCHANGED pdata

(* lt_dlclose for the head of the list: terminate_ctags, if this was the   *)
(* last entry with its library and the library has started its program.    *)
Destroys == Head(plugins).lib \notin Loaded(Tail(plugins)) /\ child[Head(plugins).lib] # "none"

Unload ==
    /\ act = "exit" /\ plugins # <<>>
    /\ IF Destroys
       THEN /\ lib' = Head(plugins).lib
            /\ pends' = pends \ Own("gtags", lib', NearEnds)
            /\ act' = "wait"
       ELSE UNCHANGED <<lib, pends, act>>
    /\ plugins' = Tail(plugins)
    /\ UNCHANGED <<setup, src, child>> /\ UNCHANGED pdata

(* waitpid *)
Reap ==
    /\ act = "wait" /\ child[lib] = "ended"
    /\ act' = "exit"
    /\ UNCHANGED <<setup, plugins, src, lib, child, pends>> /\ UNCHANGED pdata

ExitDone ==
    /\ act = "exit" /\ plugins = <<>>
    /\ act' = "over" /\ AllClosed("gtags")
    /\ UNCHANGED <<setup, plugins, src, lib, child>> /\ UNCHANGED pdata

(* A signal ends gtags without its destructors. *)
KilledByUser ==
    /\ act # "over"
    /\ act' = "over" /\ AllClosed("gtags")
    /\ UNCHANGED <<setup, plugins, src, lib, child>> /\ UNCHANGED pdata
-----------------------------------------------------------------------------
(* The program behind a library.                                           *)

(* What it closes before execvp.  (A variant with a bug: nothing.)         *)
FirstClosesNot(l) == {}
FirstCloses(l) == Own(l, l, NearEnds)

ChildExecs(l) ==
    /\ child[l] = "forked"
    /\ child' = [child EXCEPT ![l] = "ready"]
    /\ pends' = pends \ FirstCloses(l)
    /\ UNCHANGED <<setup, plugins, act, src, lib>> /\ UNCHANGED pdata

ChildTakes(l) ==
    /\ child[l] = "ready" /\ request[l] # <<>>
    /\ child' = [child EXCEPT ![l] = "busy"]
    /\ left' = [left EXCEPT ![l] = lines[Head(request[l])]]
    /\ UNCHANGED <<setup, plugins, act, src, lib, parsed, lines, tags, pends, request, reply>>

(* It prints a line with the name of the file, and at last the terminator, *)
(* after which it is ready for the next request.                           *)
Prints(l, x) ==
    /\ child[l] = "busy"
    /\ ~Shut(l, "from", "r") /\ Len(reply[l]) < PipeLines
    /\ reply' = [reply EXCEPT ![l] = Append(@, x)]
    /\ UNCHANGED <<setup, plugins, act, src, lib, parsed, lines, tags, pends>>

ChildPrints(l) ==
    /\ left[l] > 0
    /\ \E x \in {Head(request[l])} \cup (IF setup.fails THEN {Bad} ELSE {}) : Prints(l, x)
    /\ left' = [left EXCEPT ![l] = @ - 1]
    /\ UNCHANGED <<child, request>>

ChildEndsReply(l) ==
    /\ left[l] = 0
    /\ Prints(l, Term)
    /\ child' = [child EXCEPT ![l] = "ready"]
    /\ request' = [request EXCEPT ![l] = Tail(@)]
    /\ UNCHANGED left

ChildEnds(l) ==
    /\ child' = [child EXCEPT ![l] = "ended"] /\ AllClosed(l)
    /\ UNCHANGED <<setup, plugins, act, src, lib>> /\ UNCHANGED pdata

ChildEof(l) == child[l] = "ready" /\ request[l] = <<>> /\ Shut(l, "to", "w") /\ ChildEnds(l)

ChildSigPipe(l) == child[l] = "busy" /\ Shut(l, "from", "r") /\ ChildEnds(l)

(* It is killed or fails; execvp may have failed. *)
ChildFails(l) == setup.fails /\ child[l] \in {"forked", "ready", "busy"} /\ ChildEnds(l)

ChildStep(l) ==
    ChildExecs(l) \/ ChildTakes(l) \/ ChildPrints(l) \/ ChildEndsReply(l) \/ ChildEof(l) \/ ChildSigPipe(l)
-----------------------------------------------------------------------------
PluginsInit ==
    /\ setup \in Setups /\ plugins = setup.list
    /\ act = "idle" /\ src \in Src /\ lib \in Lib
    /\ parsed = {} /\ lines \in [Src -> 0 .. MaxLines] /\ tags = [f \in Src |-> 0]
    /\ child = [l \in Lib |-> "none"] /\ pends = {}
    /\ request = [l \in Lib |-> <<>>] /\ reply = request
    /\ left = [l \in Lib |-> 0]

PGtagsStep ==
    \/ Ask \/ AskSigPipe \/ ReadLine \/ ReadTerm \/ ReadBad \/ ReadEof
    \/ ParserExit \/ Unload \/ Reap \/ ExitDone
    \/ \E f \in Src : ParseFile(f)

PFinished == act = "over" /\ UNCHANGED pvars

PluginsNext ==
    \/ PGtagsStep \/ KilledByUser \/ PFinished
    \/ \E l \in Lib : ChildStep(l) \/ ChildFails(l)

PluginsSpec == PluginsInit /\ [][PluginsNext]_pvars

(* The processes are scheduled by the system. *)
PluginsFair == WF_pvars(PGtagsStep) /\ \A l \in Lib : WF_pvars(ChildStep(l))
-----------------------------------------------------------------------------
(* A file gets the tags that its program found in it, all of them and none *)
(* of another file's, whatever program answered before, and also when      *)
(* programs break off in the middle of an answer.                          *)
RepliesRight ==
    /\ \A f \in parsed : tags[f] = lines[f]
    /\ \A f \in Src \ parsed : tags[f] # 0 => f = src /\ act \notin {"idle", "ask"}

(* parser() returns, or gtags dies: no process waits for the other one.    *)
ParserReturns == act \in {"ask", "read"} ~> act \in {"idle", "exit", "over"}

(* "unload shared libraries" (parser_exit), also when gtags dies or is     *)
(* killed: gtags ends, and no program is left behind.                      *)
LibrariesEnd ==
    act \in {"exit", "wait", "over"} ~> act = "over" /\ \A l \in Lib : child[l] \in {"none", "ended"}
=============================================================================
