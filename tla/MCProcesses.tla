---------------------------- MODULE MCProcesses ----------------------------
(* Instances of SortedWrite and Plugins for TLC, one at a time: the        *)
(* processes that gtags starts, behind pipes.                              *)
EXTENDS SortedWrite, Plugins, TLC

CONSTANTS f1, f2, f3, libA, libB

VARIABLE part

Languages == (f1 :> "a") @@ (f2 :> "b") @@ (f3 :> "a")

Entry(x, l) == [lang |-> x, lib |-> l]
ListAA == <<Entry("a", libA), Entry("b", libA)>>
ListAB == <<Entry("a", libA), Entry("b", libB)>>
ListABA == <<Entry("b", libA), Entry("a", libB), Entry("b", libB), Entry("a", libA)>>

(* One library with programs that may fail; two in the order that works. *)
SafeSetups ==
    {[list |-> ListAA, fails |-> TRUE, anyOrder |-> TRUE]} \cup
    {[list |-> s, fails |-> FALSE, anyOrder |-> FALSE] : s \in {ListAB, ListABA}}
TwoLibraries == {[list |-> ListAB, fails |-> FALSE, anyOrder |-> TRUE]}

SortedOff ==
    /\ pc = "done" /\ tag = "GTAGS"
    /\ sort = [t \in Tag |-> "none"]
    /\ ends = {} /\ cloexec = {}
    /\ put = [t \in Tag |-> {}] /\ buf = put /\ to = put
    /\ got = put /\ from = put /\ loaded = put
    /\ closed = {}

PluginsOff ==
    /\ setup = [list |-> <<>>, fails |-> FALSE, anyOrder |-> FALSE] /\ plugins = <<>>
    /\ act = "over" /\ src = f1 /\ lib = libA
    /\ parsed = {} /\ lines = [f \in Src |-> 0] /\ tags = lines
    /\ child = [l \in Lib |-> "none"] /\ pends = {}
    /\ request = [l \in Lib |-> <<>>] /\ reply = request
    /\ left = [l \in Lib |-> 0]

PartsInit ==
    /\ part \in {"sorted", "plugins"}
    /\ IF part = "sorted" THEN Init ELSE SortedOff
    /\ IF part = "plugins" THEN PluginsInit ELSE PluginsOff

PartsNext ==
    /\ UNCHANGED part
    /\ \/ part = "sorted" /\ Next /\ UNCHANGED pvars
       \/ part = "plugins" /\ PluginsNext /\ UNCHANGED vars

PartsSpec ==
    /\ PartsInit /\ [][PartsNext]_<<vars, pvars, part>>
    /\ WF_vars(GtagsStep) /\ \A t \in Tag : WF_vars(SortStep(t))
    /\ PluginsFair
=============================================================================
