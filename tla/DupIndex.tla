------------------------------ MODULE DupIndex ------------------------------
(***************************************************************************)
(* The pages of duplicate tags in htags: makedupindex (dupindex.c), which  *)
(* reads the records of all tags, and the cache from which put_anchor      *)
(* (src2html.c) later takes where the link of a tag leads: to a line, when *)
(* the tag has one record, and else to a page that lists them.             *)
(***************************************************************************)
EXTENDS Naturals, Sequences

CONSTANTS
    TagFiles,   \* the tag files, in the order in which they are read
    TagName,    \* the tag names
    Inputs,     \* what global -x prints of a tag file: records [tag, at],
                \*   those of a tag together
    NoTag, NoRecord

Record == [tag : TagName, at : Nat]
CacheRecord == [line : Nat] \cup [page : Nat, entries : Nat]

ASSUME DupIndexAssumption ==
    /\ TagFiles \in Seq(STRING) /\ Inputs \subseteq Seq(Record)
    /\ NoTag \notin TagName /\ NoRecord \notin Record \cup CacheRecord
    /\ \A s \in Inputs : \A i, j \in DOMAIN s :
          s[i].tag = s[j].tag => \A k \in i .. j : s[k].tag = s[i].tag

VARIABLES
    input,        \* [TagFiles -> Inputs]
    idb,          \* the tag file at hand, as an index of TagFiles
    rest,         \* what is still to be read of it
    prev,         \* the tag of the last record
    first_line,   \* the first record of prev until a second one comes
    count,        \* the number of tags so far
    entry_count,  \* the number of records of prev
    writing,      \* the page that is open: its number, or 0
    pages,        \* the pages of each tag file, by number
    cache         \* the cache of each tag file, by tag

dvars == <<input, idb, rest, prev, first_line, count, entry_count, writing, pages, cache>>

Indices == DOMAIN TagFiles
IsOver == idb > Len(TagFiles)
-----------------------------------------------------------------------------
(* The number of the page that is closed when the tag after it is counted. *)
(* (A variant with a bug gives the number of the tag after it.)            *)
ClosedPageNext == count + 1
ClosedPage == count

(* What is known of prev goes to the cache.                                *)
Duplicates(page) == [page |-> page, entries |-> entry_count]
Single == [line |-> first_line.at]

Cached(page) ==
    CASE writing # 0 -> [cache EXCEPT ![idb][prev] = Duplicates(page)]
      [] first_line # NoRecord -> [cache EXCEPT ![idb][prev] = Single]
      [] OTHER -> cache

NewTag(r) ==
    /\ r.tag # prev
    /\ cache' = Cached(ClosedPage)
    /\ count' = count + 1
    /\ prev' = r.tag /\ first_line' = r /\ entry_count' = 0 /\ writing' = 0
    /\ UNCHANGED pages

(* The second record opens the page and writes the first one, too.         *)
SameTag(r) ==
    /\ r.tag = prev
    /\ LET waiting == IF first_line = NoRecord THEN <<>> ELSE <<first_line>>
           page == IF waiting = <<>> THEN writing ELSE count
       IN  /\ writing' = page
           /\ pages' = [pages EXCEPT ![idb][page] = @ \o waiting \o <<r>>]
           /\ entry_count' = entry_count + Len(waiting) + 1
    /\ first_line' = NoRecord
    /\ UNCHANGED <<prev, count, cache>>

ReadRecord ==
    /\ ~IsOver /\ rest # <<>>
    /\ NewTag(Head(rest)) \/ SameTag(Head(rest))
    /\ rest' = Tail(rest)
    /\ UNCHANGED <<input, idb>>

(* The end of a tag file, and the beginning of the next.                   *)
StartOf(i) == IF i \in Indices THEN input[i] ELSE <<>>

EndOfTagFile ==
    /\ ~IsOver /\ rest = <<>>
    /\ cache' = Cached(count)
    /\ idb' = idb + 1 /\ rest' = StartOf(idb + 1)
    /\ prev' = NoTag /\ first_line' = NoRecord
    /\ count' = 0 /\ entry_count' = 0 /\ writing' = 0
    /\ UNCHANGED <<input, pages>>

DupInit ==
    /\ input \in [Indices -> Inputs]
    /\ idb = 1 /\ rest = StartOf(1)
    /\ prev = NoTag /\ first_line = NoRecord
    /\ count = 0 /\ entry_count = 0 /\ writing = 0
    /\ pages = [i \in Indices |-> [n \in 1 .. Len(input[i]) |-> <<>>]]
    /\ cache = [i \in Indices |-> [t \in TagName |-> NoRecord]]

DupEnd == IsOver /\ UNCHANGED dvars

DupNext == ReadRecord \/ EndOfTagFile \/ DupEnd
DupSpec == DupInit /\ [][DupNext]_dvars
-----------------------------------------------------------------------------
(* What put_anchor makes of the cache: the records to which the link of a  *)
(* tag leads.                                                              *)
Linked(i, t) ==
    LET c == cache[i][t]
    IN  CASE c = NoRecord -> <<>>
          [] c # NoRecord /\ "line" \in DOMAIN c -> <<[tag |-> t, at |-> c.line]>>
          [] OTHER -> pages[i][c.page]

(* x is what the first p records of s have of tag t, in their order.       *)
HasRecords(x, s, t, p) ==
    \E a \in 1 .. Len(s) + 1 :
        /\ {k \in 1 .. p : s[k].tag = t} = a .. a + Len(x) - 1
        /\ \A k \in 1 .. Len(x) : x[k] = s[a + k - 1]

(* In the end the link of each tag leads to its records, all of them and   *)
(* no others, one at once and several through a page with as many entries  *)
(* as the link announces; and each page is that of a tag.  Pages and cache *)
(* records are written at different times: a page when the second record   *)
(* of a tag comes, its cache record when the tag is over.                  *)
GroupsRight ==
    \A i \in 1 .. idb - 1 :
        /\ \A t \in TagName :
              LET links == Linked(i, t)
              IN  /\ HasRecords(links, input[i], t, Len(input[i]))
                  /\ Len(links) > 1 => cache[i][t].entries = Len(links)
        /\ \A n \in DOMAIN pages[i] :
              pages[i][n] # <<>> => \E t \in TagName : pages[i][n] = Linked(i, t)
=============================================================================
