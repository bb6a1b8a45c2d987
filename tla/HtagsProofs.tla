---------------------------- MODULE HtagsProofs ----------------------------
(***************************************************************************)
(* Proofs about what htags makes of the records: the pages of duplicate    *)
(* tags and the links to them, for any tag files and any records of them,  *)
(* and the anchors of each source file and the links between them, for any *)
(* list of files, any lines of them and any length of a command line.      *)
(***************************************************************************)
EXTENDS DupIndex, Anchors, FiniteSetTheorems, TLAPS

DTypeOK ==
    /\ input \in [Indices -> Inputs]
    /\ idb \in 1 .. Len(TagFiles) + 1
    /\ rest \in Seq(Record)
    /\ prev \in TagName \cup {NoTag}
    /\ first_line \in Record \cup {NoRecord}
    /\ count \in Nat /\ entry_count \in Nat /\ writing \in Nat
    /\ pages = [i \in Indices |-> pages[i]]
    /\ \A i \in Indices : pages[i] \in [1 .. Len(input[i]) -> Seq(Record)]
    /\ cache \in [Indices -> [TagName -> CacheRecord \cup {NoRecord}]]

(* The link of t leads to its records, or those of the first p. *)
Right(i, t, p) ==
    /\ HasRecords(Linked(i, t), input[i], t, p)
    /\ Len(Linked(i, t)) > 1 => cache[i][t].entries = Len(Linked(i, t))

PagesRight(i) ==
    \A n \in DOMAIN pages[i] :
        pages[i][n] # <<>> => \E t \in TagName : pages[i][n] = Linked(i, t)

(* The link leads to a page that is closed, if to a page. *)
Closed(i, t) ==
    cache[i][t] \in [page : Nat, entries : Nat] => cache[i][t].page \in 1 .. count - 1

(* p records have been read, those from a on of the tag prev: one, that    *)
(* waits, or several, on the open page.                                    *)
Group(a, p) ==
    /\ prev = input[idb][p].tag /\ count \in 1 .. p
    /\ {k \in 1 .. p : input[idb][k].tag = prev} = a .. p
    /\ a = p => /\ first_line = input[idb][p] /\ writing = 0 /\ entry_count = 0
                /\ pages[idb][count] = <<>>
    /\ a < p => /\ first_line = NoRecord /\ writing = count /\ entry_count = p - a + 1
                /\ Len(pages[idb][count]) = p - a + 1
                /\ \A k \in 1 .. p - a + 1 : pages[idb][count][k] = input[idb][a + k - 1]

Fresh == prev = NoTag /\ first_line = NoRecord /\ count = 0 /\ writing = 0 /\ entry_count = 0

(* The other tags of the first p records are in the cache, and every page  *)
(* but the open one is theirs.                                             *)
Behind(p) ==
    /\ \A t \in TagName \ {prev} : Right(idb, t, p) /\ Closed(idb, t)
    /\ \A n \in DOMAIN pages[idb] :
          pages[idb][n] # <<>> /\ n # writing =>
              n < count /\ \E t \in TagName \ {prev} : pages[idb][n] = Linked(idb, t)

Reading(p) ==
    /\ Len(rest) = Len(input[idb]) - p
    /\ \A k \in 1 .. Len(rest) : rest[k] = input[idb][p + k]
    /\ IF p = 0 THEN Fresh ELSE \E a \in 1 .. p : Group(a, p)
    /\ Behind(p)

(* The tag files before are done, and those to come not begun. *)
Elsewhere ==
    /\ \A i \in 1 .. idb - 1 : (\A t \in TagName : Right(i, t, Len(input[i]))) /\ PagesRight(i)
    /\ \A i \in Indices : i > idb =>
          /\ \A n \in DOMAIN pages[i] : pages[i][n] = <<>>
          /\ \A t \in TagName : cache[i][t] = NoRecord

DInv ==
    /\ DTypeOK
    /\ Elsewhere
    /\ idb \in Indices => \E p \in 0 .. Len(input[idb]) : Reading(p)
    /\ IsOver => rest = <<>>
-----------------------------------------------------------------------------
(* Where a link leads, by what is in the cache. *)
LEMMA LinkedIs ==
    ASSUME NEW i, NEW t
    PROVE  /\ cache[i][t] = NoRecord => Linked(i, t) = <<>>
           /\ \A x \in Nat : cache[i][t] = [line |-> x] => Linked(i, t) = <<[tag |-> t, at |-> x]>>
           /\ cache[i][t] \in [page : Nat, entries : Nat] =>
                 Linked(i, t) = pages[i][cache[i][t].page]
<1> DEFINE c == cache[i][t]
<1>1. ASSUME NEW x \in Nat, c = [line |-> x] PROVE Linked(i, t) = <<[tag |-> t, at |-> x]>>
  <2>1. c # NoRecord
    BY <1>1, DupIndexAssumption DEF CacheRecord
  <2>2. "line" \in DOMAIN c /\ c.line = x
    BY <1>1
  <2> QED BY <2>1, <2>2 DEF Linked
<1>2. ASSUME c \in [page : Nat, entries : Nat] PROVE Linked(i, t) = pages[i][c.page]
  <2>1. c # NoRecord
    BY <1>2, DupIndexAssumption DEF CacheRecord
  <2>2. "line" \notin DOMAIN c
    BY <1>2
  <2> QED BY <2>1, <2>2 DEF Linked
<1>3. c = NoRecord => Linked(i, t) = <<>>
  BY DEF Linked
<1> QED BY <1>1, <1>2, <1>3

(* A link stays while its page does. *)
LEMMA LinkedKept ==
    ASSUME DTypeOK, NEW i \in Indices, NEW t \in TagName,
           cache'[i][t] = cache[i][t],
           cache[i][t] \in [page : Nat, entries : Nat] =>
             pages'[i][cache[i][t].page] = pages[i][cache[i][t].page]
    PROVE  Linked(i, t)' = Linked(i, t)
<1> DEFINE c == cache[i][t]
<1>1. c = NoRecord \/ c \in [line : Nat] \/ c \in [page : Nat, entries : Nat]
  BY DEF DTypeOK, CacheRecord
<1>2. CASE c \in [page : Nat, entries : Nat]
  <2>1. c # NoRecord /\ "line" \notin DOMAIN c
    BY <1>2, DupIndexAssumption DEF CacheRecord
  <2> QED BY <1>2, <2>1 DEF Linked
<1>3. CASE c = NoRecord
  BY <1>3 DEF Linked
<1>4. CASE c \in [line : Nat]
  <2>1. c # NoRecord /\ "line" \in DOMAIN c
    BY <1>4, DupIndexAssumption DEF CacheRecord
  <2> QED BY <2>1 DEF Linked
<1> QED BY <1>1, <1>2, <1>3, <1>4

LEMMA InputParts ==
    ASSUME DTypeOK, NEW i \in Indices
    PROVE  /\ input[i] \in Seq(Record) /\ Len(input[i]) \in Nat
           /\ \A k \in 1 .. Len(input[i]) : input[i][k] \in Record /\ input[i][k].tag \in TagName
           /\ \A j, l \in 1 .. Len(input[i]) : input[i][j].tag = input[i][l].tag =>
                 \A k \in j .. l : input[i][k].tag = input[i][j].tag
<1>1. input[i] \in Inputs
  BY DEF DTypeOK
<1>2. input[i] \in Seq(Record)
  BY <1>1, DupIndexAssumption
<1>3. Len(input[i]) \in Nat /\ DOMAIN input[i] = 1 .. Len(input[i])
  BY <1>2
<1>4. \A k \in 1 .. Len(input[i]) : input[i][k] \in Record
  BY <1>2
<1>5. \A j, l \in 1 .. Len(input[i]) : input[i][j].tag = input[i][l].tag =>
        \A k \in j .. l : input[i][k].tag = input[i][j].tag
  BY <1>1, <1>3, DupIndexAssumption
<1> QED BY <1>2, <1>3, <1>4, <1>5 DEF Record

(* A record of another tag does not change the records of t. *)
LEMMA MoreRecords ==
    ASSUME NEW x, NEW s, NEW t, NEW p \in Nat, HasRecords(x, s, t, p), s[p + 1].tag # t
    PROVE  HasRecords(x, s, t, p + 1)
<1>1. {k \in 1 .. p + 1 : s[k].tag = t} = {k \in 1 .. p : s[k].tag = t}
  OBVIOUS
<1> QED BY <1>1 DEF HasRecords

(* What a tag that is linked at all has among the first p records. *)
LEMMA LinkedHasOne ==
    ASSUME NEW x, Len(x) \in Nat, Len(x) > 0, NEW s, NEW t, NEW p, HasRecords(x, s, t, p),
           Len(s) \in Nat
    PROVE  \E k \in 1 .. p : s[k].tag = t
<1>1. PICK a \in 1 .. Len(s) + 1 :
        {k \in 1 .. p : s[k].tag = t} = a .. a + Len(x) - 1
  BY DEF HasRecords
<1>2. a \in a .. a + Len(x) - 1
  OBVIOUS
<1> QED BY <1>1, <1>2

LEMMA IndicesAre == Indices = 1 .. Len(TagFiles) /\ Len(TagFiles) \in Nat
BY DupIndexAssumption DEF Indices

LEMMA RightKept ==
    ASSUME NEW i, NEW t, NEW p, UNCHANGED input, Right(i, t, p),
           Linked(i, t)' = Linked(i, t), cache'[i][t] = cache[i][t]
    PROVE  Right(i, t, p)'
BY DEF Right

LEMMA FileKept ==
    ASSUME DTypeOK, NEW i \in Indices, UNCHANGED input,
           pages'[i] = pages[i], cache'[i] = cache[i]
    PROVE  /\ \A t \in TagName : Linked(i, t)' = Linked(i, t)
           /\ \A t \in TagName : Right(i, t, Len(input[i]))' <=> Right(i, t, Len(input[i]))
           /\ PagesRight(i)' <=> PagesRight(i)
<1>1. \A t \in TagName : Linked(i, t)' = Linked(i, t)
  BY LinkedKept
<1>2. \A t \in TagName : Right(i, t, Len(input[i]))' <=> Right(i, t, Len(input[i]))
  BY <1>1 DEF Right
<1>3. PagesRight(i)' <=> PagesRight(i)
  BY <1>1 DEF PagesRight
<1> QED BY <1>1, <1>2, <1>3

LEMMA ElsewhereKept ==
    ASSUME DTypeOK, Elsewhere, UNCHANGED <<input, idb>>,
           \A i \in Indices \ {idb} : pages'[i] = pages[i] /\ cache'[i] = cache[i]
    PROVE  Elsewhere'
<1>1. \A i \in 1 .. idb - 1 : i \in Indices \ {idb}
  BY IndicesAre DEF DTypeOK
<1>2. ASSUME NEW i \in 1 .. idb - 1
      PROVE  (\A t \in TagName : Right(i, t, Len(input[i]))') /\ PagesRight(i)'
  <2>1. i \in Indices /\ pages'[i] = pages[i] /\ cache'[i] = cache[i]
    BY <1>1
  <2> QED BY <2>1, FileKept DEF Elsewhere
<1>3. ASSUME NEW i \in Indices, i > idb
      PROVE  /\ \A n \in DOMAIN pages'[i] : pages'[i][n] = <<>>
             /\ \A t \in TagName : cache'[i][t] = NoRecord
  <2>1. i \in Indices \ {idb}
    BY <1>3 DEF DTypeOK
  <2> QED BY <1>3, <2>1 DEF Elsewhere
<1> QED BY <1>2, <1>3 DEF Elsewhere

(* What is known of prev goes to the cache; then everything read is there. *)
LEMMA CacheFilled ==
    ASSUME DTypeOK, NEW i \in Indices, i = idb, NEW p \in 0 .. Len(input[i]), Reading(p),
           cache' = Cached(count), UNCHANGED <<input, pages>>
    PROVE  /\ cache' \in [Indices -> [TagName -> CacheRecord \cup {NoRecord}]]
           /\ \A j \in Indices \ {i} : cache'[j] = cache[j]
           /\ \A t \in TagName : Right(i, t, p)'
           /\ \A t \in TagName : cache'[i][t] \in [page : Nat, entries : Nat] =>
                 cache'[i][t].page \in 1 .. count
           /\ PagesRight(i)'
<1> DEFINE s == input[i]
<1>00. s \in Seq(Record) /\ Len(s) \in Nat
  BY InputParts
<1>0. /\ cache \in [Indices -> [TagName -> CacheRecord \cup {NoRecord}]]
      /\ count \in Nat /\ pages[i] \in [1 .. Len(s) -> Seq(Record)]
  BY DEF DTypeOK
<1>1. \A t \in TagName \ {prev} : Right(i, t, p) /\ Closed(i, t)
  BY DEF Reading, Behind
<1>2. ASSUME cache'[i] = [t \in TagName |-> IF t = prev THEN cache'[i][t] ELSE cache[i][t]]
      PROVE  \A t \in TagName \ {prev} : Linked(i, t)' = Linked(i, t) /\ cache'[i][t] = cache[i][t]
  BY <1>2, LinkedKept
<1>3. CASE p = 0
  <2>1. cache' = cache /\ prev = NoTag /\ writing = 0
    BY <1>3 DEF Reading, Fresh, Cached
  <2>2. \A t \in TagName : t # prev
    BY <2>1, DupIndexAssumption
  <2>3. \A t \in TagName : Linked(i, t)' = Linked(i, t)
    BY <2>1, LinkedKept
  <2>4. \A t \in TagName : Right(i, t, p)'
    BY <1>1, <2>1, <2>2, <2>3, RightKept
  <2>5. \A t \in TagName : cache'[i][t] \in [page : Nat, entries : Nat] =>
          cache'[i][t].page \in 1 .. count
    BY <1>0, <1>1, <2>1, <2>2 DEF Closed
  <2>6. PagesRight(i)'
    <3>1. \A n \in DOMAIN pages[i] : n # writing
      BY <1>00, <1>0, <2>1
    <3>2. \A n \in DOMAIN pages[i] : pages[i][n] # <<>> =>
            \E t \in TagName : pages[i][n] = Linked(i, t)
      BY <3>1 DEF Reading, Behind
    <3> QED BY <2>3, <3>2 DEF PagesRight
  <2> QED BY <1>0, <2>1, <2>4, <2>5, <2>6
<1>4. CASE p # 0
  <2>1. PICK a \in 1 .. p : Group(a, p)
    BY <1>4 DEF Reading
  <2>2. /\ prev = s[p].tag /\ prev \in TagName /\ count \in 1 .. p /\ p \in 1 .. Len(s)
        /\ {k \in 1 .. p : s[k].tag = prev} = a .. p
        /\ s[p] \in Record /\ s \in Seq(Record) /\ Len(s) \in Nat
    BY <1>4, <2>1, InputParts DEF Group
  <2>00. PICK u \in TagName : u = prev
    BY <2>2
  <2> DEFINE c == cache'[i][u]
             l == Linked(i, u)'
  <2>3. /\ cache' = [cache EXCEPT ![i][u] = c]
        /\ a < p => /\ c = [page |-> count, entries |-> p - a + 1]
                    /\ writing = count /\ Len(pages[i][count]) = p - a + 1
                    /\ \A k \in 1 .. p - a + 1 : pages[i][count][k] = s[a + k - 1]
        /\ a = p => c = [line |-> s[p].at] /\ writing = 0
    <3>1. CASE a < p
      <4>1. /\ writing = count /\ count # 0 /\ entry_count = p - a + 1
            /\ first_line = NoRecord
            /\ Len(pages[i][count]) = p - a + 1
            /\ \A k \in 1 .. p - a + 1 : pages[i][count][k] = s[a + k - 1]
        BY <2>1, <3>1 DEF Group
      <4>2. cache' = [cache EXCEPT ![i][prev] = Duplicates(count)]
        BY <4>1 DEF Cached
      <4>3. c = [page |-> count, entries |-> p - a + 1]
        BY <1>0, <2>00, <4>1, <4>2 DEF Duplicates
      <4>4. cache' = [cache EXCEPT ![i][u] = c]
        BY <2>00, <4>1, <4>2, <4>3 DEF Duplicates
      <4> HIDE DEF c
      <4> QED BY <3>1, <4>1, <4>3, <4>4
    <3>2. CASE a = p
      <4>1. writing = 0 /\ first_line = s[p] /\ first_line # NoRecord
        BY <2>1, <2>2, <3>2, DupIndexAssumption DEF Group
      <4>2. cache' = [cache EXCEPT ![i][prev] = Single]
        BY <4>1 DEF Cached
      <4>3. c = [line |-> s[p].at]
        BY <1>0, <2>00, <4>1, <4>2 DEF Single
      <4>4. cache' = [cache EXCEPT ![i][u] = c]
        BY <2>00, <4>1, <4>2, <4>3 DEF Single
      <4> HIDE DEF c
      <4> QED BY <3>2, <4>1, <4>3, <4>4
    <3>3. a < p \/ a = p
      BY <2>2
    <3> HIDE DEF c
    <3> QED BY <3>1, <3>2, <3>3
  <2>4. /\ \A j \in Indices \ {i} : cache'[j] = cache[j]
        /\ \A t \in TagName \ {prev} : Linked(i, t)' = Linked(i, t) /\ cache'[i][t] = cache[i][t]
    <3> HIDE DEF c
    <3>1. cache' = [cache EXCEPT ![i][u] = c]
      BY <2>3
    <3>2. \A j \in Indices \ {i} : cache'[j] = cache[j]
      BY <1>0, <3>1
    <3>3. cache'[i] = [cache[i] EXCEPT ![u] = c]
      BY <1>0, <3>1
    <3>4. cache'[i] = [t \in TagName |-> IF t = prev THEN cache'[i][t] ELSE cache[i][t]]
      BY <1>0, <2>00, <3>3
    <3> QED BY <1>2, <3>2, <3>4
  <2>5. c \in CacheRecord
    <3>1. s[p].at \in Nat /\ p - a + 1 \in Nat /\ count \in Nat /\ (a < p \/ a = p)
      BY <2>2 DEF Record
    <3> HIDE DEF c
    <3>2. CASE a < p
      BY <2>3, <3>1, <3>2 DEF CacheRecord
    <3>3. CASE a = p
      <4>1. c = [line |-> s[p].at]
        BY <2>3, <3>3
      <4>2. c \in [line : Nat]
        BY <3>1, <4>1
      <4> QED BY <4>2 DEF CacheRecord
    <3> QED BY <3>1, <3>2, <3>3
  <2>6. cache' \in [Indices -> [TagName -> CacheRecord \cup {NoRecord}]]
    <3>1. DOMAIN cache' = Indices /\ cache' = [j \in Indices |-> cache'[j]]
      BY <1>0, <2>3
    <3>2. cache'[i] = [t \in TagName |-> cache'[i][t]]
      BY <1>0, <2>3
    <3>3. \A t \in TagName : cache'[i][t] \in CacheRecord \cup {NoRecord}
      BY <1>0, <2>00, <2>4, <2>5
    <3>4. cache'[i] \in [TagName -> CacheRecord \cup {NoRecord}]
      BY <3>2, <3>3
    <3> QED BY <1>0, <2>4, <3>1, <3>4
  <2>7. a < p => l = pages[i][count]
    <3> SUFFICES ASSUME a < p PROVE Linked(i, u)' = pages'[i][count]
      OBVIOUS
    <3>1. c = [page |-> count, entries |-> p - a + 1] /\ c \in [page : Nat, entries : Nat]
      BY <1>0, <2>3
    <3>2. c # NoRecord /\ "line" \notin DOMAIN c /\ c.page = count
      BY <3>1, DupIndexAssumption DEF CacheRecord
    <3> QED BY <3>2 DEF Linked
  <2>8. a = p => l = <<[tag |-> u, at |-> s[p].at]>>
    <3> SUFFICES ASSUME a = p PROVE l = <<[tag |-> u, at |-> s[p].at]>>
      OBVIOUS
    <3>1. c = [line |-> s[p].at] /\ c \in [line : Nat]
      <4>1. s[p].at \in Nat
        BY <2>2 DEF Record
      <4> HIDE DEF c
      <4> QED BY <2>3, <4>1
    <3>2. c # NoRecord /\ "line" \in DOMAIN c /\ c.line = s[p].at
      BY <3>1, DupIndexAssumption DEF CacheRecord
    <3> QED BY <3>2 DEF Linked
  <2>9. Right(i, u, p)'
    <3>1. /\ Len(l) = p - a + 1 /\ \A k \in 1 .. p - a + 1 : l[k] = s[a + k - 1]
          /\ Len(l) > 1 => c.entries = Len(l)
      <4>1. CASE a < p
        BY <2>3, <2>7, <4>1
      <4>2. CASE a = p
        <5>1. s[p] = [tag |-> u, at |-> s[p].at]
          BY <2>00, <2>2 DEF Record
        <5>2. p \in Nat /\ p - a + 1 = 1 /\ Len(l) = 1 /\ l[1] = s[p]
          BY <2>00, <2>2, <2>8, <4>2, <5>1
        <5> HIDE DEF l, c
        <5> QED BY <4>2, <5>2
      <4> QED BY <4>1, <4>2
    <3>2. {k \in 1 .. p : s[k].tag = u} = a .. a + Len(l) - 1
      <4>1. a + Len(l) - 1 = p
        BY <2>2, <3>1
      <4> HIDE DEF l
      <4> QED BY <2>00, <2>2, <4>1
    <3>3. a \in 1 .. Len(s) + 1
      BY <2>2
    <3> HIDE DEF l, c
    <3>4. HasRecords(l, s, u, p)
      BY <3>1, <3>2, <3>3 DEF HasRecords
    <3> QED BY <3>1, <3>4 DEF Right, l, c
  <2>10. \A t \in TagName : Right(i, t, p)'
    BY <1>1, <2>00, <2>4, <2>9, RightKept
  <2>11. \A t \in TagName : cache'[i][t] \in [page : Nat, entries : Nat] =>
           cache'[i][t].page \in 1 .. count
    <3>1. c \in [page : Nat, entries : Nat] => c.page \in 1 .. count
      <4> HIDE DEF c
      <4>1. CASE a < p
        BY <2>2, <2>3, <4>1
      <4>2. CASE a = p
        <5>1. c = [line |-> s[p].at]
          BY <2>3, <4>2
        <5> QED BY <5>1
      <4> QED BY <2>2, <4>1, <4>2
    <3>2. \A t \in TagName \ {u} : cache'[i][t] \in [page : Nat, entries : Nat] =>
            cache'[i][t].page \in 1 .. count
      BY <1>0, <1>1, <2>00, <2>4 DEF Closed
    <3> QED BY <3>1, <3>2
  <2>12. PagesRight(i)'
    <3> SUFFICES ASSUME NEW n \in DOMAIN pages[i], pages[i][n] # <<>>
                 PROVE  \E t \in TagName : pages[i][n] = Linked(i, t)'
      BY DEF PagesRight
    <3>1. CASE n = writing
      <4>1. n # 0
        BY <1>00, <1>0
      <4>2. a < p /\ n = count
        BY <2>3, <3>1, <4>1
      <4> QED BY <2>7, <4>2
    <3>2. CASE n # writing
      <4>1. PICK t \in TagName \ {prev} : pages[i][n] = Linked(i, t)
        BY <3>2 DEF Reading, Behind
      <4> QED BY <2>4, <4>1
    <3> QED BY <3>1, <3>2
  <2> QED BY <2>4, <2>6, <2>10, <2>11, <2>12
<1> QED BY <1>3, <1>4

(* The record at hand is that after the first p. *)
LEMMA NextRecord ==
    ASSUME DTypeOK, NEW i \in Indices, i = idb, NEW p \in 0 .. Len(input[i]), Reading(p),
           rest # <<>>
    PROVE  /\ p + 1 \in 1 .. Len(input[i]) /\ Head(rest) = input[i][p + 1]
           /\ Head(rest) \in Record /\ Head(rest).tag \in TagName
           /\ Tail(rest) \in Seq(Record)
           /\ Len(Tail(rest)) = Len(input[i]) - (p + 1)
           /\ \A k \in 1 .. Len(Tail(rest)) : Tail(rest)[k] = input[i][p + 1 + k]
<1> DEFINE s == input[i]
           n == Len(s)
           l == Len(rest)
           u == Tail(rest)
<1>1. rest \in Seq(Record) /\ n \in Nat
  BY InputParts DEF DTypeOK
<1>2. l = n - p /\ \A k \in 1 .. l : rest[k] = s[p + k]
  BY DEF Reading
<1>3. /\ l \in Nat /\ l > 0 /\ Head(rest) = rest[1] /\ u \in Seq(Record)
      /\ Len(u) = l - 1 /\ \A k \in 1 .. l - 1 : u[k] = rest[k + 1]
  BY <1>1
<1>0. p \in 0 .. n
  OBVIOUS
<1> HIDE DEF s, n, l, u
<1>4. p + 1 \in 1 .. n /\ Head(rest) = s[p + 1]
  BY <1>0, <1>1, <1>2, <1>3
<1>5. \A k \in 1 .. l - 1 : u[k] = s[p + 1 + k]
  <2> TAKE k \in 1 .. l - 1
  <2>1. k + 1 \in 1 .. l /\ p + (k + 1) = p + 1 + k
    BY <1>0, <1>1, <1>3
  <2> QED BY <1>2, <1>3, <2>1
<1>6. Head(rest) \in Record /\ Head(rest).tag \in TagName
  BY <1>4, InputParts DEF s, n
<1>7. Len(u) = n - (p + 1)
  BY <1>0, <1>1, <1>2, <1>3
<1>8. \A k \in 1 .. Len(u) : u[k] = s[p + 1 + k]
  BY <1>3, <1>5
<1> QED BY <1>3, <1>4, <1>6, <1>7, <1>8 DEF s, n, u

LEMMA NewTagStep ==
    ASSUME DTypeOK, NEW i \in Indices, i = idb, NEW p \in 0 .. Len(input[i]), Reading(p),
           rest # <<>>, NewTag(Head(rest)), rest' = Tail(rest), UNCHANGED <<input, idb>>
    PROVE  DTypeOK' /\ Reading(p + 1)' /\ \A j \in Indices \ {i} : cache'[j] = cache[j]
<1> DEFINE s == input[i]
           r == Head(rest)
<1>1. /\ p + 1 \in 1 .. Len(s) /\ r = s[p + 1] /\ r \in Record /\ r.tag \in TagName
      /\ rest' \in Seq(Record) /\ Len(rest') = Len(s) - (p + 1)
      /\ \A k \in 1 .. Len(rest') : rest'[k] = s[p + 1 + k]
  BY NextRecord
<1>2. /\ r.tag # prev /\ cache' = Cached(count) /\ count' = count + 1 /\ prev' = r.tag
      /\ first_line' = r /\ entry_count' = 0 /\ writing' = 0 /\ pages' = pages
  BY DEF NewTag, ClosedPage
<1>3. /\ cache' \in [Indices -> [TagName -> CacheRecord \cup {NoRecord}]]
      /\ \A j \in Indices \ {i} : cache'[j] = cache[j]
      /\ \A t \in TagName : Right(i, t, p)'
      /\ \A t \in TagName : cache'[i][t] \in [page : Nat, entries : Nat] =>
            cache'[i][t].page \in 1 .. count
      /\ PagesRight(i)'
  BY <1>2, CacheFilled
<1>4. DTypeOK'
  <2>1. input' = input /\ Indices' = Indices /\ idb' = idb
    BY DEF Indices
  <2>2. count' \in Nat
    BY <1>2 DEF DTypeOK
  <2> HIDE DEF s, r
  <2> QED BY <1>1, <1>2, <1>3, <2>1, <2>2 DEF DTypeOK
<1>5. /\ s \in Seq(Record) /\ Len(s) \in Nat /\ p \in Nat /\ count \in Nat
      /\ pages[i] \in [1 .. Len(s) -> Seq(Record)]
  BY InputParts DEF DTypeOK
<1>6. \A k \in 1 .. p : s[k].tag # r.tag
  <2> SUFFICES ASSUME NEW k \in 1 .. p, s[k].tag = r.tag PROVE FALSE
    OBVIOUS
  <2>1. p # 0 /\ prev = s[p].tag
    BY <1>5 DEF Reading, Group
  <2>2. s[p].tag = s[k].tag
    <3>1. k \in 1 .. Len(s) /\ p + 1 \in 1 .. Len(s) /\ p \in k .. p + 1
      BY <1>1, <1>5
    <3> HIDE DEF s, r
    <3> QED BY <1>1, <3>1, InputParts DEF s
  <2> QED BY <1>2, <2>1, <2>2
<1>7. count <= p /\ (writing = 0 \/ writing = count) /\ (p = 0 => writing = 0)
  BY <1>5 DEF Reading, Fresh, Group
<1>8. \A n \in DOMAIN pages[i] : pages[i][n] # <<>> => n <= count
  <2> SUFFICES ASSUME NEW n \in DOMAIN pages[i], pages[i][n] # <<>> PROVE n <= count
    OBVIOUS
  <2>1. n = writing \/ n < count
    BY DEF Reading, Behind
  <2>2. n \in Nat /\ n # 0
    BY <1>5
  <2> QED BY <1>5, <1>7, <2>1, <2>2
<1>9. Group(p + 1, p + 1)'
  <2>1. count + 1 \in 1 .. p + 1 /\ count + 1 \in DOMAIN pages[i] /\ pages[i][count + 1] = <<>>
    BY <1>1, <1>5, <1>7, <1>8
  <2>2. {k \in 1 .. p + 1 : s[k].tag = r.tag} = p + 1 .. p + 1
    <3>1. p \in Nat /\ s[p + 1].tag = r.tag
      BY <1>1, <1>5
    <3> HIDE DEF s, r
    <3> QED BY <1>6, <3>1
  <2> HIDE DEF s, r
  <2> QED BY <1>1, <1>2, <2>1, <2>2 DEF Group, s
<1>10. Behind(p + 1)'
  <2>1. ASSUME NEW t \in TagName \ {r.tag} PROVE Right(i, t, p + 1)' /\ Closed(i, t)'
    <3>1. Right(i, t, p)' /\ s[p + 1].tag # t
      BY <1>1, <1>3, <2>1
    <3>2. HasRecords(Linked(i, t), input[i], t, p)'
      BY <3>1 DEF Right
    <3>3. HasRecords(Linked(i, t), input[i], t, p + 1)'
      BY <1>5, <3>1, <3>2, MoreRecords
    <3>4. Closed(i, t)'
      BY <1>2, <1>3, <1>5 DEF Closed
    <3> QED BY <3>1, <3>3, <3>4 DEF Right
  <2>2. ASSUME NEW n \in DOMAIN pages[i], pages[i][n] # <<>>
        PROVE  n < count + 1 /\ \E t \in TagName \ {r.tag} : pages[i][n] = Linked(i, t)'
    <3>1. PICK t \in TagName : pages[i][n] = Linked(i, t)'
      BY <1>2, <1>3, <2>2 DEF PagesRight
    <3>2. Len(pages[i][n]) > 0 /\ Len(pages[i][n]) \in Nat
      BY <1>5, <2>2
    <3>3. HasRecords(pages[i][n], s, t, p)
      BY <1>3, <3>1 DEF Right
    <3>4. t # r.tag
      <4>1. \E k \in 1 .. p : s[k].tag = t
        <5> HIDE DEF s
        <5> QED BY <1>5, <3>2, <3>3, LinkedHasOne
      <4> QED BY <1>6, <4>1
    <3>5. n <= count /\ n \in Nat
      BY <1>5, <1>8, <2>2
    <3> QED BY <1>5, <3>1, <3>4, <3>5
  <2> QED BY <1>2, <2>1, <2>2 DEF Behind
<1>11. Reading(p + 1)'
  BY <1>1, <1>5, <1>9, <1>10 DEF Reading
<1> QED BY <1>3, <1>4, <1>11

LEMMA AppendedOne ==
    ASSUME NEW x \in Seq(Record), NEW r \in Record
    PROVE  /\ x \o <<r>> \in Seq(Record) /\ Len(x \o <<r>>) = Len(x) + 1
           /\ \A k \in 1 .. Len(x) : (x \o <<r>>)[k] = x[k]
           /\ (x \o <<r>>)[Len(x) + 1] = r
OBVIOUS

LEMMA Appended ==
    ASSUME NEW x \in Seq(Record), NEW y \in Seq(Record), NEW r \in Record
    PROVE  /\ x \o y \o <<r>> \in Seq(Record) /\ Len(x \o y \o <<r>>) = Len(x) + Len(y) + 1
           /\ \A k \in 1 .. Len(x) : (x \o y \o <<r>>)[k] = x[k]
           /\ \A k \in 1 .. Len(y) : (x \o y \o <<r>>)[Len(x) + k] = y[k]
           /\ (x \o y \o <<r>>)[Len(x) + Len(y) + 1] = r
<1> DEFINE z == x \o y
<1>1. /\ z \in Seq(Record) /\ Len(z) = Len(x) + Len(y) /\ Len(x) \in Nat /\ Len(y) \in Nat
      /\ \A k \in 1 .. Len(x) : z[k] = x[k]
      /\ \A k \in 1 .. Len(y) : z[Len(x) + k] = y[k]
  OBVIOUS
<1> HIDE DEF z
<1>2. /\ z \o <<r>> \in Seq(Record) /\ Len(z \o <<r>>) = Len(z) + 1
      /\ \A k \in 1 .. Len(z) : (z \o <<r>>)[k] = z[k]
      /\ (z \o <<r>>)[Len(z) + 1] = r
  BY <1>1, AppendedOne
<1>3. /\ \A k \in 1 .. Len(x) : (z \o <<r>>)[k] = x[k]
      /\ \A k \in 1 .. Len(y) : (z \o <<r>>)[Len(x) + k] = y[k]
  BY <1>1, <1>2
<1> QED BY <1>1, <1>2, <1>3 DEF z

LEMMA SameTagStep ==
    ASSUME DTypeOK, NEW i \in Indices, i = idb, NEW p \in 0 .. Len(input[i]), Reading(p),
           rest # <<>>, SameTag(Head(rest)), rest' = Tail(rest), UNCHANGED <<input, idb>>
    PROVE  DTypeOK' /\ Reading(p + 1)' /\ \A j \in Indices \ {i} : pages'[j] = pages[j]
<1> DEFINE s == input[i]
           r == Head(rest)
           w == IF first_line = NoRecord THEN <<>> ELSE <<first_line>>
           q == IF w = <<>> THEN writing ELSE count
<1>1. /\ p + 1 \in 1 .. Len(s) /\ r = s[p + 1] /\ r \in Record /\ r.tag \in TagName
      /\ rest' \in Seq(Record) /\ Len(rest') = Len(s) - (p + 1)
      /\ \A k \in 1 .. Len(rest') : rest'[k] = s[p + 1 + k]
  BY NextRecord
<1>2. /\ r.tag = prev /\ writing' = q
      /\ pages' = [pages EXCEPT ![i][q] = @ \o w \o <<r>>]
      /\ entry_count' = entry_count + Len(w) + 1
      /\ first_line' = NoRecord /\ UNCHANGED <<prev, count, cache>>
  BY DEF SameTag
<1>3. /\ s \in Seq(Record) /\ Len(s) \in Nat /\ p \in Nat /\ count \in Nat
      /\ pages[i] \in [1 .. Len(s) -> Seq(Record)] /\ pages = [j \in Indices |-> pages[j]]
      /\ first_line \in Record \cup {NoRecord}
  BY InputParts DEF DTypeOK
<1>4. p # 0
  BY <1>1, <1>2, DupIndexAssumption DEF Reading, Fresh
<1>5. PICK a \in 1 .. p : Group(a, p)
  BY <1>4 DEF Reading
<1> DEFINE old == pages[i][count]
           new == old \o w \o <<r>>
<1>6. /\ prev = s[p].tag /\ count \in 1 .. p
      /\ {k \in 1 .. p : s[k].tag = prev} = a .. p
  BY <1>5 DEF Group
<1>70. p \in 1 .. Len(s) /\ s[p] \in Record /\ a \in Nat
  BY <1>1, <1>3, <1>4, InputParts
<1>71. first_line # NoRecord => first_line \in Record
  BY <1>3
<1>72. \/ /\ a = p /\ first_line = s[p] /\ first_line # NoRecord /\ entry_count = 0
          /\ writing = 0 /\ old = <<>>
      \/ /\ a < p /\ first_line = NoRecord /\ writing = count /\ entry_count = p - a + 1
         /\ Len(old) = p - a + 1 /\ \A k \in 1 .. p - a + 1 : old[k] = s[a + k - 1]
  BY <1>5, <1>70, DupIndexAssumption DEF Group
<1> HIDE DEF s, r
<1>73. count \in 1 .. Len(s)
  BY <1>3, <1>6, <1>70
<1>74. old \in Seq(Record) /\ w \in Seq(Record)
  BY <1>3, <1>71, <1>73
<1>7. /\ q = count /\ entry_count' = p - a + 2
      /\ Len(new) = p - a + 2 /\ \A k \in 1 .. p - a + 2 : new[k] = s[a + k - 1]
  <2>1. /\ Len(new) = Len(old) + Len(w) + 1
        /\ \A k \in 1 .. Len(old) : new[k] = old[k]
        /\ \A k \in 1 .. Len(w) : new[Len(old) + k] = w[k]
        /\ new[Len(old) + Len(w) + 1] = s[p + 1]
    <3> HIDE DEF old, w
    <3>1. r \in Record /\ r = s[p + 1]
      BY <1>1
    <3>2. /\ Len(new) = Len(old) + Len(w) + 1
          /\ \A k \in 1 .. Len(old) : new[k] = old[k]
          /\ \A k \in 1 .. Len(w) : new[Len(old) + k] = w[k]
          /\ new[Len(old) + Len(w) + 1] = r
      BY <1>74, <3>1, Appended
    <3> QED BY <3>1, <3>2
  <2>2. CASE a = p
    <3>1. Len(old) = 0 /\ w = <<s[p]>> /\ Len(w) = 1 /\ w[1] = s[p] /\ q = count
          /\ entry_count = 0
      BY <1>72, <2>2
    <3> HIDE DEF new, w, old, q
    <3>2. Len(new) = 2 /\ new[1] = s[p] /\ new[2] = s[p + 1]
      BY <2>1, <3>1
    <3> QED BY <1>2, <1>3, <2>2, <3>1, <3>2
  <2>3. CASE a < p
    <3>0. w = <<>> /\ q = count
      BY <1>72, <2>3
    <3>1. /\ w = <<>> /\ Len(w) = 0 /\ q = count /\ entry_count = p - a + 1
          /\ Len(old) = p - a + 1 /\ \A k \in 1 .. p - a + 1 : old[k] = s[a + k - 1]
      <4> HIDE DEF old, w, q
      <4> QED BY <1>72, <2>3, <3>0
    <3> HIDE DEF new, w, old, q
    <3>2. Len(new) = p - a + 2 /\ new[p - a + 2] = s[p + 1] /\ a + (p - a + 2) - 1 = p + 1
      <4>1. Len(old) + Len(w) + 1 = p - a + 2 /\ a + (p - a + 2) - 1 = p + 1
        BY <1>3, <1>70, <3>1
      <4> QED BY <2>1, <4>1
    <3>3. entry_count' = p - a + 2
      BY <1>2, <1>3, <1>70, <3>1
    <3>4. ASSUME NEW k \in 1 .. p - a + 2 PROVE new[k] = s[a + k - 1]
      <4>1. CASE k = p - a + 2
        BY <3>2, <4>1
      <4>2. CASE k # p - a + 2
        <5>1. k \in 1 .. p - a + 1
          BY <1>3, <1>70, <4>2
        <5> QED BY <2>1, <3>1, <5>1
      <4> QED BY <4>1, <4>2
    <3> QED BY <3>1, <3>2, <3>3, <3>4
  <2>4. a = p \/ a < p
    BY <1>72
  <2> QED BY <2>2, <2>3, <2>4
<1>8. /\ \A j \in Indices \ {i} : pages'[j] = pages[j]
      /\ pages'[i] = [pages[i] EXCEPT ![count] = new]
      /\ pages' = [j \in Indices |-> pages'[j]]
  BY <1>2, <1>3, <1>7
<1>9. new \in Seq(Record)
  BY <1>1, <1>74, Appended
<1> HIDE DEF w, q, new, old
<1>10. DTypeOK'
  <2>1. Indices' = Indices /\ input' = input /\ idb' = idb
    BY DEF Indices
  <2>2. entry_count' \in Nat /\ writing' \in Nat
    BY <1>2, <1>3, <1>7, <1>70
  <2>3. pages'[i] \in [1 .. Len(s) -> Seq(Record)]
    BY <1>3, <1>8, <1>9
  <2>4. \A j \in Indices : pages'[j] \in [1 .. Len(input[j]) -> Seq(Record)]
    BY <1>8, <2>3 DEF DTypeOK, s
  <2> QED BY <1>1, <1>2, <1>8, <2>1, <2>2, <2>4 DEF DTypeOK
<1>11. Group(a, p + 1)'
  <2>1. {k \in 1 .. p + 1 : s[k].tag = prev} = a .. p + 1
    <3>1. {k \in 1 .. p + 1 : s[k].tag = prev} = {k \in 1 .. p : s[k].tag = prev} \cup {p + 1}
      <4>1. p \in Nat /\ s[p + 1].tag = prev /\ 1 .. p + 1 = (1 .. p) \cup {p + 1}
        <5>1. p \in Nat /\ s[p + 1].tag = prev
          BY <1>1, <1>2, <1>3
        <5> QED BY <5>1
      <4> QED BY <4>1
    <3>2. (a .. p) \cup {p + 1} = a .. p + 1
      BY <1>3, <1>70
    <3> QED BY <1>6, <3>1, <3>2
  <2>2. pages'[i][count] = new
    BY <1>3, <1>8, <1>73
  <2>3. a # p + 1 /\ (p + 1) - a + 1 = p - a + 2 /\ count \in 1 .. p + 1
    BY <1>3, <1>6, <1>70
  <2> QED BY <1>1, <1>2, <1>7, <2>1, <2>2, <2>3 DEF Group, s
<1>12. Behind(p + 1)'
  <2>0. Behind(p)
    BY DEF Reading
  <2>1. ASSUME NEW t \in TagName \ {prev}
        PROVE  Linked(i, t)' = Linked(i, t) /\ Right(i, t, p + 1)' /\ Closed(i, t)'
    <3>1. Right(i, t, p) /\ Closed(i, t)
      BY <2>0 DEF Behind
    <3>2. Linked(i, t)' = Linked(i, t)
      <4>1. cache[i][t] \in [page : Nat, entries : Nat] =>
              pages'[i][cache[i][t].page] = pages[i][cache[i][t].page]
        BY <1>3, <1>8, <3>1 DEF Closed
      <4> QED BY <1>2, <4>1, LinkedKept
    <3>3. HasRecords(Linked(i, t), s, t, p + 1)
      BY <1>1, <1>2, <1>3, <2>1, <3>1, MoreRecords DEF Right, s
    <3> QED BY <1>2, <3>1, <3>2, <3>3 DEF Right, Closed, s
  <2>2. ASSUME NEW n \in DOMAIN pages'[i], pages'[i][n] # <<>>, n # writing'
        PROVE  n < count /\ \E t \in TagName \ {prev} : pages'[i][n] = Linked(i, t)'
    <3>1. n # count /\ n \in DOMAIN pages[i] /\ pages'[i][n] = pages[i][n]
      BY <1>2, <1>3, <1>7, <1>8, <2>2
    <3>2. n # writing
      <4>1. n # 0
        BY <1>3, <3>1
      <4> QED BY <1>72, <3>1, <4>1
    <3>3. n < count /\ \E t \in TagName \ {prev} : pages[i][n] = Linked(i, t)
      BY <2>0, <2>2, <3>1, <3>2 DEF Behind
    <3> QED BY <2>1, <3>1, <3>3
  <2> QED BY <1>2, <2>1, <2>2 DEF Behind
<1>13. Reading(p + 1)'
  <2>1. Len(rest') = Len(input[i]) - (p + 1) /\ p + 1 # 0 /\ a \in 1 .. p + 1
    BY <1>1, <1>3, <1>70 DEF s
  <2>2. \A k \in 1 .. Len(rest') : rest'[k] = input[i][p + 1 + k]
    BY <1>1 DEF s
  <2> QED BY <1>11, <1>12, <2>1, <2>2 DEF Reading
<1> QED BY <1>8, <1>10, <1>13

LEMMA NothingRead ==
    ASSUME NEW s, Len(s) \in Nat, NEW t
    PROVE  HasRecords(<<>>, s, t, 0)
<1>1. {k \in 1 .. 0 : s[k].tag = t} = 1 .. 1 + 0 - 1
  OBVIOUS
<1>2. Len(<<>>) = 0 /\ 1 \in 1 .. Len(s) + 1 /\ \A k \in 1 .. 0 : <<>>[k] = s[1 + k - 1]
  OBVIOUS
<1> QED BY <1>1, <1>2 DEF HasRecords

LEMMA IndexAtHand == ASSUME DTypeOK, ~IsOver PROVE idb \in Indices
BY IndicesAre DEF DTypeOK, IsOver

LEMMA AtStart == DupInit => DInv
<1> SUFFICES ASSUME DupInit PROVE DInv
  OBVIOUS
<1>1. /\ input \in [Indices -> Inputs] /\ idb = 1 /\ rest = StartOf(1) /\ Fresh
      /\ pages = [i \in Indices |-> [n \in 1 .. Len(input[i]) |-> <<>>]]
      /\ cache = [i \in Indices |-> [t \in TagName |-> NoRecord]]
  BY DEF DupInit, Fresh
<1>2. \A i \in Indices : input[i] \in Seq(Record) /\ Len(input[i]) \in Nat
  BY <1>1, DupIndexAssumption
<1>3. rest \in Seq(Record) /\ (1 \notin Indices => rest = <<>>)
  BY <1>1, <1>2 DEF StartOf
<1>4. \A i \in Indices : pages[i] = [n \in 1 .. Len(input[i]) |-> <<>>]
  BY <1>1
<1>5. \A i \in Indices : pages[i] \in [1 .. Len(input[i]) -> Seq(Record)]
  <2> TAKE i \in Indices
  <2>1. <<>> \in Seq(Record) /\ pages[i] = [n \in 1 .. Len(input[i]) |-> <<>>]
    BY <1>4
  <2> QED BY <2>1
<1>6. DTypeOK
  <2>1. pages = [i \in Indices |-> pages[i]] /\ idb \in 1 .. Len(TagFiles) + 1
    BY <1>1, IndicesAre
  <2>2. cache \in [Indices -> [TagName -> CacheRecord \cup {NoRecord}]]
    BY <1>1
  <2> QED BY <1>1, <1>3, <1>5, <2>1, <2>2 DEF DTypeOK, Fresh
<1>7. Elsewhere
  BY <1>1, <1>4 DEF Elsewhere
<1>8. ASSUME 1 \in Indices PROVE Reading(0)
  <2>1. rest = input[1] /\ input[1] \in Seq(Record) /\ Len(input[1]) \in Nat
    BY <1>1, <1>2, <1>8 DEF StartOf
  <2>2. \A t \in TagName : cache[1][t] = NoRecord
    BY <1>1, <1>8
  <2>3. Behind(0)
    <3>1. ASSUME NEW t \in TagName PROVE Right(1, t, 0) /\ Closed(1, t)
      <4>1. Linked(1, t) = <<>>
        BY <2>2 DEF Linked
      <4>2. cache[1][t] \notin [page : Nat, entries : Nat]
        BY <2>2, DupIndexAssumption DEF CacheRecord
      <4>3. HasRecords(<<>>, input[1], t, 0)
        BY <2>1, NothingRead
      <4> QED BY <4>1, <4>2, <4>3 DEF Right, Closed
    <3>2. \A n \in DOMAIN pages[1] : pages[1][n] = <<>>
      BY <1>4, <1>8
    <3> QED BY <1>1, <3>1, <3>2 DEF Behind
  <2>4. Len(rest) = Len(input[1]) - 0 /\ \A k \in 1 .. Len(rest) : rest[k] = input[1][0 + k]
    BY <2>1
  <2> QED BY <1>1, <2>3, <2>4 DEF Reading
<1>9. idb \in Indices => \E p \in 0 .. Len(input[idb]) : Reading(p)
  BY <1>1, <1>2, <1>8
<1>10. IsOver => rest = <<>>
  BY <1>1, <1>3, IndicesAre DEF IsOver
<1> QED BY <1>6, <1>7, <1>9, <1>10 DEF DInv

LEMMA ReadRecordStep == ASSUME DInv, ReadRecord PROVE DInv'
<1>1. ~IsOver /\ rest # <<>> /\ rest' = Tail(rest) /\ UNCHANGED <<input, idb>>
  BY DEF ReadRecord
<1>2. DTypeOK /\ Elsewhere /\ idb \in Indices
  BY <1>1, IndexAtHand DEF DInv
<1>3. PICK p \in 0 .. Len(input[idb]) : Reading(p)
  BY <1>2 DEF DInv
<1>4. p + 1 \in 0 .. Len(input[idb])
  BY <1>1, <1>2, <1>3, NextRecord
<1>5. CASE NewTag(Head(rest))
  <2>1. DTypeOK' /\ Reading(p + 1)' /\ \A j \in Indices \ {idb} : cache'[j] = cache[j]
    BY <1>1, <1>2, <1>3, <1>5, NewTagStep
  <2>2. pages' = pages
    BY <1>5 DEF NewTag
  <2>3. Elsewhere'
    BY <1>1, <1>2, <2>1, <2>2, ElsewhereKept
  <2> QED BY <1>1, <1>4, <2>1, <2>3 DEF DInv, IsOver
<1>6. CASE SameTag(Head(rest))
  <2>1. DTypeOK' /\ Reading(p + 1)' /\ \A j \in Indices \ {idb} : pages'[j] = pages[j]
    BY <1>1, <1>2, <1>3, <1>6, SameTagStep
  <2>2. cache' = cache
    BY <1>6 DEF SameTag
  <2>3. Elsewhere'
    BY <1>1, <1>2, <2>1, <2>2, ElsewhereKept
  <2> QED BY <1>1, <1>4, <2>1, <2>3 DEF DInv, IsOver
<1> QED BY <1>5, <1>6 DEF ReadRecord

LEMMA EndOfTagFileStep == ASSUME DInv, EndOfTagFile PROVE DInv'
<1>1. /\ ~IsOver /\ rest = <<>> /\ cache' = Cached(count) /\ UNCHANGED <<input, pages>>
      /\ idb' = idb + 1 /\ rest' = StartOf(idb + 1) /\ Fresh'
  BY DEF EndOfTagFile, Fresh
<1>2. DTypeOK /\ Elsewhere /\ idb \in Indices
  BY <1>1, IndexAtHand DEF DInv
<1>3. PICK p \in 0 .. Len(input[idb]) : Reading(p)
  BY <1>2 DEF DInv
<1>4. p = Len(input[idb])
  <2>1. Len(rest) = 0 /\ Len(rest) = Len(input[idb]) - p /\ Len(input[idb]) \in Nat
    BY <1>1, <1>2, <1>3, InputParts DEF Reading
  <2> QED BY <2>1
<1>0. PICK over \in Indices : over = idb
  BY <1>2
<1>5. /\ cache' \in [Indices -> [TagName -> CacheRecord \cup {NoRecord}]]
      /\ \A j \in Indices \ {idb} : cache'[j] = cache[j]
      /\ \A t \in TagName : Right(over, t, p)'
      /\ PagesRight(over)'
  <2>1. p \in 0 .. Len(input[over])
    BY <1>0
  <2> QED BY <1>0, <1>1, <1>2, <1>3, <2>1, CacheFilled
<1>6. idb \in 1 .. Len(TagFiles) /\ Indices = 1 .. Len(TagFiles) /\ Len(TagFiles) \in Nat
  BY <1>2, IndicesAre
<1>7. \A i \in Indices : input[i] \in Seq(Record) /\ Len(input[i]) \in Nat
  BY <1>2, InputParts
<1>8. DTypeOK'
  <2>1. rest' \in Seq(Record)
    BY <1>1, <1>7 DEF StartOf
  <2>2. idb' \in 1 .. Len(TagFiles) + 1
    BY <1>1, <1>6
  <2> QED BY <1>1, <1>2, <1>5, <2>1, <2>2 DEF DTypeOK, Fresh, Indices
<1>9. Elsewhere'
  <2>1. ASSUME NEW i \in 1 .. idb
        PROVE  (\A t \in TagName : Right(i, t, Len(input[i]))') /\ PagesRight(i)'
    <3>1. CASE i = over
      BY <1>0, <1>1, <1>4, <1>5, <3>1
    <3>2. CASE i # over
      <4>1. i \in 1 .. idb - 1 /\ i \in Indices /\ cache'[i] = cache[i]
        BY <1>0, <1>5, <1>6, <3>2
      <4>2. (\A t \in TagName : Right(i, t, Len(input[i]))) /\ PagesRight(i)
        BY <1>2, <4>1 DEF Elsewhere
      <4> QED BY <1>1, <1>2, <4>1, <4>2, FileKept
    <3> QED BY <3>1, <3>2
  <2>2. ASSUME NEW i \in Indices, i > idb
        PROVE  /\ \A n \in DOMAIN pages'[i] : pages'[i][n] = <<>>
               /\ \A t \in TagName : cache'[i][t] = NoRecord
    BY <1>1, <1>2, <1>5, <1>6, <2>2 DEF Elsewhere
  <2>3. idb' - 1 = idb /\ \A i \in Indices : i > idb' => i > idb
    BY <1>1, <1>6
  <2>4. Indices' = Indices /\ input' = input
    BY <1>1 DEF Indices
  <2> QED BY <2>1, <2>2, <2>3, <2>4 DEF Elsewhere
<1>10. ASSUME NEW i \in Indices, i = idb' PROVE Reading(0)'
  <2>1. rest' = input[i] /\ input[i] \in Seq(Record) /\ Len(input[i]) \in Nat
    BY <1>1, <1>7, <1>10 DEF StartOf
  <2>2. i > idb /\ i # idb
    BY <1>1, <1>6, <1>10
  <2>3. \A t \in TagName : cache'[i][t] = NoRecord
    BY <1>2, <1>5, <2>2 DEF Elsewhere
  <2>4. \A n \in DOMAIN pages'[i] : pages'[i][n] = <<>>
    BY <1>1, <1>2, <2>2 DEF Elsewhere
  <2>5. ASSUME NEW t \in TagName PROVE Right(i, t, 0)' /\ Closed(i, t)'
    <3>1. Linked(i, t)' = <<>>
      BY <2>3 DEF Linked
    <3>2. cache'[i][t] \notin [page : Nat, entries : Nat]
      BY <2>3, DupIndexAssumption DEF CacheRecord
    <3>3. HasRecords(<<>>, input[i], t, 0)
      BY <2>1, NothingRead
    <3> QED BY <1>1, <3>1, <3>2, <3>3 DEF Right, Closed
  <2>6. Behind(0)'
    BY <1>10, <2>4, <2>5 DEF Behind
  <2>7. Len(rest') = Len(input[i]) - 0 /\ \A k \in 1 .. Len(rest') : rest'[k] = input[i][0 + k]
    BY <2>1
  <2> QED BY <1>1, <1>10, <2>6, <2>7 DEF Reading
<1>11. idb' \in Indices => \E j \in 0 .. Len(input[idb']) : Reading(j)'
  BY <1>7, <1>10
<1>12. IsOver' => rest' = <<>>
  BY <1>1, <1>6 DEF IsOver, StartOf
<1> QED BY <1>1, <1>8, <1>9, <1>11, <1>12 DEF DInv, Indices

LEMMA DInvHolds == DupSpec => []DInv
<1>1. DInv /\ [DupNext]_dvars => DInv'
  <2> SUFFICES ASSUME DInv, [DupNext]_dvars PROVE DInv'
    OBVIOUS
  <2>1. CASE ReadRecord
    BY <2>1, ReadRecordStep
  <2>2. CASE EndOfTagFile
    BY <2>2, EndOfTagFileStep
  <2>3. CASE UNCHANGED dvars
    <3>1. /\ UNCHANGED <<input, idb, rest, prev, first_line, count, entry_count, writing>>
          /\ UNCHANGED <<pages, cache>> /\ DTypeOK /\ Elsewhere
      BY <2>3 DEF dvars, DInv
    <3>2. DTypeOK'
      BY <3>1 DEF DTypeOK, Indices
    <3>3. Elsewhere'
      BY <3>1, ElsewhereKept
    <3>4. ASSUME NEW i \in Indices, i = idb, NEW p \in 0 .. Len(input[i]), Reading(p)
          PROVE  Reading(p)'
      <4>1. \A t \in TagName : Linked(i, t)' = Linked(i, t)
        BY <3>1, LinkedKept
      <4>2. ASSUME NEW t \in TagName, Right(i, t, p), Closed(i, t)
            PROVE  Right(i, t, p)' /\ Closed(i, t)'
        BY <3>1, <4>1, <4>2, RightKept DEF Closed
      <4>3. Behind(p)'
        BY <3>1, <3>4, <4>1, <4>2 DEF Reading, Behind
      <4>4. \A a \in 1 .. p : Group(a, p) => Group(a, p)'
        BY <3>1 DEF Group
      <4>5. Fresh => Fresh'
        BY <3>1 DEF Fresh
      <4> QED BY <3>1, <3>4, <4>3, <4>4, <4>5 DEF Reading
    <3>5. idb' \in Indices => \E p \in 0 .. Len(input'[idb']) : Reading(p)'
      BY <2>3, <3>1, <3>4 DEF DInv
    <3> QED BY <2>3, <3>1, <3>2, <3>3, <3>5 DEF DInv, IsOver, Indices
  <2> QED BY <2>1, <2>2, <2>3 DEF DupNext, DupEnd
<1> QED BY AtStart, <1>1, PTL DEF DupSpec

(* The link of each tag of a tag file that is over leads to the records of *)
(* that tag, all of them, in order, and no others, through a page when     *)
(* there are several, with as many entries as announced; and no page is    *)
(* there that is not linked: makedupindex and put_anchor, for any number   *)
(* of tag files and any records of them in which those of a tag lie        *)
(* together.                                                               *)
THEOREM GroupsRightHolds == DupSpec => []GroupsRight
<1>1. DInv => GroupsRight
  BY DEF DInv, Elsewhere, Right, PagesRight, GroupsRight
<1> QED BY DInvHolds, <1>1, PTL
-----------------------------------------------------------------------------
(* A set of numbers has a least one, and a bounded one a greatest.         *)
LEMMA LeastIs ==
    ASSUME NEW S \in SUBSET Nat, S # {}
    PROVE  Min(S) \in S /\ \A y \in S : Min(S) <= y
<1>1. PICK x \in S : \A y \in S : ~ (<<y, x>> \in OpToRel(<, Nat))
  BY NatLessThanWellFounded, WFMin
<1>2. \A y \in S : x <= y
  <2> SUFFICES ASSUME NEW y \in S, ~(x <= y) PROVE FALSE
    OBVIOUS
  <2>1. <<y, x>> \in Nat \X Nat /\ y < x
    OBVIOUS
  <2>2. <<y, x>> \in {ss \in Nat \X Nat : ss[1] < ss[2]}
    BY <2>1
  <2>3. <<y, x>> \in OpToRel(<, Nat)
    BY <2>2 DEF OpToRel
  <2> QED BY <1>1, <2>3
<1> QED BY <1>2 DEF Min

LEMMA GreatestIs ==
    ASSUME NEW n \in Nat, NEW S \in SUBSET (0 .. n), S # {}
    PROVE  Max(S) \in S /\ \A y \in S : y <= Max(S)
<1> DEFINE T == {n - y : y \in S}
<1>1. T \in SUBSET Nat /\ T # {}
  <2>1. \A y \in S : y \in 0 .. n /\ n - y \in Nat
    OBVIOUS
  <2> QED BY <2>1
<1>2. PICK x \in T : \A y \in T : x <= y
  BY <1>1, LeastIs
<1>3. PICK z \in S : x = n - z
  BY <1>2
<1>4. \A y \in S : z >= y
  BY <1>2, <1>3
<1> QED BY <1>4 DEF Max

LEMMA DbIs ==
    /\ Range(Db) = {"GTAGS", "GRTAGS", "GSYMS"} /\ Len(Db) = 3 /\ DOMAIN Db = 1 .. 3
    /\ \A k \in 1 .. 3 : Db[k] \in Range(Db)
    /\ Db[1] = "GTAGS" /\ Db[2] = "GRTAGS" /\ Db[3] = "GSYMS"
<1>1. Len(Db) = 3 /\ DOMAIN Db = 1 .. 3 /\ Db[1] = "GTAGS" /\ Db[2] = "GRTAGS" /\ Db[3] = "GSYMS"
  BY DEF Db
<1>2. 1 .. 3 = {1, 2, 3}
  OBVIOUS
<1>3. Range(Db) = {Db[k] : k \in {1, 2, 3}}
  BY <1>1, <1>2 DEF Range
<1> HIDE DEF Db
<1>4. Range(Db) = {"GTAGS", "GRTAGS", "GSYMS"}
  BY <1>1, <1>3
<1> QED BY <1>1, <1>2, <1>4

Entry == [fid : Nat, other : BOOLEAN, length : 1 .. Limit]

Stream == [fptr : Nat \ {0}, path : Nat, pipe : SUBSET (Nat \X Nat), result : Nat \X Nat,
           unread : BOOLEAN, end_of_arg : BOOLEAN]

ATypeOK ==
    /\ files \in Listings
    /\ print \in [{files[i].fid : i \in DOMAIN files} -> Printed]
    /\ xargs \in [Range(Db) -> Stream]
    /\ fileno \in Nat /\ (step # "end" => fileno \in DOMAIN files)
    /\ indb \in DOMAIN Db
    /\ anchors \in Seq([fid : Nat, lineno : Nat \ {0}, type : {"D", "T", "R", "Y"}])
    /\ CURRENTDEF \in Nat
    /\ step \in {"load", "sort", "index", "lines", "end"}

LEMMA ListingParts ==
    ASSUME ATypeOK
    PROVE  /\ files \in Seq(Entry) /\ Len(files) \in Nat /\ DOMAIN files = 1 .. Len(files)
           /\ \A i \in DOMAIN files : files[i] \in Entry
           /\ \A i, j \in DOMAIN files : files[i].fid = files[j].fid => i = j
           /\ \A i \in DOMAIN files : \A d \in Range(Db) :
                 /\ Printout(d, i) \in Seq(Nat \ {0}) /\ IsInjective(Printout(d, i))
                 /\ DOMAIN Printout(d, i) = 1 .. Len(Printout(d, i)) /\ Len(Printout(d, i)) \in Nat
<1>1. files \in Seq(Entry) /\ \A i, j \in DOMAIN files : files[i].fid = files[j].fid => i = j
  BY AnchorsAssumption DEF ATypeOK, Entry
<1>2. Len(files) \in Nat /\ DOMAIN files = 1 .. Len(files) /\ \A i \in DOMAIN files : files[i] \in Entry
  BY <1>1
<1>3. ASSUME NEW i \in DOMAIN files, NEW d \in Range(Db)
      PROVE  Printout(d, i) \in Seq(Nat \ {0}) /\ IsInjective(Printout(d, i))
  <2>1. print[files[i].fid] \in Printed
    BY DEF ATypeOK
  <2> QED BY <2>1, AnchorsAssumption DEF Printout
<1>4. \A s \in Seq(Nat \ {0}) : DOMAIN s = 1 .. Len(s) /\ Len(s) \in Nat
  OBVIOUS
<1> QED BY <1>1, <1>2, <1>3, <1>4

LEMMA PlacesAre ==
    ASSUME NEW d, NEW S
    PROVE  /\ \A p : p \in Places(d, S) <=>
                 \E i \in S : \E k \in DOMAIN Printout(d, i) : p = <<i, k>>
           /\ \A p \in Places(d, S) :
                 p[1] \in S /\ p[2] \in DOMAIN Printout(d, p[1]) /\ p = <<p[1], p[2]>>
BY DEF Places

LEMMA PlacesUnion ==
    ASSUME NEW d, NEW S, NEW T
    PROVE  Places(d, S \cup T) = Places(d, S) \cup Places(d, T)
BY DEF Places

LEMMA PlacesNat ==
    ASSUME ATypeOK, NEW d \in Range(Db), NEW S \in SUBSET DOMAIN files
    PROVE  Places(d, S) \in SUBSET (Nat \X Nat)
<1> SUFFICES ASSUME NEW p \in Places(d, S) PROVE p \in Nat \X Nat
  OBVIOUS
<1>1. p[1] \in S /\ p[2] \in DOMAIN Printout(d, p[1]) /\ p = <<p[1], p[2]>>
  BY PlacesAre
<1>2. p[1] \in Nat /\ p[2] \in Nat
  BY <1>1, ListingParts
<1> QED BY <1>1, <1>2

LEMMA ArgsAre ==
    ASSUME ATypeOK, NEW s \in Nat \ {0}
    PROVE  /\ Args(s) \subseteq DOMAIN files /\ Args(s) \subseteq Nat
           /\ \A i : i \in Args(s) <=> i \in DOMAIN files /\ i >= s /\ ~files[i].other
BY ListingParts DEF Args

(* A set of places has a first one. *)
LEMMA FirstIs ==
    ASSUME NEW S \in SUBSET (Nat \X Nat), S # {}
    PROVE  FirstOf(S) \in S /\ \A q \in S : q = FirstOf(S) \/ Precedes(FirstOf(S), q)
<1> DEFINE I == {p[1] : p \in S}
<1>1. I \in SUBSET Nat /\ I # {}
  OBVIOUS
<1>2. Min(I) \in I /\ \A i \in I : Min(I) <= i
  BY <1>1, LeastIs
<1> DEFINE m == Min(I)
           K == {p[2] : p \in {q \in S : q[1] = m}}
<1>3. K \in SUBSET Nat /\ K # {}
  BY <1>2
<1>4. Min(K) \in K /\ \A k \in K : Min(K) <= k
  BY <1>3, LeastIs
<1>5. PICK p \in S : p[1] = m /\ p[2] = Min(K)
  BY <1>4
<1>6. ASSUME NEW q \in S PROVE q = p \/ Precedes(p, q)
  <2>1. m <= q[1] /\ m \in Nat /\ q[1] \in Nat /\ q[2] \in Nat /\ p[2] \in Nat
    BY <1>1, <1>2
  <2>2. CASE q[1] = m
    <3>1. p[2] <= q[2]
      BY <1>4, <1>5, <2>2
    <3>2. q = <<q[1], q[2]>> /\ p = <<p[1], p[2]>>
      OBVIOUS
    <3> HIDE DEF m
    <3> QED BY <1>5, <2>1, <2>2, <3>1, <3>2 DEF Precedes
  <2>3. CASE q[1] # m
    <3> HIDE DEF m
    <3> QED BY <1>5, <2>1, <2>3 DEF Precedes
  <2> QED BY <2>2, <2>3
<1> QED BY <1>5, <1>6 DEF FirstOf

LEMMA BytesOfOne ==
    ASSUME ATypeOK, NEW i \in DOMAIN files
    PROVE  Bytes({i}) = files[i].length
<1> DEFINE op(j) == files[j].length
           c(s) == CHOOSE x \in s : TRUE
           f == [s \in SUBSET {i} |-> IF s = {} THEN 0 ELSE files[i].length]
<1>1. files[i].length \in Nat
  BY ListingParts, AnchorsAssumption DEF Entry
<1> DEFINE R(g) == [s \in SUBSET {i} |-> IF s = {} THEN 0
                       ELSE LET x == c(s) IN op(x) + g[s \ {x}]]
<1>2. R(f) = f
  <2>1. ASSUME NEW s \in SUBSET {i}, s # {} PROVE c(s) = i /\ s \ {i} = {}
    OBVIOUS
  <2>2. f[{}] = 0
    OBVIOUS
  <2> QED BY <1>1, <2>1, <2>2
<1> DEFINE iter == CHOOSE g : g = R(g)
<1>3. iter = R(iter)
  BY <1>2
<1>4. iter[{}] = 0
  BY <1>3
<1>5. c({i}) = i
  OBVIOUS
<1>6. iter[{i}] = op(i) + iter[{}]
  <2> HIDE DEF iter, c
  <2>1. {i} \in SUBSET {i} /\ {i} # {} /\ {i} \ {i} = {}
    OBVIOUS
  <2>2. R(iter)[{i}] = op(i) + iter[{}]
    BY <1>5, <2>1
  <2> QED BY <1>3, <2>2
<1>7. Bytes({i}) = iter[{i}]
  BY DEF Bytes, MapThenSumSet, MapThenFoldSet
<1> HIDE DEF iter
<1> QED BY <1>1, <1>4, <1>6, <1>7
-----------------------------------------------------------------------------
(* The file at hand, if it is a source file. *)
AtHand == Args(fileno) \ Args(fileno + 1)

(* What stream d has still to return: the record that was put back, the    *)
(* rest of the running command, and what later commands will print.        *)
PutBack(x) == IF x.unread THEN {x.result} ELSE {}
StillToCome(d, x) == PutBack(x) \cup x.pipe \cup Places(d, Args(StartOfArgs(x)))

(* What the table has of stream d. *)
Taken(d) == {p \in Places(d, AtHand) : RecordAt(d, p) \in Range(anchors)}

InOrderOfPlaces(x) ==
    /\ \A p \in x.pipe : p[1] < StartOfArgs(x)
    /\ x.unread => /\ x.result[1] < StartOfArgs(x)
                   /\ \A p \in x.pipe : Precedes(x.result, p)

StreamRight(d) ==
    /\ InOrderOfPlaces(xargs[d])
    /\ xargs[d].end_of_arg => StillToCome(d, xargs[d]) = {}
    /\ StillToCome(d, xargs[d]) = Places(d, Args(fileno)) \ Taken(d)

TableRight ==
    /\ Range(anchors) = UNION {{RecordAt(d, p) : p \in Taken(d)} : d \in Range(Db)}
    /\ IsInjective(anchors)

(* The streams that have given all they have of the file at hand. *)
Finished ==
    \A k \in 1 .. 3 : (step = "load" => k < indb) => Taken(Db[k]) = Places(Db[k], AtHand)

TableSorted ==
    \A i, j \in DOMAIN anchors : i < j => anchors[i].lineno <= anchors[j].lineno

AInv ==
    /\ ATypeOK
    /\ step # "end" => (\A d \in Range(Db) : StreamRight(d)) /\ TableRight /\ Finished
    /\ step \in {"index", "lines"} => TableSorted
    /\ step = "lines" /\ AtHand # {} /\ Definitions # {} => CURRENTDEF = Max(Definitions)

LEMMA AtHandIs ==
    ASSUME ATypeOK, fileno \in DOMAIN files
    PROVE  /\ AtHand = IF files[fileno].other THEN {} ELSE {fileno}
           /\ Args(fileno) = AtHand \cup Args(fileno + 1)
           /\ AtHand \cap Args(fileno + 1) = {}
           /\ AtHand \subseteq DOMAIN files /\ Args(fileno) \subseteq DOMAIN files
<1>1. fileno \in Nat \ {0} /\ fileno + 1 \in Nat \ {0}
  BY ListingParts
<1>2. \A i : i \in Args(fileno) <=> i \in DOMAIN files /\ i >= fileno /\ ~files[i].other
  BY <1>1, ArgsAre
<1>3. \A i : i \in Args(fileno + 1) <=> i \in DOMAIN files /\ i >= fileno + 1 /\ ~files[i].other
  BY <1>1, ArgsAre
<1>4. DOMAIN files \subseteq Nat
  BY ListingParts
<1>5. \A i : i \in AtHand <=> i \in DOMAIN files /\ i = fileno /\ ~files[i].other
  BY <1>1, <1>2, <1>3, <1>4 DEF AtHand
<1> QED BY <1>2, <1>3, <1>4, <1>5

LEMMA Framed ==
    ASSUME UNCHANGED <<files, print>>
    PROVE  /\ \A d, S : Places(d, S)' = Places(d, S)
           /\ \A d, p : RecordAt(d, p)' = RecordAt(d, p)
           /\ \A s : Args(s)' = Args(s)
           /\ \A d, x : StillToCome(d, x)' = StillToCome(d, x)
           /\ \A d, i : Printout(d, i)' = Printout(d, i)
<1>1. \A d, i : Printout(d, i)' = Printout(d, i)
  BY DEF Printout
<1>2. \A d, S : Places(d, S)' = Places(d, S)
  BY <1>1 DEF Places
<1>3. \A s : Args(s)' = Args(s)
  BY DEF Args
<1>4. \A d, p : RecordAt(d, p)' = RecordAt(d, p)
  BY <1>1 DEF RecordAt
<1>5. \A d, x : StillToCome(d, x)' = StillToCome(d, x)
  BY <1>2, <1>3 DEF StillToCome
<1> QED BY <1>1, <1>2, <1>3, <1>4, <1>5

(* A record tells the stream and the place it comes from. *)
LEMMA RecordsDiffer ==
    ASSUME ATypeOK, NEW d \in Range(Db), NEW e \in Range(Db),
           NEW p \in Places(d, DOMAIN files), NEW q \in Places(e, DOMAIN files),
           RecordAt(d, p) = RecordAt(e, q)
    PROVE  d = e /\ p = q
<1>1. /\ p[1] \in DOMAIN files /\ p[2] \in DOMAIN Printout(d, p[1]) /\ p = <<p[1], p[2]>>
      /\ q[1] \in DOMAIN files /\ q[2] \in DOMAIN Printout(e, q[1]) /\ q = <<q[1], q[2]>>
  BY PlacesAre
<1> DEFINE l == Printout(d, p[1])[p[2]]
           m == Printout(e, q[1])[q[2]]
<1>2. files[p[1]].fid = files[q[1]].fid /\ l = m /\ TypeOf(d, l) = TypeOf(e, m)
  BY DEF RecordAt
<1>3. p[1] = q[1]
  BY <1>1, <1>2, ListingParts
<1>4. d = e
  <2> HIDE DEF l, m
  <2>1. \A c \in {"GTAGS", "GRTAGS", "GSYMS"} :
          /\ c = "GTAGS" <=> TypeOf(c, l) \in {"D", "T"}
          /\ c = "GRTAGS" <=> TypeOf(c, l) = "R"
          /\ c = "GSYMS" <=> TypeOf(c, l) = "Y"
    BY DEF TypeOf
  <2> QED BY <1>2, <2>1, DbIs
<1>5. p[2] = q[2]
  <2>1. IsInjective(Printout(d, p[1]))
    BY <1>1, ListingParts
  <2> QED BY <1>1, <1>2, <1>3, <1>4, <2>1 DEF IsInjective
<1> QED BY <1>1, <1>3, <1>4, <1>5

LEMMA RecordType ==
    ASSUME ATypeOK, NEW d \in Range(Db), NEW p \in Places(d, DOMAIN files)
    PROVE  RecordAt(d, p) \in [fid : Nat, lineno : Nat \ {0}, type : {"D", "T", "R", "Y"}]
<1>1. p[1] \in DOMAIN files /\ p[2] \in DOMAIN Printout(d, p[1])
  BY PlacesAre
<1>2. files[p[1]].fid \in Nat /\ Printout(d, p[1])[p[2]] \in Nat \ {0}
  BY <1>1, ListingParts DEF Entry
<1>3. TypeOf(d, Printout(d, p[1])[p[2]]) \in {"D", "T", "R", "Y"}
  BY DbIs DEF TypeOf
<1> QED BY <1>2, <1>3 DEF RecordAt
-----------------------------------------------------------------------------
LEMMA StartIs ==
    ASSUME NEW x \in Stream
    PROVE  StartOfArgs(x) \in Nat \ {0}
BY DEF Stream, StartOfArgs, Sought

(* A command takes one argument at least, if there is one. *)
LEMMA OverflowIs ==
    ASSUME ATypeOK, NEW s \in Nat \ {0}, Overflow(s) # 0
    PROVE  Overflow(s) \in Args(s) /\ \E a \in Args(s) : a < Overflow(s)
<1> DEFINE long == {i \in Args(s) : Bytes({j \in Args(s) : j <= i}) > Limit}
           o == Min(long)
           a == Min(Args(s))
<1>1. Args(s) \subseteq Nat /\ Args(s) \subseteq DOMAIN files
  BY ArgsAre
<1>2. long # {} /\ Overflow(s) = o
  BY DEF Overflow
<1>3. o \in long
  BY <1>1, <1>2, LeastIs
<1>4. a \in Args(s) /\ \A i \in Args(s) : a <= i
  BY <1>1, <1>3, LeastIs
<1>5. a # o
  <2> SUFFICES ASSUME a = o PROVE FALSE
    OBVIOUS
  <2>1. {j \in Args(s) : j <= o} = {o}
    <3> HIDE DEF a, o
    <3> QED BY <1>1, <1>3, <1>4
  <2>2. Bytes({o}) = files[o].length
    BY <1>1, <1>3, BytesOfOne
  <2>3. files[o].length \in 1 .. Limit
    BY <1>1, <1>3, ListingParts DEF Entry
  <2>4. Bytes({o}) > Limit
    BY <1>3, <2>1
  <2> QED BY <2>2, <2>3, <2>4, AnchorsAssumption
<1>6. a < o
  <2> HIDE DEF a, o
  <2> QED BY <1>1, <1>3, <1>4, <1>5
<1> QED BY <1>2, <1>3, <1>4, <1>6

(* Running a command changes nothing of what is still to come. *)
LEMMA ExecuteRight ==
    ASSUME ATypeOK, step # "end", NEW d \in Range(Db), ExecuteCommand(d),
           ~xargs[d].end_of_arg, ~xargs[d].unread, xargs[d].pipe = {},
           UNCHANGED <<files, print>>
    PROVE  \E y \in Stream :
              /\ xargs' = [xargs EXCEPT ![d] = y]
              /\ InOrderOfPlaces(y)
              /\ y.end_of_arg => StillToCome(d, y) = {}
              /\ StillToCome(d, y) = StillToCome(d, xargs[d])
<1> DEFINE x == xargs[d]
           s == StartOfArgs(x)
           o == Overflow(s)
           args == {i \in Args(s) : o # 0 => i < o}
           upto == IF o # 0 THEN o + 1 ELSE Len(files) + 1
           y == [x EXCEPT !.path = o, !.fptr = upto, !.pipe = Places(d, args),
                          !.end_of_arg = (args = {})]
           t == StartOfArgs(y)
<1>1. xargs' = [xargs EXCEPT ![d] = y]
  BY DEF ExecuteCommand
<1>2. x \in Stream /\ s \in Nat \ {0} /\ Len(files) \in Nat
  BY StartIs, ListingParts DEF ATypeOK
<1>3. o = 0 \/ (o \in Args(s) /\ \E a \in Args(s) : a < o)
  BY <1>2, OverflowIs
<1>4. /\ \A i : i \in Args(s) <=> i \in DOMAIN files /\ i >= s /\ ~files[i].other
      /\ Args(s) \subseteq Nat /\ Args(s) \subseteq DOMAIN files /\ DOMAIN files = 1 .. Len(files)
  BY <1>2, ArgsAre, ListingParts
<1>5. o \in Nat /\ upto \in Nat \ {0}
  <2> HIDE DEF o
  <2> QED BY <1>2, <1>3, <1>4
<1>6. y \in Stream
  <2>1. Places(d, args) \in SUBSET (Nat \X Nat)
    BY <1>4, PlacesNat
  <2> HIDE DEF o, upto, args
  <2> QED BY <1>2, <1>5, <2>1 DEF Stream
<1>7. t = IF o # 0 THEN o ELSE Len(files) + 1
  <2>1. y.path = o /\ y.fptr = upto
    <3> HIDE DEF o, upto, args
    <3> QED BY <1>2 DEF Stream
  <2> HIDE DEF o, y
  <2> QED BY <2>1 DEF StartOfArgs, Sought
<1>8. y.pipe = Places(d, args) /\ y.end_of_arg = (args = {}) /\ y.unread = FALSE
  <2> HIDE DEF o, upto, args
  <2> QED BY <1>2 DEF Stream
<1>9. \A i : i \in Args(t) <=> i \in DOMAIN files /\ i >= t /\ ~files[i].other
  <2>1. t \in Nat \ {0}
    BY <1>6, StartIs
  <2> QED BY <2>1, ArgsAre
<1> HIDE DEF y, t, o
<1>10. Args(s) = args \cup Args(t)
  <2>1. CASE o = 0
    BY <1>2, <1>4, <1>7, <1>9, <2>1
  <2>2. CASE o # 0
    <3>1. o \in Args(s) /\ o >= s /\ t = o /\ o \in Nat
      BY <1>3, <1>4, <1>7, <2>2
    <3> QED BY <1>2, <1>4, <1>9, <2>2, <3>1
  <2> QED BY <2>1, <2>2
<1>11. \A i \in args : i < t
  BY <1>2, <1>4, <1>7
<1>12. StillToCome(d, y) = Places(d, args) \cup Places(d, Args(t))
  BY <1>8 DEF StillToCome, PutBack, t
<1>13. StillToCome(d, x) = Places(d, Args(s))
  BY DEF StillToCome, PutBack
<1>14. StillToCome(d, y) = StillToCome(d, x)
  BY <1>10, <1>12, <1>13, PlacesUnion
<1>15. InOrderOfPlaces(y)
  BY <1>8, <1>11, PlacesAre DEF InOrderOfPlaces, t
<1>16. args = {} => Args(t) = {}
  <2> SUFFICES ASSUME args = {} PROVE Args(s) = {}
    BY <1>10
  <2>1. o = 0
    BY <1>3
  <2> QED BY <2>1
<1>17. y.end_of_arg => StillToCome(d, y) = {}
  <2>1. Places(d, {}) = {}
    BY PlacesAre
  <2>2. y.end_of_arg => args = {}
    BY <1>8
  <2> QED BY <1>12, <1>16, <2>1, <2>2
<1> QED BY <1>1, <1>6, <1>14, <1>15, <1>17
-----------------------------------------------------------------------------
LEMMA PlacesHere ==
    ASSUME ATypeOK, fileno \in DOMAIN files, NEW d \in Range(Db)
    PROVE  /\ Places(d, Args(fileno)) = Places(d, AtHand) \cup Places(d, Args(fileno + 1))
           /\ Places(d, AtHand) \cap Places(d, Args(fileno + 1)) = {}
           /\ \A p \in Places(d, AtHand) : p[1] = fileno
           /\ \A p \in Places(d, Args(fileno)) :
                 /\ p[1] >= fileno /\ p[1] \in DOMAIN files
                 /\ p[1] = fileno => p \in Places(d, AtHand)
           /\ Places(d, AtHand) \subseteq Places(d, DOMAIN files)
           /\ Places(d, Args(fileno)) \subseteq Places(d, DOMAIN files)
<1>1. /\ AtHand = IF files[fileno].other THEN {} ELSE {fileno}
      /\ Args(fileno) = AtHand \cup Args(fileno + 1) /\ AtHand \cap Args(fileno + 1) = {}
      /\ AtHand \subseteq DOMAIN files /\ Args(fileno) \subseteq DOMAIN files
  BY AtHandIs
<1>2. \A i \in Args(fileno) : i >= fileno /\ ~files[i].other
  BY ListingParts, ArgsAre
<1>3. \A p \in Places(d, AtHand) : p[1] = fileno
  BY <1>1, PlacesAre
<1>4. Places(d, Args(fileno)) = Places(d, AtHand) \cup Places(d, Args(fileno + 1))
  BY <1>1, PlacesUnion
<1>5. Places(d, AtHand) \cap Places(d, Args(fileno + 1)) = {}
  <2> SUFFICES ASSUME NEW p \in Places(d, AtHand), p \in Places(d, Args(fileno + 1)) PROVE FALSE
    OBVIOUS
  <2>1. p[1] \in AtHand /\ p[1] \in Args(fileno + 1)
    BY PlacesAre
  <2> QED BY <1>1, <2>1
<1>6. ASSUME NEW p \in Places(d, Args(fileno))
      PROVE  /\ p[1] >= fileno /\ p[1] \in DOMAIN files
             /\ p[1] = fileno => p \in Places(d, AtHand)
  <2>1. p[1] \in Args(fileno) /\ p[2] \in DOMAIN Printout(d, p[1]) /\ p = <<p[1], p[2]>>
    BY PlacesAre
  <2>2. p[1] = fileno => p[1] \in AtHand
    BY <1>1, <1>2, <2>1
  <2>3. p[1] = fileno => p \in Places(d, AtHand)
    BY <2>1, <2>2, PlacesAre
  <2> QED BY <1>1, <1>2, <2>1, <2>3
<1>7. \A S \in SUBSET DOMAIN files : Places(d, S) \subseteq Places(d, DOMAIN files)
  BY DEF Places
<1> QED BY <1>1, <1>3, <1>4, <1>5, <1>6, <1>7

(* What the table has of a stream when a record of another is added, and   *)
(* when one of its own is.                                                 *)
LEMMA TakenIs ==
    ASSUME ATypeOK, fileno \in DOMAIN files, UNCHANGED <<files, print, fileno>>,
           NEW d \in Range(Db), NEW p \in Places(d, AtHand),
           anchors' = Append(anchors, RecordAt(d, p))
    PROVE  /\ Taken(d)' = Taken(d) \cup {p}
           /\ \A e \in Range(Db) \ {d} : Taken(e)' = Taken(e)
           /\ Range(anchors)' = Range(anchors) \cup {RecordAt(d, p)}
<1>1. Range(anchors)' = Range(anchors) \cup {RecordAt(d, p)}
  <2>1. /\ anchors \in Seq([fid : Nat, lineno : Nat \ {0}, type : {"D", "T", "R", "Y"}])
        /\ Len(anchors) \in Nat /\ DOMAIN anchors = 1 .. Len(anchors)
    BY DEF ATypeOK
  <2>2. /\ Len(anchors') = Len(anchors) + 1 /\ DOMAIN anchors' = 1 .. Len(anchors) + 1
        /\ anchors'[Len(anchors) + 1] = RecordAt(d, p)
        /\ \A i \in 1 .. Len(anchors) : anchors'[i] = anchors[i]
    BY <2>1
  <2>3. DOMAIN anchors' = DOMAIN anchors \cup {Len(anchors) + 1}
    BY <2>1, <2>2
  <2> QED BY <2>1, <2>2, <2>3 DEF Range
<1>2. /\ \A e \in Range(Db) : Places(e, AtHand)' = Places(e, AtHand)
      /\ \A e, q : RecordAt(e, q)' = RecordAt(e, q)
  <2>1. AtHand' = AtHand
    BY Framed DEF AtHand
  <2> QED BY <2>1, Framed
<1>3. \A e \in Range(Db) : Taken(e)' =
        {q \in Places(e, AtHand) : RecordAt(e, q) \in Range(anchors) \cup {RecordAt(d, p)}}
  BY <1>1, <1>2 DEF Taken
<1>4. \A e \in Range(Db) : \A q \in Places(e, AtHand) :
        RecordAt(e, q) = RecordAt(d, p) => e = d /\ q = p
  BY RecordsDiffer, PlacesHere
<1>5. Taken(d)' = Taken(d) \cup {p}
  BY <1>3, <1>4 DEF Taken
<1>6. \A e \in Range(Db) \ {d} : Taken(e)' = Taken(e)
  BY <1>3, <1>4 DEF Taken
<1> QED BY <1>1, <1>5, <1>6

(* The next stream, or the end of loading, when this one has given all.    *)
LEMMA NextDbRight ==
    ASSUME AInv, step = "load", NextDb, UNCHANGED <<files, print, fileno, anchors, CURRENTDEF>>,
           Taken(Db[indb]) = Places(Db[indb], AtHand),
           NEW y \in Stream, xargs' = [xargs EXCEPT ![Db[indb]] = y],
           InOrderOfPlaces(y), y.end_of_arg => StillToCome(Db[indb], y) = {},
           StillToCome(Db[indb], y) = StillToCome(Db[indb], xargs[Db[indb]])
    PROVE  AInv'
<1>1. ATypeOK /\ fileno \in DOMAIN files /\ indb \in 1 .. 3 /\ Len(Db) = 3 /\ DOMAIN Db = 1 .. 3
  BY DbIs DEF AInv, ATypeOK
<1>2. \/ indb < 3 /\ indb' = indb + 1 /\ step' = "load"
      \/ indb = 3 /\ indb' = indb /\ step' = "sort"
  BY <1>1 DEF NextDb
<1>3. /\ AtHand' = AtHand /\ \A e, S : Places(e, S)' = Places(e, S)
      /\ \A e, q : RecordAt(e, q)' = RecordAt(e, q)
      /\ \A e, x : StillToCome(e, x)' = StillToCome(e, x)
      /\ Args(fileno)' = Args(fileno)
  <2>1. \A s : Args(s)' = Args(s)
    BY Framed
  <2> QED BY <2>1, Framed DEF AtHand
<1>4. \A e : Taken(e)' = Taken(e)
  BY <1>3 DEF Taken
<1>5. ASSUME NEW e \in Range(Db) PROVE StreamRight(e)'
  <2>1. StreamRight(e) /\ StreamRight(Db[indb])
    BY <1>1, DbIs DEF AInv
  <2>2. xargs'[e] = IF e = Db[indb] THEN y ELSE xargs[e]
    BY <1>1 DEF ATypeOK
  <2>3. /\ InOrderOfPlaces(xargs'[e])
        /\ xargs'[e].end_of_arg => StillToCome(e, xargs'[e]) = {}
        /\ StillToCome(e, xargs'[e]) = StillToCome(e, xargs[e])
    BY <2>1, <2>2 DEF StreamRight
  <2>4. /\ InOrderOfPlaces(xargs[e])' <=> InOrderOfPlaces(xargs'[e])
        /\ StillToCome(e, xargs[e])' = StillToCome(e, xargs'[e])
    BY <1>3 DEF InOrderOfPlaces, StillToCome, StartOfArgs, Sought
  <2> QED BY <1>3, <1>4, <2>1, <2>3, <2>4 DEF StreamRight
<1>6. TableRight'
  <2>1. TableRight
    BY DEF AInv
  <2> QED BY <1>3, <1>4, <2>1 DEF TableRight
<1>7. Finished'
  <2>1. Finished
    BY DEF AInv
  <2>2. \A k \in 1 .. 3 : (step' = "load" => k < indb') => k <= indb
    BY <1>1, <1>2
  <2>3. ASSUME NEW k \in 1 .. 3, k <= indb PROVE Taken(Db[k])' = Places(Db[k], AtHand)'
    <3>1. Taken(Db[k]) = Places(Db[k], AtHand)
      BY <1>1, <2>1, <2>3 DEF Finished
    <3> QED BY <1>3, <1>4, <3>1
  <2> QED BY <2>2, <2>3 DEF Finished
<1>8. ATypeOK'
  <2>1. xargs' \in [Range(Db) -> Stream]
    BY <1>1 DEF ATypeOK
  <2>2. indb' \in DOMAIN Db /\ step' \in {"load", "sort", "index", "lines", "end"}
    BY <1>1, <1>2
  <2> QED BY <1>1, <2>1, <2>2 DEF ATypeOK
<1> QED BY <1>2, <1>5, <1>6, <1>7, <1>8 DEF AInv

LEMMA TakeRight ==
    ASSUME AInv, step = "load", UNCHANGED <<files, print, fileno, CURRENTDEF>>,
           NEW x \in Stream, NEW p, p \in StillToCome(Db[indb], xargs[Db[indb]]),
           ~x.unread, ~x.end_of_arg, x.result = p, p[1] < StartOfArgs(x),
           \A q \in x.pipe : q[1] < StartOfArgs(x) /\ Precedes(p, q),
           p \notin StillToCome(Db[indb], x),
           StillToCome(Db[indb], xargs[Db[indb]]) = StillToCome(Db[indb], x) \cup {p},
           TakeRecord(Db[indb], p, x)
    PROVE  AInv'
<1>1. /\ ATypeOK /\ fileno \in DOMAIN files /\ indb \in 1 .. 3 /\ Len(Db) = 3 /\ DOMAIN Db = 1 .. 3
      /\ Db[indb] \in Range(Db) /\ StreamRight(Db[indb])
  BY DbIs DEF AInv, ATypeOK
<1>0. PICK d \in Range(Db) : d = Db[indb]
  BY <1>1
<1>2. /\ p \in Places(d, Args(fileno)) /\ p \notin Taken(d)
      /\ StillToCome(d, xargs[d]) = Places(d, Args(fileno)) \ Taken(d)
      /\ StillToCome(d, xargs[d]) = StillToCome(d, x) \cup {p} /\ p \notin StillToCome(d, x)
      /\ TakeRecord(d, p, x)
  BY <1>0, <1>1 DEF StreamRight
<1>3. p[1] \in DOMAIN files /\ p[1] \in Nat /\ fileno \in Nat /\ p[1] >= fileno
  BY <1>1, <1>2, PlacesHere, ListingParts
<1>4. ASSUME NEW q \in StillToCome(d, x) PROVE Precedes(p, q)
  <2>1. q \in x.pipe \/ q \in Places(d, Args(StartOfArgs(x)))
    BY DEF StillToCome, PutBack
  <2>2. ASSUME q \in Places(d, Args(StartOfArgs(x))) PROVE Precedes(p, q)
    <3>1. q[1] \in Args(StartOfArgs(x)) /\ StartOfArgs(x) \in Nat \ {0}
      BY <2>2, PlacesAre, StartIs
    <3>2. q[1] >= StartOfArgs(x) /\ q[1] \in Nat
      BY <1>1, <3>1, ArgsAre
    <3> QED BY <1>3, <3>1, <3>2 DEF Precedes
  <2> QED BY <2>1, <2>2
<1>5. CASE files[p[1]].fid # files[fileno].fid
  <2>1. xargs' = [xargs EXCEPT ![d] = Unread(x)] /\ NextDb /\ UNCHANGED anchors
    BY <1>2, <1>5 DEF TakeRecord
  <2>2. p[1] > fileno
    BY <1>3, <1>5
  <2>3. Taken(d) = Places(d, AtHand)
    <3> SUFFICES ASSUME NEW q \in Places(d, AtHand), q \notin Taken(d) PROVE FALSE
      BY DEF Taken
    <3>1. q[1] = fileno /\ q \in Places(d, Args(fileno))
      BY <1>1, PlacesHere
    <3>2. q \in StillToCome(d, x)
      <4>1. q # p
        BY <1>3, <2>2, <3>1
      <4>2. q \in StillToCome(d, xargs[d])
        BY <1>2, <3>1
      <4> QED BY <1>2, <4>1, <4>2
    <3>3. Precedes(p, q)
      BY <1>4, <3>2
    <3> QED BY <1>3, <2>2, <3>1, <3>3 DEF Precedes
  <2> DEFINE y == Unread(x)
  <2>4. /\ y \in Stream /\ y.unread /\ ~y.end_of_arg /\ y.result = p /\ y.pipe = x.pipe
        /\ StartOfArgs(y) = StartOfArgs(x)
    BY DEF Unread, Stream, StartOfArgs, Sought
  <2> HIDE DEF y
  <2>5. InOrderOfPlaces(y)
    BY <2>4 DEF InOrderOfPlaces
  <2>6. StillToCome(d, y) = StillToCome(d, xargs[d])
    BY <1>2, <2>4 DEF StillToCome, PutBack
  <2>7. xargs' = [xargs EXCEPT ![d] = y]
    BY <2>1 DEF y
  <2> QED BY <1>0, <1>1, <2>1, <2>3, <2>4, <2>5, <2>6, <2>7, NextDbRight
<1>6. CASE files[p[1]].fid = files[fileno].fid
  <2>1. /\ xargs' = [xargs EXCEPT ![d] = x] /\ UNCHANGED <<indb, step>>
        /\ anchors' = Append(anchors, RecordAt(d, p))
    BY <1>2, <1>6 DEF TakeRecord
  <2>2. p \in Places(d, AtHand)
    <3>1. p[1] = fileno
      BY <1>1, <1>3, <1>6, ListingParts
    <3> QED BY <1>1, <1>2, <3>1, PlacesHere
  <2>3. /\ Taken(d)' = Taken(d) \cup {p}
        /\ \A e \in Range(Db) \ {d} : Taken(e)' = Taken(e)
        /\ Range(anchors)' = Range(anchors) \cup {RecordAt(d, p)}
    BY <1>1, <2>1, <2>2, TakenIs
  <2>4. /\ AtHand' = AtHand /\ \A e, S : Places(e, S)' = Places(e, S)
        /\ \A e, q : RecordAt(e, q)' = RecordAt(e, q)
        /\ \A e, z : StillToCome(e, z)' = StillToCome(e, z)
        /\ Args(fileno)' = Args(fileno)
    <3>1. \A s : Args(s)' = Args(s)
      BY Framed
    <3> QED BY <3>1, Framed DEF AtHand
  <2>5. ASSUME NEW e \in Range(Db) PROVE StreamRight(e)'
    <3>1. /\ InOrderOfPlaces(xargs[e])' <=> InOrderOfPlaces(xargs'[e])
          /\ StillToCome(e, xargs[e])' = StillToCome(e, xargs'[e])
      BY <2>4 DEF InOrderOfPlaces, StillToCome, StartOfArgs, Sought
    <3>2. CASE e = d
      <4>1. xargs'[e] = x
        BY <1>1, <2>1, <3>2 DEF ATypeOK
      <4>2. InOrderOfPlaces(x)
        BY DEF InOrderOfPlaces
      <4>3. StillToCome(d, x) = Places(d, Args(fileno)) \ (Taken(d) \cup {p})
        BY <1>2
      <4>4. StillToCome(e, xargs[e])' = (Places(e, Args(fileno)) \ Taken(e))'
        <5>1. StillToCome(e, xargs[e])' = StillToCome(d, x)
          BY <3>1, <3>2, <4>1
        <5>2. (Places(e, Args(fileno)) \ Taken(e))' = Places(d, Args(fileno)) \ (Taken(d) \cup {p})
          BY <2>3, <2>4, <3>2
        <5> QED BY <4>3, <5>1, <5>2
      <4>5. InOrderOfPlaces(xargs[e])' /\ ~xargs'[e].end_of_arg
        BY <3>1, <4>1, <4>2
      <4> QED BY <4>4, <4>5 DEF StreamRight
    <3>3. CASE e # d
      <4>1. xargs'[e] = xargs[e] /\ StreamRight(e)
        BY <1>1, <2>1, <3>3 DEF ATypeOK, AInv
      <4> QED BY <2>3, <2>4, <3>1, <3>3, <4>1 DEF StreamRight
    <3> QED BY <3>2, <3>3
  <2>6. TableRight'
    <3>1. TableRight
      BY DEF AInv
    <3>2. Range(anchors)' = UNION {{RecordAt(e, q) : q \in Taken(e)'} : e \in Range(Db)}
      <4>1. Range(anchors) = UNION {{RecordAt(e, q) : q \in Taken(e)} : e \in Range(Db)}
        BY <3>1 DEF TableRight
      <4>2. ASSUME NEW r
            PROVE  r \in Range(anchors)' <=> \E e \in Range(Db) : \E q \in Taken(e)' : r = RecordAt(e, q)
        <5>1. r \in Range(anchors)' <=> r \in Range(anchors) \/ r = RecordAt(d, p)
          BY <2>3
        <5>2. r \in Range(anchors) <=> \E e \in Range(Db) : \E q \in Taken(e) : r = RecordAt(e, q)
          BY <4>1
        <5>3. \A e \in Range(Db) : \A q : q \in Taken(e)' <=> q \in Taken(e) \/ (e = d /\ q = p)
          BY <2>3
        <5>4. (\E e \in Range(Db) : \E q \in Taken(e)' : r = RecordAt(e, q)) <=>
              (\E e \in Range(Db) : \E q \in Taken(e) : r = RecordAt(e, q)) \/ r = RecordAt(d, p)
          BY <5>3
        <5> QED BY <5>1, <5>2, <5>4
      <4> QED BY <4>2
    <3>3. IsInjective(anchors')
      <4>1. RecordAt(d, p) \notin Range(anchors)
        BY <1>2, <2>2 DEF Taken
      <4>2. /\ Len(anchors) \in Nat /\ DOMAIN anchors = 1 .. Len(anchors)
            /\ DOMAIN anchors' = 1 .. Len(anchors) + 1
            /\ anchors'[Len(anchors) + 1] = RecordAt(d, p)
            /\ \A i \in 1 .. Len(anchors) : anchors'[i] = anchors[i]
        BY <1>1, <2>1 DEF ATypeOK
      <4>3. \A i, j \in DOMAIN anchors : anchors[i] = anchors[j] => i = j
        BY <3>1 DEF TableRight, IsInjective
      <4>4. \A i \in DOMAIN anchors : anchors[i] # RecordAt(d, p)
        BY <4>1 DEF Range
      <4>5. \A i \in DOMAIN anchors' : i \in DOMAIN anchors \/ i = Len(anchors) + 1
        BY <4>2
      <4>6. \A i, j \in DOMAIN anchors' : anchors'[i] = anchors'[j] => i = j
        BY <4>2, <4>3, <4>4, <4>5
      <4> QED BY <4>6 DEF IsInjective
    <3>4. IsInjective(anchors)' = IsInjective(anchors')
      BY DEF IsInjective
    <3> QED BY <2>4, <3>2, <3>3, <3>4 DEF TableRight
  <2>7. Finished'
    <3>1. Finished
      BY DEF AInv
    <3>2. ASSUME NEW k \in 1 .. 3, k < indb PROVE Taken(Db[k])' = Places(Db[k], AtHand)'
      <4>1. Db[k] # d /\ Db[k] \in Range(Db)
        BY <1>0, <1>1, <3>2, DbIs
      <4>2. Taken(Db[k]) = Places(Db[k], AtHand)
        BY <3>1, <3>2 DEF Finished
      <4> QED BY <2>3, <2>4, <4>1, <4>2
    <3> QED BY <2>1, <3>2 DEF Finished
  <2>8. ATypeOK'
    <3>1. xargs' \in [Range(Db) -> Stream]
      BY <1>1, <2>1 DEF ATypeOK
    <3>2. RecordAt(d, p) \in [fid : Nat, lineno : Nat \ {0}, type : {"D", "T", "R", "Y"}]
      BY <1>1, <2>2, PlacesHere, RecordType
    <3>3. anchors' \in Seq([fid : Nat, lineno : Nat \ {0}, type : {"D", "T", "R", "Y"}])
      BY <1>1, <2>1, <3>2 DEF ATypeOK
    <3> QED BY <1>1, <2>1, <3>1, <3>3 DEF ATypeOK
  <2> QED BY <2>1, <2>5, <2>6, <2>7, <2>8 DEF AInv
<1> QED BY <1>5, <1>6
-----------------------------------------------------------------------------
(* The table is sorted by what sorts before an anchor: every number of     *)
(* anchors that sort up to one is that of exactly one.                     *)
LEMMA SortRight ==
    ASSUME NEW A, anchors \in Seq(A), \A a \in A : a.lineno \in Nat,
           NEW stable \in BOOLEAN, IsInjective(anchors)
    PROVE  LET s == ByLine(stable)
           IN  /\ s \in Seq(A) /\ Range(s) = Range(anchors) /\ IsInjective(s)
               /\ \A i, j \in DOMAIN s : i < j => s[i].lineno <= s[j].lineno
<1> DEFINE n == Len(anchors)
           D == 1 .. n
           upto(i) == {j \in D : SortsUpTo(j, i, stable)}
           rank == [i \in D |-> Cardinality(upto(i))]
<1>1. /\ n \in Nat /\ DOMAIN anchors = D
      /\ \A i \in D : anchors[i] \in A /\ anchors[i].lineno \in Nat
  OBVIOUS
<1>2. IsFiniteSet(D) /\ Cardinality(D) = n
  BY <1>1, FS_Interval
<1>3. /\ \A i \in D : SortsUpTo(i, i, stable)
      /\ \A i, j, k \in D : SortsUpTo(i, j, stable) /\ SortsUpTo(j, k, stable) => SortsUpTo(i, k, stable)
      /\ \A i, j \in D : SortsUpTo(i, j, stable) \/ SortsUpTo(j, i, stable)
      /\ \A i, j \in D : SortsUpTo(i, j, stable) /\ SortsUpTo(j, i, stable) => i = j
  <2> DEFINE l(i) == anchors[i].lineno
  <2>1. \A i \in D : l(i) \in Nat /\ i \in Nat
    BY <1>1
  <2>2. \A i, j : SortsUpTo(i, j, stable) <=>
          l(i) < l(j) \/ (l(i) = l(j) /\ IF stable THEN i <= j ELSE i >= j)
    BY DEF SortsUpTo
  <2> HIDE DEF l, D
  <2> QED BY <2>1, <2>2
<1>4. \A i \in D : IsFiniteSet(upto(i)) /\ Cardinality(upto(i)) \in Nat
  BY <1>2, FS_Subset, FS_CardinalityType
<1>5. ASSUME NEW i \in D PROVE rank[i] \in 1 .. n
  <2>1. upto(i) \in SUBSET D /\ i \in upto(i)
    BY <1>3
  <2>2. Cardinality(upto(i)) <= n
    BY <1>2, <2>1, FS_Subset
  <2>3. Cardinality(upto(i)) # 0
    BY <1>4, <2>1, FS_EmptySet
  <2> HIDE DEF upto
  <2> QED BY <1>1, <1>4, <2>2, <2>3
<1>6. ASSUME NEW i \in D, NEW j \in D, i # j, SortsUpTo(i, j, stable) PROVE rank[i] < rank[j]
  <2>1. upto(i) \in SUBSET upto(j) /\ j \in upto(j) /\ j \notin upto(i)
    BY <1>3, <1>6
  <2>2. Cardinality(upto(i)) <= Cardinality(upto(j)) /\ Cardinality(upto(i)) # Cardinality(upto(j))
    BY <1>4, <2>1, FS_Subset
  <2> HIDE DEF upto
  <2> QED BY <1>4, <2>2
<1>7. rank \in Injection(D, D)
  <2>1. rank \in [D -> D]
    BY <1>5
  <2>2. ASSUME NEW i \in D, NEW j \in D, rank[i] = rank[j] PROVE i = j
    <3> SUFFICES ASSUME i # j PROVE FALSE
      OBVIOUS
    <3>1. rank[i] < rank[j] \/ rank[j] < rank[i]
      BY <1>3, <1>6
    <3>2. rank[i] \in Nat /\ rank[j] \in Nat
      BY <1>5
    <3> HIDE DEF rank
    <3> QED BY <2>2, <3>1, <3>2
  <2> QED BY <2>1, <2>2 DEF Injection, IsInjective
<1>8. rank \in Surjection(D, D)
  BY <1>2, <1>7, FS_Injection
<1> DEFINE s == [k \in D |-> anchors[CHOOSE i \in D : Cardinality(upto(i)) = k]]
           at(k) == CHOOSE i \in D : Cardinality(upto(i)) = k
<1>9. ByLine(stable) = s
  BY <1>1 DEF ByLine
<1>10. \A k \in D : at(k) \in D /\ rank[at(k)] = k
  <2> TAKE k \in D
  <2>1. \E i \in D : rank[i] = k
    BY <1>8 DEF Surjection
  <2> QED BY <2>1
<1>11. \A i \in D : \A j \in D : rank[i] = rank[j] => i = j
  BY <1>7 DEF Injection, IsInjective
<1>12. \A i \in D : at(rank[i]) = i /\ rank[i] \in D
  BY <1>5, <1>10, <1>11
<1>13. \A k \in D : s[k] = anchors[at(k)]
  OBVIOUS
<1>14. s \in [D -> A]
  BY <1>1, <1>10
<1>15. s \in Seq(A) /\ DOMAIN s = D
  <2>1. n \in Nat /\ s \in [1 .. n -> A]
    BY <1>1, <1>14
  <2> HIDE DEF s, n
  <2> QED BY <2>1
<1> HIDE DEF s, at, rank
<1>16. Range(s) = Range(anchors)
  BY <1>1, <1>10, <1>12, <1>13, <1>15 DEF Range
<1>17. IsInjective(s)
  <2> SUFFICES ASSUME NEW k \in D, NEW l \in D, s[k] = s[l] PROVE k = l
    BY <1>15 DEF IsInjective
  <2>1. at(k) = at(l)
    BY <1>1, <1>10, <1>13 DEF IsInjective
  <2> QED BY <1>10, <2>1
<1>18. ASSUME NEW k \in D, NEW l \in D, k < l PROVE s[k].lineno <= s[l].lineno
  <2>1. at(k) \in D /\ at(l) \in D /\ rank[at(k)] = k /\ rank[at(l)] = l /\ at(k) # at(l)
    BY <1>10, <1>18
  <2>2. SortsUpTo(at(k), at(l), stable)
    <3> SUFFICES ASSUME SortsUpTo(at(l), at(k), stable) PROVE FALSE
      BY <1>3, <2>1
    <3>1. l < k
      BY <1>6, <2>1
    <3> QED BY <1>18, <3>1
  <2>3. anchors[at(k)].lineno <= anchors[at(l)].lineno
    BY <1>1, <2>1, <2>2 DEF SortsUpTo
  <2> QED BY <1>13, <2>3
<1> QED BY <1>9, <1>15, <1>16, <1>17, <1>18
-----------------------------------------------------------------------------
(* Steps that leave the streams and what the table holds as they are. *)
LEMMA StreamsStay ==
    ASSUME AInv, step # "end", UNCHANGED <<files, print, fileno, xargs>>,
           Range(anchors)' = Range(anchors)
    PROVE  /\ \A d \in Range(Db) : StreamRight(d)'
           /\ \A d : Taken(d)' = Taken(d)
           /\ AtHand' = AtHand /\ \A e, S : Places(e, S)' = Places(e, S)
           /\ IsInjective(anchors') => TableRight'
<1>1. /\ AtHand' = AtHand /\ \A e, S : Places(e, S)' = Places(e, S)
      /\ \A e, q : RecordAt(e, q)' = RecordAt(e, q)
      /\ \A e, x : StillToCome(e, x)' = StillToCome(e, x)
      /\ Args(fileno)' = Args(fileno)
  <2>1. \A s : Args(s)' = Args(s)
    BY Framed
  <2> QED BY <2>1, Framed DEF AtHand
<1>2. \A d : Taken(d)' = Taken(d)
  BY <1>1 DEF Taken
<1>3. ASSUME NEW d \in Range(Db) PROVE StreamRight(d)'
  <2>1. StreamRight(d)
    BY DEF AInv
  <2>2. /\ InOrderOfPlaces(xargs[d])' <=> InOrderOfPlaces(xargs[d])
        /\ StillToCome(d, xargs[d])' = StillToCome(d, xargs[d])
    BY <1>1 DEF InOrderOfPlaces, StillToCome, StartOfArgs, Sought
  <2> QED BY <1>1, <1>2, <2>1, <2>2 DEF StreamRight
<1>4. IsInjective(anchors') => TableRight'
  <2>1. TableRight
    BY DEF AInv
  <2> QED BY <1>1, <1>2, <2>1 DEF TableRight, IsInjective
<1> QED BY <1>1, <1>2, <1>3, <1>4

LEMMA AInvInit == AnchorsInit => AInv
<1> SUFFICES ASSUME AnchorsInit PROVE AInv
  OBVIOUS
<1>1. ATypeOK
  <2>1. files \in Seq(Entry) /\ Len(files) \in Nat /\ DOMAIN files = 1 .. Len(files)
    <3>1. files \in Seq(Entry)
      BY AnchorsAssumption DEF AnchorsInit, Entry
    <3> QED BY <3>1
  <2>2. NewStream \in Stream
    BY DEF NewStream, Stream, NoPlace
  <2>3. xargs \in [Range(Db) -> Stream]
    BY <2>2 DEF AnchorsInit
  <2>4. step # "end" => fileno \in DOMAIN files
    BY <2>1 DEF AnchorsInit
  <2>5. indb \in DOMAIN Db
    BY DbIs DEF AnchorsInit
  <2> QED BY <2>3, <2>4, <2>5 DEF AnchorsInit, ATypeOK
<1>2. anchors = <<>> /\ Range(anchors) = {} /\ IsInjective(anchors)
  BY DEF AnchorsInit, Range, IsInjective
<1>3. \A d : Taken(d) = {}
  BY <1>2 DEF Taken
<1>4. ASSUME NEW d \in Range(Db) PROVE StreamRight(d)
  <2>1. xargs[d] = NewStream /\ fileno = 1
    BY DEF AnchorsInit
  <2>2. StillToCome(d, NewStream) = Places(d, Args(1))
    BY DEF StillToCome, PutBack, NewStream, StartOfArgs, Sought
  <2>3. InOrderOfPlaces(NewStream) /\ ~NewStream.end_of_arg
    BY DEF InOrderOfPlaces, NewStream
  <2> QED BY <1>3, <2>1, <2>2, <2>3 DEF StreamRight
<1>5. TableRight
  BY <1>2, <1>3 DEF TableRight
<1>6. step # "end" => Finished
  BY DEF AnchorsInit, Finished
<1> QED BY <1>1, <1>4, <1>5, <1>6 DEF AInv, AnchorsInit
-----------------------------------------------------------------------------
LEMMA XargsReadRight == ASSUME AInv, XargsRead PROVE AInv'
<1>1. /\ ATypeOK /\ step = "load" /\ fileno \in DOMAIN files /\ indb \in 1 .. 3
      /\ UNCHANGED <<files, print, fileno, CURRENTDEF>>
  BY DbIs DEF AInv, ATypeOK, XargsRead
<1>2. PICK d \in Range(Db) : d = Db[indb]
  BY <1>1, DbIs
<1> DEFINE x == xargs[d]
<1>3. x \in Stream /\ StreamRight(d) /\ InOrderOfPlaces(x)
  BY <1>1 DEF ATypeOK, AInv, StreamRight
<1>4. x.pipe \in SUBSET (Nat \X Nat) /\ StartOfArgs(x) \in Nat \ {0} /\ x.result \in Nat \X Nat
  BY <1>3, StartIs DEF Stream
<1>5. Args(StartOfArgs(x)) \subseteq Nat /\ \A i \in Args(StartOfArgs(x)) : i >= StartOfArgs(x)
  BY <1>1, <1>4, ArgsAre
<1>6. \A p \in Places(d, Args(StartOfArgs(x))) :
        p[1] \in Nat /\ ~(p[1] < StartOfArgs(x))
  <2> SUFFICES ASSUME NEW p \in Places(d, Args(StartOfArgs(x)))
               PROVE  p[1] \in Nat /\ ~(p[1] < StartOfArgs(x))
    OBVIOUS
  <2>1. p[1] \in Args(StartOfArgs(x))
    BY PlacesAre
  <2> HIDE DEF x
  <2> QED BY <1>4, <1>5, <2>1
<1>7. CASE x.end_of_arg /\ NextDb /\ UNCHANGED <<ipos, xargs, anchors>>
  <2>1. StillToCome(d, x) = {} /\ StillToCome(d, x) = Places(d, Args(fileno)) \ Taken(d)
    BY <1>3, <1>7 DEF StreamRight
  <2>2. Taken(d) = Places(d, AtHand)
    BY <1>1, <2>1, PlacesHere DEF Taken
  <2>3. xargs' = [xargs EXCEPT ![d] = x]
    BY <1>1, <1>7 DEF ATypeOK
  <2> HIDE DEF x
  <2> QED BY <1>1, <1>2, <1>3, <1>7, <2>1, <2>2, <2>3, NextDbRight DEF x
<1>8. CASE ~x.end_of_arg /\ x.unread /\ TakeRecord(d, x.result, [x EXCEPT !.unread = FALSE])
  <2> DEFINE y == [x EXCEPT !.unread = FALSE]
             p == x.result
  <2>1. /\ y \in Stream /\ ~y.unread /\ ~y.end_of_arg /\ y.result = p /\ y.pipe = x.pipe
        /\ StartOfArgs(y) = StartOfArgs(x)
    BY <1>3, <1>8 DEF Stream, StartOfArgs, Sought
  <2>2. p[1] < StartOfArgs(x) /\ \A q \in x.pipe : q[1] < StartOfArgs(x) /\ Precedes(p, q)
    BY <1>3, <1>8 DEF InOrderOfPlaces
  <2> HIDE DEF y, x
  <2>3. StillToCome(d, x) = StillToCome(d, y) \cup {p} /\ p \in StillToCome(d, x)
    BY <1>8, <2>1 DEF StillToCome, PutBack
  <2>4. p \notin StillToCome(d, y)
    <3>1. p \notin x.pipe
      <4> SUFFICES ASSUME p \in x.pipe PROVE FALSE
        OBVIOUS
      <4>1. Precedes(p, p) /\ p[1] \in Nat /\ p[2] \in Nat
        BY <1>4, <2>2
      <4> QED BY <4>1 DEF Precedes
    <3>2. p \notin Places(d, Args(StartOfArgs(x)))
      BY <1>6, <2>2
    <3> QED BY <2>1, <3>1, <3>2 DEF StillToCome, PutBack
  <2> QED BY <1>1, <1>2, <1>8, <2>1, <2>2, <2>3, <2>4, TakeRight DEF x, y
<1>9. CASE /\ ~x.end_of_arg /\ ~x.unread /\ x.pipe # {}
           /\ LET p == FirstOf(x.pipe)
              IN  TakeRecord(d, p, [x EXCEPT !.result = p, !.pipe = @ \ {p}])
  <2> DEFINE p == FirstOf(x.pipe)
             y == [x EXCEPT !.result = p, !.pipe = @ \ {p}]
  <2>1. p \in x.pipe /\ \A q \in x.pipe : q = p \/ Precedes(p, q)
    BY <1>4, <1>9, FirstIs
  <2>2. /\ y \in Stream /\ ~y.unread /\ ~y.end_of_arg /\ y.result = p /\ y.pipe = x.pipe \ {p}
        /\ StartOfArgs(y) = StartOfArgs(x)
    <3> HIDE DEF p
    <3>1. p \in Nat \X Nat /\ x.pipe \ {p} \in SUBSET (Nat \X Nat)
      BY <1>4, <2>1
    <3> QED BY <1>3, <1>9, <3>1 DEF Stream, StartOfArgs, Sought
  <2>3. TakeRecord(d, p, y)
    BY <1>9
  <2> HIDE DEF y, x, p
  <2>4. p[1] < StartOfArgs(x) /\ \A q \in y.pipe : q[1] < StartOfArgs(x) /\ Precedes(p, q)
    BY <1>3, <2>1, <2>2 DEF InOrderOfPlaces
  <2>5. StillToCome(d, x) = StillToCome(d, y) \cup {p} /\ p \in StillToCome(d, x)
    BY <1>9, <2>1, <2>2 DEF StillToCome, PutBack
  <2>6. p \notin StillToCome(d, y)
    <3>1. p \notin Places(d, Args(StartOfArgs(x)))
      BY <1>6, <2>4
    <3> QED BY <2>2, <3>1 DEF StillToCome, PutBack
  <2> QED BY <1>1, <1>2, <2>2, <2>3, <2>4, <2>5, <2>6, TakeRight DEF x
<1>10. CASE /\ ~x.end_of_arg /\ ~x.unread /\ x.pipe = {} /\ ExecuteCommand(d)
            /\ UNCHANGED <<indb, anchors, step>>
  <2>1. PICK y \in Stream :
          /\ xargs' = [xargs EXCEPT ![d] = y]
          /\ InOrderOfPlaces(y)
          /\ y.end_of_arg => StillToCome(d, y) = {}
          /\ StillToCome(d, y) = StillToCome(d, xargs[d])
    BY <1>1, <1>10, ExecuteRight
  <2>2. /\ AtHand' = AtHand /\ \A e, S : Places(e, S)' = Places(e, S)
        /\ \A e, q : RecordAt(e, q)' = RecordAt(e, q)
        /\ \A e, z : StillToCome(e, z)' = StillToCome(e, z)
        /\ Args(fileno)' = Args(fileno)
    <3>1. \A s : Args(s)' = Args(s)
      BY <1>1, Framed
    <3> QED BY <1>1, <3>1, Framed DEF AtHand
  <2>3. \A e : Taken(e)' = Taken(e)
    BY <1>10, <2>2 DEF Taken
  <2>4. ASSUME NEW e \in Range(Db) PROVE StreamRight(e)'
    <3>1. StreamRight(e)
      BY <1>1 DEF AInv
    <3>2. xargs'[e] = IF e = d THEN y ELSE xargs[e]
      BY <1>1, <2>1 DEF ATypeOK
    <3>3. /\ InOrderOfPlaces(xargs'[e])
          /\ xargs'[e].end_of_arg => StillToCome(e, xargs'[e]) = {}
          /\ StillToCome(e, xargs'[e]) = StillToCome(e, xargs[e])
      BY <2>1, <3>1, <3>2 DEF StreamRight
    <3>4. /\ InOrderOfPlaces(xargs[e])' <=> InOrderOfPlaces(xargs'[e])
          /\ StillToCome(e, xargs[e])' = StillToCome(e, xargs'[e])
      BY <2>2 DEF InOrderOfPlaces, StillToCome, StartOfArgs, Sought
    <3> QED BY <2>2, <2>3, <3>1, <3>3, <3>4 DEF StreamRight
  <2>5. TableRight' /\ Finished'
    BY <1>1, <1>10, <2>2, <2>3 DEF AInv, TableRight, Finished, IsInjective
  <2>6. ATypeOK'
    <3>1. xargs' \in [Range(Db) -> Stream]
      BY <1>1, <2>1 DEF ATypeOK
    <3> QED BY <1>1, <1>10, <3>1 DEF ATypeOK
  <2> QED BY <1>1, <1>10, <2>4, <2>5, <2>6 DEF AInv
<1> QED BY <1>2, <1>7, <1>8, <1>9, <1>10 DEF XargsRead

LEMMA SortStepRight == ASSUME AInv, Sort PROVE AInv'
<1> DEFINE A == [fid : Nat, lineno : Nat \ {0}, type : {"D", "T", "R", "Y"}]
<1>1. /\ ATypeOK /\ step = "sort" /\ step' = "index" /\ anchors \in Seq(A) /\ TableRight /\ Finished
      /\ UNCHANGED <<files, print, ipos, xargs, fileno, indb, CURRENTDEF>>
  BY DEF AInv, ATypeOK, Sort
<1>2. PICK stable \in BOOLEAN : anchors' = ByLine(stable)
  BY DEF Sort
<1>3. /\ anchors' \in Seq(A) /\ Range(anchors') = Range(anchors) /\ IsInjective(anchors')
      /\ \A i, j \in DOMAIN anchors' : i < j => anchors'[i].lineno <= anchors'[j].lineno
  <2>1. \A a \in A : a.lineno \in Nat
    OBVIOUS
  <2>2. IsInjective(anchors)
    BY <1>1 DEF TableRight
  <2> HIDE DEF A
  <2> QED BY <1>1, <1>2, <2>1, <2>2, SortRight
<1>4. Range(anchors)' = Range(anchors)
  BY <1>3 DEF Range
<1>5. /\ \A d \in Range(Db) : StreamRight(d)'
      /\ \A d : Taken(d)' = Taken(d)
      /\ AtHand' = AtHand /\ \A e, S : Places(e, S)' = Places(e, S)
      /\ TableRight'
  BY <1>1, <1>3, <1>4, StreamsStay
<1>6. Finished'
  BY <1>1, <1>5 DEF Finished
<1>7. TableSorted'
  BY <1>3 DEF TableSorted
<1>8. ATypeOK'
  BY <1>1, <1>3 DEF ATypeOK
<1> QED BY <1>1, <1>5, <1>6, <1>7, <1>8 DEF AInv

LEMMA LoopedIs ==
    ASSUME ATypeOK
    PROVE  /\ Definitions \subseteq 1 .. Len(anchors) /\ Len(anchors) \in Nat
           /\ DOMAIN anchors = 1 .. Len(anchors)
           /\ Looped \in Nat
<1>1. DOMAIN anchors = 1 .. Len(anchors) /\ Len(anchors) \in Nat
  BY DEF ATypeOK
<1>2. Definitions \subseteq 1 .. Len(anchors)
  BY <1>1 DEF Definitions
<1>3. ASSUME Definitions # {} PROVE Max(Definitions) \in Nat
  <2>1. Definitions \in SUBSET (0 .. Len(anchors))
    BY <1>1, <1>2
  <2>2. Max(Definitions) \in Definitions
    BY <1>1, <1>3, <2>1, GreatestIs
  <2>3. Max(Definitions) \in 1 .. Len(anchors)
    BY <1>2, <2>2
  <2> QED BY <1>1, <2>3
<1> QED BY <1>1, <1>2, <1>3 DEF Looped, ATypeOK

LEMMA IndexRight == ASSUME AInv, Index PROVE AInv'
<1>1. /\ ATypeOK /\ step = "index" /\ step' = "lines" /\ TableRight /\ Finished /\ TableSorted
      /\ UNCHANGED <<files, print, ipos, xargs, fileno, indb, anchors>>
      /\ CURRENTDEF' = IF files[fileno].other THEN CURRENTDEF ELSE Looped
  BY DEF AInv, Index
<1>2. /\ \A d \in Range(Db) : StreamRight(d)'
      /\ \A d : Taken(d)' = Taken(d)
      /\ AtHand' = AtHand /\ \A e, S : Places(e, S)' = Places(e, S)
      /\ TableRight'
  <2>1. Range(anchors)' = Range(anchors) /\ IsInjective(anchors')
    BY <1>1 DEF Range, TableRight, IsInjective
  <2> QED BY <1>1, <2>1, StreamsStay
<1>3. Finished' /\ TableSorted'
  BY <1>1, <1>2 DEF Finished, TableSorted
<1>4. AtHand' # {} /\ Definitions' # {} => CURRENTDEF' = Max(Definitions)'
  <2>1. Definitions' = Definitions
    BY <1>1 DEF Definitions
  <2>2. AtHand # {} => ~files[fileno].other
    BY <1>1, AtHandIs DEF ATypeOK
  <2> QED BY <1>1, <1>2, <2>1, <2>2 DEF Looped
<1>5. ATypeOK'
  <2>1. CURRENTDEF' \in Nat
    BY <1>1, LoopedIs DEF ATypeOK
  <2> QED BY <1>1, <2>1 DEF ATypeOK
<1> QED BY <1>1, <1>2, <1>3, <1>4, <1>5 DEF AInv

LEMMA NextFileRight == ASSUME AInv, NextFile PROVE AInv'
<1>1. /\ ATypeOK /\ step = "lines" /\ fileno \in DOMAIN files /\ anchors' = <<>> /\ indb' = 1
      /\ UNCHANGED <<files, print, ipos, xargs, CURRENTDEF>>
      /\ (\A d \in Range(Db) : StreamRight(d)) /\ Finished
      /\ DOMAIN files = 1 .. Len(files) /\ Len(files) \in Nat
      /\ \/ fileno < Len(files) /\ fileno' = fileno + 1 /\ step' = "load"
         \/ fileno' = fileno /\ step' = "end"
  BY ListingParts DEF AInv, ATypeOK, NextFile
<1>2. ATypeOK'
  <2>1. fileno' \in Nat /\ (step' # "end" => fileno' \in DOMAIN files)
    BY <1>1
  <2>2. indb' \in DOMAIN Db
    BY <1>1, DbIs
  <2> QED BY <1>1, <2>1, <2>2 DEF ATypeOK
<1>3. CASE step' = "end"
  BY <1>2, <1>3 DEF AInv
<1>4. CASE fileno' = fileno + 1 /\ step' = "load"
  <2>1. Range(anchors)' = {} /\ IsInjective(anchors)'
    BY <1>1 DEF Range, IsInjective
  <2>2. \A d : Taken(d)' = {}
    BY <2>1 DEF Taken
  <2>3. /\ \A e, S : Places(e, S)' = Places(e, S)
        /\ \A e, z : StillToCome(e, z)' = StillToCome(e, z)
        /\ Args(fileno)' = Args(fileno + 1)
    <3>1. \A s : Args(s)' = Args(s)
      BY <1>1, Framed
    <3> QED BY <1>1, <1>4, <3>1, Framed
  <2>4. ASSUME NEW d \in Range(Db) PROVE StreamRight(d)'
    <3>1. StreamRight(d) /\ xargs'[d] = xargs[d]
      BY <1>1
    <3>2. /\ InOrderOfPlaces(xargs[d])' <=> InOrderOfPlaces(xargs[d])
          /\ StillToCome(d, xargs[d])' = StillToCome(d, xargs[d])
      BY <1>1, <2>3 DEF InOrderOfPlaces, StillToCome, StartOfArgs, Sought
    <3>3. Taken(d) = Places(d, AtHand)
      <4>1. PICK k \in 1 .. 3 : d = Db[k]
        BY DbIs
      <4> QED BY <1>1, <4>1 DEF Finished
    <3>4. StillToCome(d, xargs[d]) = Places(d, Args(fileno + 1))
      <4>1. StillToCome(d, xargs[d]) = Places(d, Args(fileno)) \ Places(d, AtHand)
        BY <3>1, <3>3 DEF StreamRight
      <4> QED BY <1>1, <4>1, PlacesHere
    <3> QED BY <2>2, <2>3, <3>1, <3>2, <3>4 DEF StreamRight
  <2>5. TableRight'
    BY <2>1, <2>2 DEF TableRight
  <2>6. Finished'
    BY <1>1, <1>4 DEF Finished
  <2> QED BY <1>2, <1>4, <2>4, <2>5, <2>6 DEF AInv
<1> QED BY <1>1, <1>3, <1>4

LEMMA AInvStutters == ASSUME AInv, UNCHANGED avars PROVE AInv'
<1>1. UNCHANGED <<files, print, xargs, fileno, indb, anchors, CURRENTDEF, step>>
  BY DEF avars
<1>2. ATypeOK'
  BY <1>1 DEF AInv, ATypeOK
<1>3. ASSUME step # "end"
      PROVE  (\A d \in Range(Db) : StreamRight(d)') /\ TableRight' /\ Finished'
  <2>1. Range(anchors)' = Range(anchors) /\ IsInjective(anchors')
    BY <1>1, <1>3 DEF Range, AInv, TableRight, IsInjective
  <2>2. /\ \A d \in Range(Db) : StreamRight(d)'
        /\ \A d : Taken(d)' = Taken(d)
        /\ AtHand' = AtHand /\ \A e, S : Places(e, S)' = Places(e, S)
        /\ TableRight'
    BY <1>1, <1>3, <2>1, StreamsStay
  <2>3. Finished'
    BY <1>1, <1>3, <2>2 DEF AInv, Finished
  <2> QED BY <2>2, <2>3
<1>4. AtHand' = AtHand /\ Definitions' = Definitions
  BY <1>1 DEF AtHand, Args, Definitions
<1>5. step \in {"index", "lines"} => TableSorted'
  BY <1>1 DEF AInv, TableSorted
<1> QED BY <1>1, <1>2, <1>3, <1>4, <1>5 DEF AInv

(* The inductive invariant of the anchors: each stream has still to return *)
(* what it prints for the file at hand and the files after it, without     *)
(* what the table already has, and in the order of the list.               *)
THEOREM AInvHolds == AnchorsSpec => []AInv
<1>1. AInv /\ [AnchorsNext]_avars => AInv'
  BY XargsReadRight, SortStepRight, IndexRight, NextFileRight, AInvStutters
  DEF AnchorsNext, AnchorsEnd
<1> QED BY <1>1, AInvInit, PTL DEF AnchorsSpec

LEMMA AInvIsRight == AInv => AnchorsRight
<1> SUFFICES ASSUME AInv, step \in {"index", "lines"}
             PROVE  /\ Range(anchors) = AnchorsOf(fileno) /\ IsInjective(anchors)
                    /\ \A i, j \in DOMAIN anchors : i < j => anchors[i].lineno <= anchors[j].lineno
  BY DEF AnchorsRight
<1>1. /\ ATypeOK /\ fileno \in DOMAIN files /\ TableRight /\ Finished /\ TableSorted
      /\ AtHand = IF files[fileno].other THEN {} ELSE {fileno}
  BY AtHandIs DEF AInv, ATypeOK
<1>2. \A d \in Range(Db) : Taken(d) = Places(d, AtHand)
  <2> TAKE d \in Range(Db)
  <2>1. PICK k \in 1 .. 3 : d = Db[k]
    BY DbIs
  <2> QED BY <1>1, <2>1 DEF Finished
<1>3. Range(anchors) = UNION {{RecordAt(d, p) : p \in Places(d, AtHand)} : d \in Range(Db)}
  <2>1. Range(anchors) = UNION {{RecordAt(d, p) : p \in Taken(d)} : d \in Range(Db)}
    BY <1>1 DEF TableRight
  <2>2. \A d \in Range(Db) : {RecordAt(d, p) : p \in Taken(d)} = {RecordAt(d, p) : p \in Places(d, AtHand)}
    BY <1>2
  <2> QED BY <2>1, <2>2
<1>4. \A d : Places(d, {}) = {}
  BY PlacesAre
<1>5. Range(anchors) = AnchorsOf(fileno)
  BY <1>1, <1>3, <1>4 DEF AnchorsOf
<1> QED BY <1>1, <1>5 DEF TableRight, TableSorted

(* AnchorsRight: each file gets the anchors that global prints for it and  *)
(* no others, sorted by their lines, wherever the portions end in which    *)
(* the three streams read the list.                                        *)
THEOREM AnchorsRightHolds == AnchorsSpec => []AnchorsRight
BY AInvIsRight, AInvHolds, PTL
-----------------------------------------------------------------------------
LEMMA ExtremesAre ==
    ASSUME NEW S \in SUBSET Nat, NEW m \in S
    PROVE  /\ (\A y \in S : y <= m) => Max(S) = m
           /\ (\A y \in S : m <= y) => Min(S) = m
<1>1. ASSUME \A y \in S : y <= m PROVE Max(S) = m
  <2>1. Max(S) \in S /\ \A y \in S : Max(S) >= y
    <3>1. \E x \in S : \A y \in S : x >= y
      BY <1>1
    <3> QED BY <3>1 DEF Max
  <2>2. Max(S) \in Nat /\ m \in Nat /\ Max(S) >= m /\ Max(S) <= m
    BY <1>1, <2>1
  <2> QED BY <2>2
<1>2. ASSUME \A y \in S : m <= y PROVE Min(S) = m
  <2>1. Min(S) \in S /\ \A y \in S : Min(S) <= y
    <3>1. \E x \in S : \A y \in S : x <= y
      BY <1>2
    <3> QED BY <3>1 DEF Min
  <2>2. Min(S) \in Nat /\ m \in Nat /\ Min(S) <= m /\ Min(S) >= m
    BY <1>2, <2>1
  <2> QED BY <2>2
<1> QED BY <1>1, <1>2

(* The definitions of a sorted table are in the order of their lines. *)
DefsInOrder ==
    /\ DOMAIN anchors = 1 .. Len(anchors) /\ Len(anchors) \in Nat
    /\ Definitions \subseteq DOMAIN anchors
    /\ \A i \in Definitions : anchors[i].lineno \in Nat \ {0}
    /\ \A i, j \in Definitions : i < j => anchors[i].lineno < anchors[j].lineno

Linenos(X) == {anchors[i].lineno : i \in X}

LEMMA LineOfIs ==
    ASSUME DefsInOrder, NEW X \in SUBSET Definitions
    PROVE  /\ LineOf(Highest(X)) = Highest(Linenos(X))
           /\ LineOf(Lowest(X)) = Lowest(Linenos(X))
           /\ Linenos(X) \in SUBSET Nat
<1>1. X \in SUBSET (0 .. Len(anchors)) /\ X \in SUBSET Nat /\ Len(anchors) \in Nat
  BY DEF DefsInOrder
<1>2. Linenos(X) \in SUBSET Nat
  BY DEF Linenos, DefsInOrder
<1>3. CASE X = {}
  BY <1>2, <1>3 DEF Linenos, LineOf, Highest, Lowest
<1>4. CASE X # {}
  <2>1. Max(X) \in X /\ \A y \in X : y <= Max(X)
    BY <1>1, <1>4, GreatestIs
  <2>2. Min(X) \in X /\ \A y \in X : Min(X) <= y
    BY <1>1, <1>4, LeastIs
  <2>3. PICK b \in X : b = Max(X) /\ b \in Nat /\ b # 0
    <3>1. Max(X) \in 1 .. Len(anchors)
      BY <2>1 DEF DefsInOrder
    <3> QED BY <1>1, <2>1, <3>1
  <2>4. PICK a \in X : a = Min(X) /\ a \in Nat /\ a # 0
    <3>1. Min(X) \in 1 .. Len(anchors)
      BY <2>2 DEF DefsInOrder
    <3> QED BY <1>1, <2>2, <3>1
  <2>5. \A i \in X : anchors[i].lineno \in Nat /\ i \in Nat
    BY <1>1 DEF DefsInOrder
  <2>6. \A i, j \in X : i < j => anchors[i].lineno < anchors[j].lineno
    BY DEF DefsInOrder
  <2>7. \A i \in X : anchors[i].lineno <= anchors[b].lineno
    BY <2>1, <2>3, <2>5, <2>6
  <2>8. \A i \in X : anchors[a].lineno <= anchors[i].lineno
    BY <2>2, <2>4, <2>5, <2>6
  <2>9. Max(Linenos(X)) = anchors[b].lineno /\ Min(Linenos(X)) = anchors[a].lineno
    <3>1. anchors[b].lineno \in Linenos(X) /\ anchors[a].lineno \in Linenos(X)
      BY DEF Linenos
    <3>2. \A l \in Linenos(X) : l <= anchors[b].lineno /\ anchors[a].lineno <= l
      BY <2>7, <2>8 DEF Linenos
    <3> QED BY <1>2, <3>1, <3>2, ExtremesAre
  <2>10. Linenos(X) # {}
    BY <1>4 DEF Linenos
  <2> QED BY <1>2, <1>4, <2>3, <2>4, <2>9, <2>10 DEF LineOf, Highest, Lowest
<1> QED BY <1>3, <1>4

LEMMA LinesInOrder ==
    ASSUME AInv, step = "lines"
    PROVE  /\ DefsInOrder
           /\ {a.lineno : a \in {b \in AnchorsOf(fileno) : b.type = "D"}} = Linenos(Definitions)
           /\ Definitions # {} => CURRENTDEF = Max(Definitions)
<1>1. /\ ATypeOK /\ fileno \in DOMAIN files /\ TableSorted /\ TableRight
      /\ Range(anchors) = AnchorsOf(fileno) /\ IsInjective(anchors)
      /\ AtHand = IF files[fileno].other THEN {} ELSE {fileno}
  BY AInvIsRight, AtHandIs DEF AInv, ATypeOK, AnchorsRight
<1>2. DOMAIN anchors = 1 .. Len(anchors) /\ Len(anchors) \in Nat /\ Definitions \subseteq DOMAIN anchors
  BY <1>1, LoopedIs
<1>3. \A i \in DOMAIN anchors :
        anchors[i] \in [fid : Nat, lineno : Nat \ {0}, type : {"D", "T", "R", "Y"}]
  <2>1. anchors \in Seq([fid : Nat, lineno : Nat \ {0}, type : {"D", "T", "R", "Y"}])
    BY <1>1 DEF ATypeOK
  <2>2. \A A : anchors \in Seq(A) => \A i \in DOMAIN anchors : anchors[i] \in A
    OBVIOUS
  <2> QED BY <2>1, <2>2
<1>4. \A i \in DOMAIN anchors : anchors[i].fid = files[fileno].fid /\ ~files[fileno].other
  <2> TAKE i \in DOMAIN anchors
  <2>1. anchors[i] \in AnchorsOf(fileno)
    BY <1>1 DEF Range
  <2>2. ~files[fileno].other
    BY <2>1 DEF AnchorsOf
  <2>3. PICK d \in Range(Db) : \E p \in Places(d, {fileno}) : anchors[i] = RecordAt(d, p)
    BY <2>1, <2>2 DEF AnchorsOf
  <2>4. PICK p \in Places(d, {fileno}) : anchors[i] = RecordAt(d, p)
    BY <2>3
  <2>5. p[1] = fileno
    BY PlacesAre
  <2> QED BY <2>2, <2>4, <2>5 DEF RecordAt
<1>5. \A i \in Definitions : anchors[i].type = "D"
  BY DEF Definitions
<1>6. ASSUME NEW i \in Definitions, NEW j \in Definitions, i < j
      PROVE  anchors[i].lineno < anchors[j].lineno
  <2>1. anchors[i].lineno <= anchors[j].lineno
    BY <1>1, <1>2, <1>6 DEF TableSorted
  <2>2. anchors[i].lineno # anchors[j].lineno
    <3> SUFFICES ASSUME anchors[i].lineno = anchors[j].lineno PROVE FALSE
      OBVIOUS
    <3>1. anchors[i] = anchors[j]
      BY <1>2, <1>3, <1>4, <1>5
    <3>2. i = j
      BY <1>1, <1>2, <3>1 DEF IsInjective
    <3> QED BY <1>2, <1>6, <3>2
  <2>3. anchors[i].lineno \in Nat /\ anchors[j].lineno \in Nat
    BY <1>2, <1>3
  <2> QED BY <2>1, <2>2, <2>3
<1>7. DefsInOrder
  BY <1>2, <1>3, <1>6 DEF DefsInOrder
<1>8. {a.lineno : a \in {b \in AnchorsOf(fileno) : b.type = "D"}} = Linenos(Definitions)
  BY <1>1 DEF Linenos, Definitions, Range
<1>9. Definitions # {} => CURRENTDEF = Max(Definitions)
  <2>1. Definitions # {} => AtHand # {}
    BY <1>1, <1>2, <1>4
  <2> QED BY <2>1 DEF AInv
<1> QED BY <1>7, <1>8, <1>9

(* LinksRight: the links beside a definition lead to its neighbours in     *)
(* this file, and to the first and the last.                               *)
THEOREM LinksRightHolds == AnchorsSpec => []LinksRight
<1>1. ASSUME AInv PROVE LinksRight
  <2> DEFINE defs == {a.lineno : a \in {b \in AnchorsOf(fileno) : b.type = "D"}}
  <2> SUFFICES ASSUME step = "lines", NEW line \in defs
               PROVE  GetLinks(line) = [prev  |-> Highest({l \in defs : l < line}),
                                        next  |-> Lowest({l \in defs : l > line}),
                                        first |-> Lowest({Min(defs)} \ {line}),
                                        last  |-> Highest({Max(defs)} \ {line})]
    BY DEF LinksRight
  <2>1. /\ DefsInOrder /\ defs = Linenos(Definitions)
        /\ Definitions # {} => CURRENTDEF = Max(Definitions)
    BY <1>1, LinesInOrder
  <2> HIDE DEF defs
  <2>2. PICK c \in Definitions : line = anchors[c].lineno
    BY <2>1 DEF Linenos
  <2>3. /\ Definitions \subseteq 1 .. Len(anchors) /\ Len(anchors) \in Nat
        /\ Definitions \in SUBSET (0 .. Len(anchors)) /\ Definitions \in SUBSET Nat
    BY <2>1 DEF DefsInOrder
  <2>4. /\ \A i \in Definitions : i \in Nat /\ i # 0 /\ anchors[i].lineno \in Nat \ {0}
        /\ \A i, j \in Definitions : i < j => anchors[i].lineno < anchors[j].lineno
    BY <2>1, <2>3 DEF DefsInOrder
  <2>5. \A i \in Definitions : /\ i < c <=> anchors[i].lineno < line
                               /\ i > c <=> anchors[i].lineno > line
                               /\ i = c <=> anchors[i].lineno = line
    BY <2>2, <2>4
  <2>6. PlaceOf(line) = c
    <3>1. Max(Definitions) \in Definitions /\ c <= Max(Definitions)
      BY <2>2, <2>3, GreatestIs
    <3>2. CURRENTDEF = Max(Definitions) /\ CURRENTDEF # 0 /\ CURRENTDEF \in Nat
      BY <2>1, <2>2, <2>4, <3>1
    <3>3. {i \in {j \in Definitions : anchors[j].lineno = line} : i <= CURRENTDEF} = {c}
      BY <2>2, <2>5, <3>1, <3>2
    <3>4. Max({c}) = c
      BY <2>2, <2>4, ExtremesAre
    <3> QED BY <3>2, <3>3, <3>4 DEF PlaceOf, Highest
  <2>7. LineOf(Highest({i \in Definitions : i < c})) = Highest({l \in defs : l < line})
    <3>1. Linenos({i \in Definitions : i < c}) = {l \in defs : l < line}
      BY <2>1, <2>5 DEF Linenos
    <3> QED BY <2>1, <3>1, LineOfIs
  <2>8. LineOf(Lowest({i \in Definitions : i > c})) = Lowest({l \in defs : l > line})
    <3>1. Linenos({i \in Definitions : i > c}) = {l \in defs : l > line}
      BY <2>1, <2>5 DEF Linenos
    <3> QED BY <2>1, <3>1, LineOfIs
  <2>9. defs \in SUBSET Nat /\ FirstDef = Lowest(defs) /\ LastDef = Highest(defs)
    BY <2>1, LineOfIs DEF FirstDef, LastDef
  <2>10. FirstDef = Min(defs) /\ LastDef = Max(defs) /\ FirstDef \in Nat /\ LastDef \in Nat
    <3>1. defs # {}
      OBVIOUS
    <3>2. FirstDef = Min(defs) /\ LastDef = Max(defs)
      BY <2>9, <3>1 DEF Lowest, Highest
    <3>3. Min(defs) \in Nat
      BY <2>9, <3>1, LeastIs
    <3>4. LastDef \in Nat
      <4>1. Max(Definitions) \in Definitions
        BY <2>2, <2>3, GreatestIs
      <4> QED BY <2>2, <2>4, <4>1 DEF LastDef, LineOf, Highest
    <3> QED BY <3>2, <3>3, <3>4
  <2>11. \A m \in Nat : /\ Lowest({m} \ {line}) = IF line # m THEN m ELSE 0
                        /\ Highest({m} \ {line}) = IF line # m THEN m ELSE 0
    <3> TAKE m \in Nat
    <3>1. Max({m}) = m /\ Min({m}) = m
      BY ExtremesAre
    <3>2. CASE line # m
      <4>1. {m} \ {line} = {m}
        BY <3>2
      <4> QED BY <3>1, <3>2, <4>1 DEF Lowest, Highest
    <3>3. CASE line = m
      <4>1. {m} \ {line} = {}
        BY <3>3
      <4> QED BY <3>3, <4>1 DEF Lowest, Highest
    <3> QED BY <3>2, <3>3
  <2> QED BY <2>6, <2>7, <2>8, <2>10, <2>11 DEF GetLinks
<1> QED BY <1>1, AInvHolds, PTL
=============================================================================
