-------------------------- MODULE TagReaderProofs --------------------------
(***************************************************************************)
(* A search returns the records it asks for, each once and in order, for   *)
(* any names, prefixes, files, order of paths, tag file and pattern, in    *)
(* both engines and all three modes; but for the one query that the code   *)
(* gets wrong, where it may return too few of them.                        *)
(***************************************************************************)
EXTENDS TagReader, FiniteSetTheorems, WellFoundedInduction, TLAPS

Key(k) == Rec(k).key
Hit(k) == k \in 1 .. Size /\ InRange(k) /\ Key(k) # Meta /\ Matches(k)
Due == {k \in 1 .. Size : /\ Key(k) # Meta /\ Wanted(Key(k))
                          /\ pattern.kind = "any" \/ Key(k) \in pattern.names}

(* References by tag, ignoring case: gtags_first may end too early. *)
EndsEarly == pattern.kind = "icase" /\ mode = "tag" /\ db # "GTAGS"

Items == CASE mode = "tag"  -> TagRecord
           [] mode = "key"  -> [key : Name]
           [] mode = "path" -> [fid : Fid]

FileOK ==
    /\ file \in Seq([key : Name \cup {Meta}, fid : Fid \cup {0}])
    /\ \A i \in 1 .. Size : Key(i) # Meta => Rec(i) \in TagRecord
    /\ \A i, j \in 1 .. Size : i < j => Follows(Rec(j), Rec(i))

QueryOK ==
    /\ FileOK
    /\ engine \in {"btree", "sqlite"} /\ db \in {"GTAGS", "GRTAGS", "GSYMS"}
    /\ mode \in {"tag", "key", "path"}
    /\ pattern \in Patterns
    /\ ~IcaseRefs => ~EndsEarly

RangeOK ==
    pc # "open" =>
        CASE pattern.kind \in {"name", "prefix"} -> range = pattern.names /\ ~prefix
          [] pattern.kind = "icase" -> \/ range = Upper /\ prefix
                                       \/ range = Lower /\ Lower # {} /\ ~prefix
          [] OTHER -> range = Name \cup {Meta} /\ ~prefix

Dbop == [cursor : 0 .. Size, last : 0 .. Size, unread : BOOLEAN,
         prev : Name \cup {Meta}, done : BOOLEAN]

(* Between the records of a pass: the cursor has reached the range, and    *)
(* what is put back is a record that the pass is to return.                *)
Between ==
    /\ \E i \in 1 .. d.cursor : InRange(i)
    /\ d.unread => mode = "tag" /\ d.last = d.cursor /\ Hit(d.cursor)
    /\ d.done => mode = "tag" /\ \A k \in d.cursor + 1 .. Size : ~Hit(k)
    /\ mode = "key" => Hit(d.cursor) /\ d.prev = Key(d.cursor)

DbopOK ==
    /\ d \in Dbop
    /\ prefix \in BOOLEAN
    /\ engine = "btree" => ~d.done
    /\ pc \in {"open", "first"} => ~d.unread
    /\ pc = "next" \/ (pc = "reading" /\ mode # "path") => Between

(* The place before which all of the pass is read *)
Place == IF pc \in {"open", "first"} THEN 0
         ELSE IF d.unread THEN d.cursor - 1 ELSE d.cursor
Second == pc # "open" /\ pattern.kind = "icase" /\ ~prefix
Handled == {k \in Due : (Second /\ Key(k) \in Upper) \/ (InRange(k) /\ k <= Place)}

(* What the caller has got, or will without another call of the DBOP *)
Got == out \o seg

Stages ==
    /\ pc \in {"open", "first", "next", "reading", "done"}
    /\ pool \subseteq Items /\ IsFiniteSet(pool)
    /\ out \in Seq(Items) /\ seg \in Seq(Items)
    /\ seg # <<>> => pc = "reading" /\ mode # "key"
    /\ pool # {} => (pc = "next" /\ mode # "key") \/ (pc = "first" /\ mode = "path")
    /\ pc = "open" \/ (mode = "path" /\ pc \in {"first", "next"}) => out = <<>>

Gathered ==
    /\ (pc = "done" /\ ~EndsEarly) \/ (mode = "path" /\ pc = "reading") => Range(Got) = Answer
    /\ pc # "done" /\ mode = "tag" => Range(Got) \cup pool = {Rec(k) : k \in Handled}
    /\ pc # "done" /\ mode = "key" => Range(Got) = {[key |-> Key(k)] : k \in Handled}
    /\ pc \notin {"done", "reading"} /\ mode = "path" =>
          pool = {[fid |-> Rec(k).fid] : k \in Handled}

(* The record that gtags_first has put back is one to return. *)
FirstOK ==
    mode = "tag" /\ call = "gtags_first" /\ pc = "next" /\ pool = {} /\ prefix /\ db = "GTAGS"
        => d.unread

Ordered(q, r) ==
    CASE mode = "tag"  -> q.key < r.key \/ (q.key = r.key /\ Rank[q.fid] < Rank[r.fid])
      [] mode = "key"  -> q.key < r.key
      [] mode = "path" -> Rank[q.fid] < Rank[r.fid]

OrderOK ==
    /\ \A i, j \in 1 .. Len(Got) : i < j => Ordered(Got[i], Got[j])
    /\ mode = "tag" =>
          /\ \A q \in Range(Got), r \in pool : q.key < r.key
          /\ \A q, r \in pool : q.key = r.key
          /\ pc # "done" => \A q \in Range(Got), k \in Due \ Handled : q.key < Key(k)

ReaderInv ==
    QueryOK /\ RangeOK /\ DbopOK /\ Stages /\ Gathered /\ FirstOK /\ OrderOK
-----------------------------------------------------------------------------
(* A set of numbers has a least one. *)
LEMMA LeastIs ==
    ASSUME NEW S \in SUBSET Nat, S # {}
    PROVE  Min(S) \in S /\ \A y \in S : Min(S) <= y
<1>1. PICK x \in S : \A y \in S : ~ (<<y, x>> \in OpToRel(<, Nat))
  BY NatLessThanWellFounded, WFMin
<1>2. \A y \in S : x <= y
  <2> SUFFICES ASSUME NEW y \in S, ~(x <= y) PROVE FALSE
    OBVIOUS
  <2>1. <<y, x>> \in Nat \X Nat /\ y < x
    OBVIOUS
  <2>2. <<y, x>> \in {ss \in Nat \X Nat : ss[1] < ss[2]}
    BY <2>1
  <2>3. <<y, x>> \in OpToRel(<, Nat)
    BY <2>2 DEF OpToRel
  <2> QED BY <1>1, <2>3
<1> QED BY <1>2 DEF Min

LEMMA KeysAre ==
    ASSUME FileOK
    PROVE  /\ Size \in Nat
           /\ \A k \in 1 .. Size : Key(k) \in Name \cup {Meta} /\ Key(k) \in Nat
           /\ \A i, j \in 1 .. Size : i <= j => Key(i) <= Key(j)
<1> DEFINE R == [key : Name \cup {Meta}, fid : Fid \cup {0}]
<1>1. file \in Seq(R) /\ Size \in Nat
  BY DEF FileOK, Size
<1>2. \A r \in R : r.key \in Name \cup {Meta}
  OBVIOUS
<1> HIDE DEF R
<1>3. \A k \in 1 .. Size : Key(k) \in Name \cup {Meta}
  BY <1>1, <1>2 DEF Size, Key, Rec
<1>4. \A k \in 1 .. Size : Key(k) \in Nat
  <2>1. Name \cup {Meta} \subseteq Nat
    BY ReaderAssumption DEF Meta
  <2> QED BY <1>3, <2>1
<1>5. \A i, j \in 1 .. Size : i < j => Key(i) <= Key(j)
  BY <1>4 DEF FileOK, Follows, Key
<1> QED BY <1>1, <1>3, <1>4, <1>5

(* Whatever the pass, its range is a run of names. *)
LEMMA RangeRuns ==
    ASSUME QueryOK, RangeOK, pc # "open"
    PROVE  /\ range \in SUBSET Nat /\ range # {}
           /\ \A n \in Name \cup {Meta}, x, y \in range : x <= n /\ n <= y => n \in range
<1>1. /\ pattern.kind \in {"any", "name", "prefix", "regex", "icase"}
      /\ pattern.kind \in {"name", "prefix"} => Consecutive(pattern.names)
  BY ReaderAssumption DEF QueryOK
<1>2. Consecutive(range) \/ range = Name \cup {Meta}
  BY <1>1, ReaderAssumption DEF RangeOK
<1>3. CASE Consecutive(range)
  <2>1. range \subseteq Nat \ {0} /\ range # {}
    BY <1>3 DEF Consecutive, Meta
  <2>2. \A x, y \in range, n \in Name : x <= n /\ n <= y => n \in range
    BY <1>3 DEF Consecutive
  <2>3. \A x \in range : ~(x <= 0)
    BY <2>1
  <2> QED BY <2>1, <2>2, <2>3 DEF Meta
<1>4. CASE range = Name \cup {Meta}
  BY <1>4, ReaderAssumption DEF Meta
<1> QED BY <1>2, <1>3, <1>4
-----------------------------------------------------------------------------
(* dbop_first finds the first record of the pass. *)
LEMMA FirstFinds ==
    ASSUME QueryOK, RangeOK, DbopOK, pc = "first", NEW e, e = DbopFirst
    PROVE  /\ e.i \in 0 .. Size /\ e.d \in Dbop /\ ~e.d.unread
           /\ engine = "btree" => ~e.d.done
           /\ e.i # 0 => /\ Hit(e.i) /\ \A k \in 1 .. e.i - 1 : ~Hit(k)
                         /\ e.d.cursor = e.i /\ e.d.last = e.i /\ e.d.prev = Key(e.i)
                         /\ ~e.d.done
           /\ e.i = 0 => \A k \in 1 .. Size : ~Hit(k)
<1>1. /\ Size \in Nat
      /\ \A k \in 1 .. Size : Key(k) \in Name \cup {Meta} /\ Key(k) \in Nat
      /\ \A i, j \in 1 .. Size : i <= j => Key(i) <= Key(j)
  BY KeysAre DEF QueryOK
<1>2. /\ range \in SUBSET Nat /\ range # {}
      /\ \A n \in Name \cup {Meta}, x, y \in range : x <= n /\ n <= y => n \in range
  BY RangeRuns
<1>3. Min(range) \in range /\ Min(range) \in Nat /\ \A x \in range : Min(range) <= x
  BY <1>2, LeastIs
<1>4. ASSUME NEW i \in 1 .. Size
      PROVE  /\ At(i).i = i /\ At(i).d \in Dbop /\ ~At(i).d.unread
             /\ At(i).d.done = d.done
             /\ At(i).d.cursor = i /\ At(i).d.last = i /\ At(i).d.prev = Key(i)
  <2>1. Key(i) \in Name \cup {Meta} /\ i \in 0 .. Size
    BY <1>1
  <2>2. At(i).i = i /\ At(i).d = [d EXCEPT !.cursor = i, !.last = i, !.prev = Key(i)]
    BY DEF At, Key
  <2>3. d \in Dbop /\ ~d.unread
    BY DEF DbopOK
  <2> HIDE DEF Key
  <2> QED BY <2>1, <2>2, <2>3 DEF Dbop
<1>5. ASSUME NEW i \in 0 .. Size
      PROVE  Nothing(i).i = 0 /\ Nothing(i).d \in Dbop /\ ~Nothing(i).d.unread
             /\ Nothing(i).d.done = d.done
  BY <1>1 DEF Nothing, DbopOK, Dbop
<1>6. CASE engine = "btree"
  <2> DEFINE from == {i \in 1 .. Size : Key(i) >= Min(range)}
             stop == {i \in from : ~InRange(i) \/ (Key(i) # Meta /\ Matches(i))}
  <2>1. e = IF from = {} THEN [i |-> 0, d |-> d]
            ELSE IF stop = {} THEN Nothing(Size)
            ELSE IF InRange(Min(stop)) THEN At(Min(stop)) ELSE Nothing(Min(stop))
    BY <1>6 DEF DbopFirst, BtreeFirst, Key
  <2>2. \A k : Hit(k) => k \in stop
    BY <1>1, <1>3 DEF Hit, InRange, Key
  <2>3. \A k \in stop : InRange(k) => Hit(k)
    BY DEF Hit
  <2>4. stop \in SUBSET (1 .. Size) /\ stop \in SUBSET Nat
    BY <1>1
  <2>5. ASSUME NEW k \in stop, ~InRange(k), NEW l \in k .. Size PROVE ~Hit(l)
    <3> SUFFICES ASSUME Hit(l) PROVE FALSE
      OBVIOUS
    <3>1. k \in 1 .. Size /\ l \in 1 .. Size /\ k <= l
      BY <1>1, <2>4, <2>5
    <3>2. Min(range) <= Key(k) /\ Key(k) <= Key(l) /\ Key(l) \in range
      BY <1>1, <1>3, <3>1 DEF Hit, InRange, Key
    <3> QED BY <1>1, <1>2, <1>3, <2>5, <3>1, <3>2 DEF InRange, Key
  <2> HIDE DEF stop, from
  <2>6. CASE from = {}
    <3>1. \A k \in 1 .. Size : ~Hit(k)
      BY <2>2, <2>6 DEF stop
    <3> QED BY <1>1, <1>6, <2>1, <2>6, <3>1 DEF DbopOK, Dbop
  <2>7. CASE from # {} /\ stop = {}
    BY <1>1, <1>5, <1>6, <2>1, <2>2, <2>7 DEF DbopOK
  <2>8. CASE from # {} /\ stop # {}
    <3>1. Min(stop) \in stop /\ \A k \in stop : Min(stop) <= k
      BY <2>4, <2>8, LeastIs
    <3>2. PICK m \in 1 .. Size : m = Min(stop) /\ m \in stop
      BY <2>4, <3>1
    <3>3. \A k \in 1 .. Size : k < m => ~Hit(k)
      BY <1>1, <2>2, <3>1, <3>2
    <3>4. CASE InRange(m)
      <4>1. e = At(m) /\ Hit(m)
        BY <2>1, <2>3, <2>8, <3>2, <3>4
      <4> QED BY <1>1, <1>4, <1>6, <3>3, <4>1 DEF DbopOK
    <3>5. CASE ~InRange(m)
      <4>1. e = Nothing(m)
        BY <2>1, <2>8, <3>2, <3>5
      <4>2. \A k \in 1 .. Size : ~Hit(k)
        BY <1>1, <2>5, <3>2, <3>3, <3>5
      <4> QED BY <1>1, <1>5, <1>6, <4>1, <4>2 DEF DbopOK
    <3> QED BY <3>4, <3>5
  <2> QED BY <2>6, <2>7, <2>8
<1>7. CASE engine = "sqlite"
  <2>1. /\ e = IF Rows = {} THEN [i |-> 0, d |-> [d EXCEPT !.done = TRUE, !.last = 0]]
               ELSE [At(Min(Rows)) EXCEPT !.d.done = FALSE]
        /\ Rows = {k \in 1 .. Size : Hit(k)}
    BY <1>7 DEF DbopFirst, Dbop3First, Rows, Hit, Key
  <2>2. CASE Rows = {}
    <3>1. e.i = 0 /\ e.d = [d EXCEPT !.done = TRUE, !.last = 0]
      BY <2>1, <2>2
    <3>2. e.d \in Dbop /\ ~e.d.unread
      <4>1. d \in Dbop /\ ~d.unread /\ 0 \in 0 .. Size
        BY <1>1 DEF DbopOK
      <4> QED BY <3>1, <4>1 DEF Dbop
    <3> QED BY <1>1, <1>7, <2>1, <2>2, <3>1, <3>2
  <2>3. CASE Rows # {}
    <3>1. Rows \in SUBSET Nat
      BY <1>1, <2>1
    <3>2. Min(Rows) \in Rows /\ \A k \in Rows : Min(Rows) <= k
      BY <2>3, <3>1, LeastIs
    <3>3. PICK m \in 1 .. Size : m = Min(Rows) /\ Hit(m)
      BY <2>1, <3>2
    <3>4. \A k \in 1 .. Size : k < m => ~Hit(k)
      BY <1>1, <2>1, <3>2, <3>3
    <3>5. e.i = m /\ e.d = [At(m).d EXCEPT !.done = FALSE]
      BY <2>1, <2>3, <3>3 DEF At
    <3>6. /\ e.d \in Dbop /\ ~e.d.unread /\ ~e.d.done
          /\ e.d.cursor = m /\ e.d.last = m /\ e.d.prev = Key(m)
      <4>1. PICK x : x = At(m).d
        OBVIOUS
      <4>2. x \in Dbop /\ ~x.unread /\ x.cursor = m /\ x.last = m /\ x.prev = Key(m)
        BY <1>4, <4>1
      <4>3. e.d = [x EXCEPT !.done = FALSE]
        BY <3>5, <4>1
      <4> HIDE DEF Key, At
      <4> QED BY <4>2, <4>3 DEF Dbop
    <3> QED BY <1>1, <3>3, <3>4, <3>5, <3>6
  <2> QED BY <2>2, <2>3
<1> QED BY <1>6, <1>7 DEF QueryOK

(* So does dbop_next with the next one, but for those of the same key. *)
LEMMA NextFinds ==
    ASSUME QueryOK, RangeOK, DbopOK, pc = "next", ~d.unread, NEW e, e = DbopNext
    PROVE  /\ e.i \in 0 .. Size /\ e.d \in Dbop /\ ~e.d.unread
           /\ engine = "btree" => ~e.d.done
           /\ e.i # 0 => /\ Hit(e.i) /\ ~SameKey(e.i) /\ e.i > d.cursor
                         /\ \A k \in d.cursor + 1 .. e.i - 1 : Hit(k) => SameKey(k)
                         /\ e.d.cursor = e.i /\ e.d.last = e.i /\ e.d.prev = Key(e.i)
                         /\ ~e.d.done
           /\ e.i = 0 => /\ \A k \in d.cursor + 1 .. Size : Hit(k) => SameKey(k)
                         /\ e.d.cursor \in d.cursor .. Size
<1>1. /\ Size \in Nat
      /\ \A k \in 1 .. Size : Key(k) \in Name \cup {Meta} /\ Key(k) \in Nat
      /\ \A i, j \in 1 .. Size : i <= j => Key(i) <= Key(j)
  BY KeysAre DEF QueryOK
<1>2. /\ range \in SUBSET Nat
      /\ \A n \in Name \cup {Meta}, x, y \in range : x <= n /\ n <= y => n \in range
  BY RangeRuns
<1>3. /\ d \in Dbop /\ ~d.unread /\ d.cursor \in 0 .. Size /\ d.cursor \in Nat
      /\ \E i \in 1 .. d.cursor : InRange(i)
      /\ engine = "btree" => ~d.done
      /\ d.done => mode = "tag" /\ \A k \in d.cursor + 1 .. Size : ~Hit(k)
  <2>1. d \in Dbop /\ ~d.unread /\ d.cursor \in 0 .. Size
    BY DEF DbopOK, Dbop
  <2> QED BY <1>1, <2>1 DEF DbopOK, Between
<1>4. ASSUME NEW i \in 1 .. Size
      PROVE  /\ At(i).i = i /\ At(i).d \in Dbop /\ ~At(i).d.unread
             /\ At(i).d.done = d.done
             /\ At(i).d.cursor = i /\ At(i).d.last = i /\ At(i).d.prev = Key(i)
  <2>1. Key(i) \in Name \cup {Meta} /\ i \in 0 .. Size
    BY <1>1
  <2>2. At(i).i = i /\ At(i).d = [d EXCEPT !.cursor = i, !.last = i, !.prev = Key(i)]
    BY DEF At, Key
  <2> HIDE DEF Key
  <2> QED BY <1>3, <2>1, <2>2 DEF Dbop
<1>5. CASE engine = "btree"
  <2> DEFINE stop == {i \in d.cursor + 1 .. Size :
                        Key(i) # Meta /\ ~SameKey(i) /\ (~InRange(i) \/ Matches(i))}
  <2>1. e = IF stop = {} THEN Nothing(Size)
            ELSE IF InRange(Min(stop)) THEN At(Min(stop)) ELSE [At(Min(stop)) EXCEPT !.i = 0]
    BY <1>3, <1>5 DEF DbopNext, BtreeNext, Key
  <2>2. \A k \in d.cursor + 1 .. Size : Hit(k) => SameKey(k) \/ k \in stop
    BY DEF Hit
  <2>3. \A k \in stop : /\ InRange(k) => Hit(k) /\ ~SameKey(k)
                        /\ k \in d.cursor + 1 .. Size /\ k \in 1 .. Size
    BY <1>1, <1>3 DEF Hit
  <2>4. stop \in SUBSET Nat
    BY <1>1, <1>3
  <2>5. ASSUME NEW k \in stop, ~InRange(k), NEW l \in k .. Size PROVE ~Hit(l)
    <3> SUFFICES ASSUME Hit(l) PROVE FALSE
      OBVIOUS
    <3>1. k \in 1 .. Size /\ l \in 1 .. Size /\ k <= l /\ k > d.cursor
      BY <1>1, <1>3, <2>3, <2>5
    <3>2. PICK i \in 1 .. d.cursor : InRange(i)
      BY <1>3
    <3>3. i \in 1 .. Size /\ i <= k
      BY <1>1, <1>3, <3>1
    <3>4. /\ Key(i) <= Key(k) /\ Key(k) <= Key(l) /\ Key(i) \in range /\ Key(l) \in range
          /\ Key(k) \in Name \cup {Meta}
      BY <1>1, <3>1, <3>2, <3>3 DEF Hit, InRange, Key
    <3> QED BY <1>2, <2>5, <3>4 DEF InRange, Key
  <2> HIDE DEF stop
  <2>6. CASE stop = {}
    <3>1. e.i = 0 /\ e.d = [d EXCEPT !.cursor = Size]
      BY <2>1, <2>6 DEF Nothing
    <3>2. e.d \in Dbop /\ ~e.d.unread /\ e.d.cursor = Size /\ ~e.d.done
      <4>1. Size \in 0 .. Size
        BY <1>1
      <4> QED BY <1>3, <1>5, <3>1, <4>1 DEF Dbop
    <3> QED BY <1>1, <1>3, <2>2, <2>6, <3>1, <3>2
  <2>7. CASE stop # {}
    <3>1. Min(stop) \in stop /\ \A k \in stop : Min(stop) <= k
      BY <2>4, <2>7, LeastIs
    <3>2. PICK m \in 1 .. Size : m = Min(stop) /\ m \in stop /\ m \in d.cursor + 1 .. Size
      BY <2>3, <3>1
    <3>3. \A k \in d.cursor + 1 .. m - 1 : Hit(k) => SameKey(k)
      BY <1>1, <1>3, <2>2, <3>1, <3>2
    <3>4. CASE InRange(m)
      <4>1. e = At(m) /\ Hit(m) /\ ~SameKey(m)
        BY <2>1, <2>3, <2>7, <3>2, <3>4
      <4> QED BY <1>1, <1>3, <1>4, <1>5, <3>2, <3>3, <4>1
    <3>5. CASE ~InRange(m)
      <4>1. e.i = 0 /\ e.d = At(m).d
        BY <2>1, <2>7, <3>2, <3>5 DEF At
      <4>2. \A k \in d.cursor + 1 .. Size : Hit(k) => SameKey(k)
        BY <1>1, <1>3, <2>5, <3>2, <3>3, <3>5
      <4>3. e.d.cursor \in d.cursor .. Size
        BY <1>1, <1>3, <1>4, <3>2, <4>1
      <4> QED BY <1>1, <1>3, <1>4, <1>5, <4>1, <4>2, <4>3
    <3> QED BY <3>4, <3>5
  <2> QED BY <2>6, <2>7
<1>6. CASE engine = "sqlite"
  <2> DEFINE rows == {i \in Rows : i > d.cursor /\ ~SameKey(i)}
  <2>1. e = IF d.done THEN [i |-> 0, d |-> d]
            ELSE IF rows = {} THEN [i |-> 0, d |-> [d EXCEPT !.done = TRUE, !.last = 0]]
            ELSE At(Min(rows))
    BY <1>3, <1>6 DEF DbopNext, Dbop3Next
  <2>2. rows = {k \in d.cursor + 1 .. Size : Hit(k) /\ ~SameKey(k)}
    BY <1>1, <1>3 DEF Rows, Hit, Key
  <2> HIDE DEF rows
  <2>3. CASE d.done
    BY <1>1, <1>3, <1>6, <2>1, <2>3
  <2>4. CASE ~d.done /\ rows = {}
    <3>1. e.i = 0 /\ e.d = [d EXCEPT !.done = TRUE, !.last = 0]
      BY <2>1, <2>4
    <3>2. e.d \in Dbop /\ ~e.d.unread /\ e.d.cursor = d.cursor
      <4>1. 0 \in 0 .. Size
        BY <1>1
      <4> QED BY <1>3, <3>1, <4>1 DEF Dbop
    <3> QED BY <1>1, <1>3, <1>6, <2>2, <2>4, <3>1, <3>2
  <2>5. CASE ~d.done /\ rows # {}
    <3>1. rows \in SUBSET Nat
      BY <1>1, <1>3, <2>2
    <3>2. Min(rows) \in rows /\ \A k \in rows : Min(rows) <= k
      BY <2>5, <3>1, LeastIs
    <3>3. PICK m \in d.cursor + 1 .. Size : m = Min(rows) /\ Hit(m) /\ ~SameKey(m)
      BY <2>2, <3>2
    <3>4. \A k \in d.cursor + 1 .. m - 1 : Hit(k) => SameKey(k)
      BY <1>1, <1>3, <2>2, <3>2, <3>3
    <3>5. e = At(m) /\ m \in 1 .. Size
      BY <1>1, <1>3, <2>1, <2>5, <3>3
    <3> QED BY <1>1, <1>3, <1>4, <1>6, <2>5, <3>3, <3>4, <3>5
  <2> QED BY <2>3, <2>4, <2>5
<1> QED BY <1>5, <1>6 DEF QueryOK

(* Either of them, with a record that was put back *)
Same(k) == pc = "next" /\ SameKey(k)

LEMMA ReadFinds ==
    ASSUME QueryOK, RangeOK, DbopOK, pc \in {"first", "next"}, NEW e, e = Read
    PROVE  /\ e.i \in 0 .. Size /\ e.d \in Dbop /\ ~e.d.unread
           /\ engine = "btree" => ~e.d.done
           /\ Place \in 0 .. Size
           /\ e.i # 0 => /\ Hit(e.i) /\ ~Same(e.i) /\ e.i > Place
                         /\ \A k \in Place + 1 .. e.i - 1 : Hit(k) => Same(k)
                         /\ e.d.cursor = e.i /\ e.d.last = e.i
                         /\ mode = "key" => e.d.prev = Key(e.i)
                         /\ e.d.done => mode = "tag" /\ \A k \in e.i + 1 .. Size : ~Hit(k)
           /\ e.i = 0 => /\ \A k \in Place + 1 .. Size : Hit(k) => Same(k)
                         /\ ~d.unread
                         /\ pc = "next" => e.d.cursor \in Place .. Size
<1>1. Size \in Nat
  BY KeysAre DEF QueryOK
<1>2. d \in Dbop /\ d.cursor \in 0 .. Size /\ d.cursor \in Nat /\ d.unread \in BOOLEAN
  <2>1. d \in Dbop /\ d.cursor \in 0 .. Size /\ d.unread \in BOOLEAN
    BY DEF DbopOK, Dbop
  <2> QED BY <1>1, <2>1
<1>3. CASE pc = "first"
  <2>1. Place = 0 /\ ~d.unread /\ \A k : ~Same(k)
    BY <1>3 DEF Place, Same, DbopOK
  <2>2. e = DbopFirst
    BY <1>3 DEF Read
  <2> QED BY <1>1, <1>3, <2>1, <2>2, FirstFinds
<1>4. CASE pc = "next" /\ ~d.unread
  <2>1. Place = d.cursor /\ \A k : Same(k) <=> SameKey(k)
    BY <1>4 DEF Place, Same
  <2>2. e = DbopNext
    BY <1>4 DEF Read
  <2> QED BY <1>1, <1>2, <1>4, <2>1, <2>2, NextFinds
<1>5. CASE pc = "next" /\ d.unread
  <2>1. /\ mode = "tag" /\ d.last = d.cursor /\ Hit(d.cursor)
        /\ d.done => \A k \in d.cursor + 1 .. Size : ~Hit(k)
    BY <1>5 DEF DbopOK, Between
  <2>2. e.i = d.cursor /\ e.d = [d EXCEPT !.unread = FALSE]
    BY <1>5, <2>1 DEF Read, DbopNext
  <2>3. /\ e.d \in Dbop /\ ~e.d.unread /\ e.d.done = d.done
        /\ e.d.cursor = d.cursor /\ e.d.last = d.cursor
    BY <1>2, <2>1, <2>2 DEF Dbop
  <2>4. Place = d.cursor - 1 /\ d.cursor \in 1 .. Size
    BY <1>5, <2>1 DEF Place, Hit
  <2>5. \A k : ~Same(k)
    BY <2>1 DEF Same, SameKey
  <2>6. engine = "btree" => ~d.done
    BY DEF DbopOK
  <2> QED BY <1>1, <1>2, <1>5, <2>1, <2>2, <2>3, <2>4, <2>5, <2>6
<1> QED BY <1>2, <1>3, <1>4, <1>5
-----------------------------------------------------------------------------
(* What is due in the range is what the DBOP finds there and is wanted. *)
LEMMA DueIsHit ==
    ASSUME QueryOK, RangeOK, pc # "open", NEW k \in 1 .. Size
    PROVE  /\ k \in Due /\ InRange(k) => Hit(k)
           /\ Hit(k) /\ Wanted(Key(k)) => k \in Due
           /\ k \in Due => Wanted(Key(k))
           /\ k \in Due => InRange(k) \/ (pattern.kind = "icase" /\ Key(k) \in Upper \cup Lower)
<1>1. /\ pattern.kind \in {"any", "name", "prefix", "regex", "icase"}
      /\ pattern.kind = "icase" => pattern.names \subseteq Upper \cup Lower
  BY ReaderAssumption DEF QueryOK
<1>2. Key(k) \in Name \cup {Meta}
  BY KeysAre DEF QueryOK
<1> QED BY <1>1, <1>2 DEF Due, Hit, Matches, RangeOK, InRange, Key

LEMMA UpperLower ==
    /\ \A u \in Upper, l \in Lower : u < l /\ u # l
    /\ Upper \in SUBSET Nat /\ Lower \in SUBSET Nat
<1>1. Upper \in SUBSET Nat /\ Lower \in SUBSET Nat
  BY ReaderAssumption DEF Consecutive
<1>2. \A u \in Upper, l \in Lower : u < l
  BY ReaderAssumption
<1>3. \A u \in Upper, l \in Lower : u \in Nat /\ l \in Nat
  BY <1>1
<1> QED BY <1>1, <1>2, <1>3

(* What is handled does not come after what is not. *)
LEMMA HandledComesFirst ==
    ASSUME QueryOK, RangeOK, pc # "open", Place \in Nat,
           NEW j \in Handled, NEW k \in Due \ Handled
    PROVE  Key(j) <= Key(k)
<1>1. j \in 1 .. Size /\ k \in 1 .. Size /\ j \in Due /\ k \in Due /\ Size \in Nat
  BY KeysAre DEF Handled, Due, QueryOK
<1>2. \A i, l \in 1 .. Size : i <= l => Key(i) <= Key(l)
  BY KeysAre DEF QueryOK
<1>3. CASE Key(j) \in Upper /\ Key(k) \in Lower
  BY <1>3, UpperLower, KeysAre, <1>1 DEF QueryOK
<1>4. ~(Second /\ Key(k) \in Upper) /\ ~(InRange(k) /\ k <= Place)
  BY <1>1 DEF Handled
<1>5. InRange(k) \/ (pattern.kind = "icase" /\ Key(k) \in Upper \cup Lower)
  BY <1>1, DueIsHit
<1>6. CASE Second /\ Key(j) \in Upper
  <2>1. pattern.kind = "icase" /\ ~prefix
    BY <1>6 DEF Second
  <2>2. range = Lower
    BY <2>1 DEF RangeOK
  <2>3. Key(k) \in Lower
    BY <1>4, <1>5, <1>6, <2>2 DEF InRange, Key
  <2> QED BY <1>3, <1>6, <2>3
<1>7. CASE InRange(j) /\ j <= Place
  <2>1. CASE InRange(k)
    BY <1>1, <1>2, <1>4, <1>7, <2>1
  <2>2. CASE ~InRange(k)
    <3>1. pattern.kind = "icase" /\ Key(k) \in Upper \cup Lower
      BY <1>5, <2>2
    <3>2. range = Upper \/ (range = Lower /\ Second)
      BY <3>1 DEF RangeOK, Second
    <3>3. range = Upper /\ Key(k) \in Lower
      BY <1>4, <2>2, <3>1, <3>2 DEF InRange, Key
    <3> QED BY <1>3, <1>7, <3>3 DEF InRange, Key
  <2> QED BY <2>1, <2>2
<1> QED BY <1>6, <1>7 DEF Handled
-----------------------------------------------------------------------------
LEMMA QueryKept ==
    ASSUME QueryOK, UNCHANGED query
    PROVE  /\ QueryOK' /\ Due' = Due /\ Size' = Size /\ Answer' = Answer
           /\ \A k : Key(k)' = Key(k) /\ Rec(k)' = Rec(k)
<1> USE DEF query
<1>1. QueryOK'
  BY DEF QueryOK, FileOK, Key, Rec, Size, EndsEarly
<1>2. Size' = Size /\ \A k : Key(k)' = Key(k) /\ Rec(k)' = Rec(k)
  BY DEF Key, Rec, Size
<1>3. Due' = Due
  BY <1>2 DEF Due, Wanted
<1>4. Asked' = Asked
  BY <1>2 DEF Asked, Wanted
<1>5. Answer' = Answer
  BY <1>4 DEF Answer
<1> QED BY <1>1, <1>2, <1>3, <1>5

LEMMA PassKept ==
    ASSUME RangeOK, pc # "open", UNCHANGED <<query, range, prefix>>
    PROVE  /\ RangeOK' /\ \A k : (Hit(k)' <=> Hit(k)) /\ (InRange(k)' <=> InRange(k))
           /\ pc' # "open" => Second' = Second
<1> USE DEF query
<1>1. RangeOK'
  BY DEF RangeOK
<1>2. \A k : InRange(k)' <=> InRange(k)
  BY DEF InRange, Rec
<1>3. \A k : Hit(k)' <=> Hit(k)
  BY <1>2 DEF Hit, Matches, Key, Rec, Size
<1>4. pc' # "open" => Second' = Second
  BY DEF Second
<1> QED BY <1>1, <1>2, <1>3, <1>4

(* The keys that are passed over were handled. *)
LEMMA SameHandled ==
    ASSUME QueryOK, RangeOK, DbopOK, pc \in {"first", "next"}, NEW k \in Due, Same(k)
    PROVE  \E j \in Handled : Key(j) = Key(k)
<1>1. mode = "key" /\ pc = "next" /\ Key(k) = d.prev
  BY DEF Same, SameKey, Key
<1>2. Hit(d.cursor) /\ d.prev = Key(d.cursor) /\ ~d.unread
  BY <1>1 DEF DbopOK, Between
<1>3. Place = d.cursor /\ d.cursor \in 1 .. Size /\ InRange(d.cursor)
  BY <1>1, <1>2 DEF Place, Hit
<1>4. k \in 1 .. Size /\ Wanted(Key(k))
  BY DEF Due
<1>5. Wanted(Key(d.cursor))
  BY <1>1, <1>2, <1>4
<1>6. d.cursor \in Due
  BY <1>1, <1>2, <1>3, <1>5, DueIsHit
<1>7. d.cursor <= Place
  BY <1>3, KeysAre DEF QueryOK
<1>8. d.cursor \in Handled
  BY <1>3, <1>6, <1>7 DEF Handled
<1> QED BY <1>1, <1>2, <1>8

(* The step goes on behind the record. *)
LEMMA GoesOn ==
    ASSUME QueryOK, RangeOK, DbopOK, pc \in {"first", "next"}, NEW e, e = Read, e.i # 0,
           UNCHANGED <<query, range, prefix>>, pc' \in {"next", "reading"}, d' = e.d
    PROVE  /\ QueryOK' /\ RangeOK' /\ DbopOK'
           /\ mode # "key" => Handled' = Handled \cup ({e.i} \cap Due)
           /\ mode = "key" => {Key(k) : k \in Handled'} = {Key(k) : k \in Handled \cup ({e.i} \cap Due)}
<1>1. /\ e.i \in 1 .. Size /\ e.d \in Dbop /\ ~e.d.unread
      /\ engine = "btree" => ~e.d.done
      /\ Place \in 0 .. Size
      /\ Hit(e.i) /\ e.i > Place
      /\ \A k \in Place + 1 .. e.i - 1 : Hit(k) => Same(k)
      /\ e.d.cursor = e.i /\ e.d.last = e.i
      /\ mode = "key" => e.d.prev = Key(e.i)
      /\ e.d.done => mode = "tag" /\ \A k \in e.i + 1 .. Size : ~Hit(k)
  BY ReadFinds DEF Hit
<1>2. Size \in Nat /\ Place \in Nat /\ e.i \in Nat
  BY <1>1, KeysAre DEF QueryOK
<1>3. /\ QueryOK' /\ Due' = Due /\ Size' = Size
      /\ \A k : Key(k)' = Key(k)
  BY QueryKept
<1>4. /\ RangeOK' /\ \A k : (Hit(k)' <=> Hit(k)) /\ (InRange(k)' <=> InRange(k))
      /\ Second' = Second
  BY PassKept
<1>5. DbopOK'
  <2>1. d' \in Dbop'
    BY <1>1, <1>3 DEF Dbop
  <2>2. prefix' \in BOOLEAN /\ (engine' = "btree" => ~d'.done)
    BY <1>1 DEF DbopOK, query
  <2>3. InRange(e.i) /\ e.i \in 1 .. e.i
    BY <1>1, <1>2 DEF Hit
  <2>4. d'.cursor = e.i /\ ~d'.unread /\ (d'.done => mode = "tag" /\ \A k \in e.i + 1 .. Size : ~Hit(k))
    BY <1>1
  <2>5. mode' = mode /\ (mode = "key" => d'.prev = Key(e.i))
    BY <1>1 DEF query
  <2>6. Between'
    BY <1>1, <1>3, <1>4, <2>3, <2>4, <2>5 DEF Between
  <2> QED BY <2>1, <2>2, <2>6 DEF DbopOK
<1>6. Place' = e.i
  BY <1>1 DEF Place
<1>7. \A k : k \in Handled' <=> k \in Due /\ ((Second /\ Key(k) \in Upper) \/ (InRange(k) /\ k <= e.i))
  BY <1>3, <1>4, <1>6 DEF Handled
<1>8. \A k : k \in Handled <=> k \in Due /\ ((Second /\ Key(k) \in Upper) \/ (InRange(k) /\ k <= Place))
  BY DEF Handled
<1>9. InRange(e.i) /\ \A k \in Due : k \in 1 .. Size
  BY <1>1 DEF Hit, Due
<1>10. Handled \subseteq Handled' /\ {e.i} \cap Due \subseteq Handled'
  BY <1>1, <1>2, <1>7, <1>8, <1>9
<1>11. ASSUME NEW k \in Handled', k \notin Handled, k # e.i
       PROVE  Same(k) /\ k \in Due
  <2>1. k \in Due /\ InRange(k) /\ k \in Place + 1 .. e.i - 1 /\ k \in 1 .. Size
    BY <1>2, <1>7, <1>8, <1>9, <1>11
  <2>2. Hit(k)
    BY <2>1, DueIsHit
  <2> QED BY <1>1, <2>1, <2>2
<1>12. mode # "key" => Handled' = Handled \cup ({e.i} \cap Due)
  <2>1. mode # "key" => \A k : ~Same(k)
    BY DEF Same, SameKey
  <2> QED BY <1>7, <1>10, <1>11, <2>1
<1>13. \A k \in Handled' : \E j \in Handled \cup ({e.i} \cap Due) : Key(k) = Key(j)
  <2> TAKE k \in Handled'
  <2>1. k \in Due
    BY <1>7
  <2> QED BY <1>11, <2>1, SameHandled
<1> QED BY <1>3, <1>4, <1>5, <1>10, <1>12, <1>13

(* The record is put back; the step stays before it. *)
LEMMA StaysBefore ==
    ASSUME QueryOK, RangeOK, DbopOK, pc \in {"first", "next"}, NEW e, e = Read, e.i # 0,
           mode = "tag", UNCHANGED <<query, range, prefix>>, pc' \in {"next", "reading"},
           d' = DbopUnread(e.d)
    PROVE  QueryOK' /\ RangeOK' /\ DbopOK' /\ Handled' = Handled /\ d'.unread
<1>1. /\ e.i \in 1 .. Size /\ e.d \in Dbop
      /\ engine = "btree" => ~e.d.done
      /\ Place \in 0 .. Size
      /\ Hit(e.i) /\ e.i > Place
      /\ \A k \in Place + 1 .. e.i - 1 : Hit(k) => Same(k)
      /\ e.d.cursor = e.i /\ e.d.last = e.i
      /\ e.d.done => mode = "tag" /\ \A k \in e.i + 1 .. Size : ~Hit(k)
  BY ReadFinds DEF Hit
<1>2. Size \in Nat /\ Place \in Nat /\ e.i \in Nat
  BY <1>1, KeysAre DEF QueryOK
<1>3. /\ QueryOK' /\ Due' = Due /\ Size' = Size
      /\ \A k : Key(k)' = Key(k)
  BY QueryKept
<1>4. /\ RangeOK' /\ \A k : (Hit(k)' <=> Hit(k)) /\ (InRange(k)' <=> InRange(k))
      /\ Second' = Second
  BY PassKept
<1>5. /\ d' \in Dbop /\ d'.unread /\ d'.cursor = e.i /\ d'.last = e.i /\ d'.done = e.d.done
  <2>1. d' = [e.d EXCEPT !.unread = TRUE]
    BY DEF DbopUnread
  <2> QED BY <1>1, <2>1 DEF Dbop
<1>6. DbopOK'
  <2>1. d' \in Dbop'
    BY <1>3, <1>5 DEF Dbop
  <2>2. prefix' \in BOOLEAN /\ (engine' = "btree" => ~d'.done)
    BY <1>1, <1>5 DEF DbopOK, query
  <2>3. InRange(e.i) /\ e.i \in 1 .. e.i
    BY <1>1, <1>2 DEF Hit
  <2>4. mode' = mode /\ mode = "tag"
    BY DEF query
  <2>5. Between'
    BY <1>1, <1>3, <1>4, <1>5, <2>3, <2>4 DEF Between
  <2> QED BY <2>1, <2>2, <2>5, <1>5 DEF DbopOK
<1>7. Place' = e.i - 1
  BY <1>5 DEF Place
<1>8. \A k \in Due : InRange(k) /\ k <= e.i - 1 => k <= Place
  <2> TAKE k \in Due
  <2>1. k \in 1 .. Size /\ ~Same(k)
    BY DEF Due, Same, SameKey
  <2>2. InRange(k) => Hit(k)
    BY <2>1, DueIsHit
  <2> QED BY <1>1, <1>2, <2>1, <2>2
<1>9. \A k \in Due : k \in 1 .. Size
  BY DEF Due
<1>10. Handled' = Handled
  BY <1>1, <1>2, <1>3, <1>4, <1>7, <1>8, <1>9 DEF Handled
<1> QED BY <1>3, <1>4, <1>5, <1>6, <1>10
-----------------------------------------------------------------------------
(* At the end of a pass, all that is due in its range is handled. *)
LEMMA PassEnds ==
    ASSUME QueryOK, RangeOK, DbopOK, pc \in {"first", "next"}, NEW e, e = Read, e.i = 0
    PROVE  /\ mode # "key" => \A k \in Due : InRange(k) => k \in Handled
           /\ \A k \in Due : InRange(k) => \E j \in Handled : Key(j) = Key(k)
<1>1. /\ Place \in 0 .. Size /\ Size \in Nat /\ Place \in Nat
      /\ \A k \in Place + 1 .. Size : Hit(k) => Same(k)
  <2>1. Size \in Nat
    BY KeysAre DEF QueryOK
  <2>2. Place \in 0 .. Size /\ \A k \in Place + 1 .. Size : Hit(k) => Same(k)
    BY ReadFinds
  <2> QED BY <2>1, <2>2
<1>2. ASSUME NEW k \in Due, InRange(k) PROVE k \in Handled \/ Same(k)
  <2>1. k \in 1 .. Size
    BY DEF Due
  <2>2. Hit(k)
    BY <1>2, <2>1, DueIsHit
  <2>3. CASE k <= Place
    BY <1>2, <2>3 DEF Handled
  <2>4. CASE k > Place
    BY <1>1, <2>1, <2>2, <2>4
  <2> QED BY <1>1, <2>1, <2>3, <2>4
<1>3. \A k \in Due : InRange(k) => \E j \in Handled : Key(j) = Key(k)
  BY <1>2, SameHandled
<1>4. mode # "key" => \A k : ~Same(k)
  BY DEF Same, SameKey
<1> QED BY <1>2, <1>3, <1>4

(* And at the end of the last pass, all that is due. *)
LEMMA LastPassEnds ==
    ASSUME QueryOK, RangeOK, DbopOK, pc \in {"first", "next"}, NEW e, e = Read, e.i = 0,
           ~(prefix /\ Lower # {})
    PROVE  /\ mode # "key" => Handled = Due
           /\ mode = "key" => {Key(k) : k \in Handled} = {Key(k) : k \in Due}
<1>1. ASSUME NEW k \in Due PROVE InRange(k) \/ k \in Handled
  <2>1. k \in 1 .. Size
    BY DEF Due
  <2>2. InRange(k) \/ (pattern.kind = "icase" /\ Key(k) \in Upper \cup Lower)
    BY <2>1, DueIsHit
  <2>3. pattern.kind = "icase" => (range = Upper /\ Lower = {}) \/ (range = Lower /\ Second)
    BY DEF RangeOK, Second
  <2> QED BY <2>2, <2>3 DEF InRange, Handled, Key
<1>2. Handled \subseteq Due
  BY DEF Handled
<1>3. \A k \in Due : \E j \in Handled : Key(j) = Key(k)
  BY <1>1, PassEnds
<1>4. mode # "key" => \A k \in Due : k \in Handled
  BY <1>1, PassEnds
<1> QED BY <1>2, <1>3, <1>4

(* The second pass begins with all of the first handled. *)
LEMMA SecondBegins ==
    ASSUME QueryOK, RangeOK, DbopOK, pc \in {"first", "next"}, NEW e, e = Read, e.i = 0,
           prefix, Lower # {}, UNCHANGED query, range' = Lower, prefix' = FALSE,
           d' = e.d, pc' = "first"
    PROVE  /\ QueryOK' /\ RangeOK' /\ DbopOK'
           /\ mode # "key" => Handled' = Handled
           /\ mode = "key" => {Key(k) : k \in Handled'} = {Key(k) : k \in Handled}
<1>1. /\ QueryOK' /\ Due' = Due /\ Size' = Size /\ \A k : Key(k)' = Key(k)
  BY QueryKept
<1>2. pattern.kind = "icase" /\ range = Upper /\ ~Second
  BY DEF RangeOK, Second
<1>3. RangeOK' /\ Second' /\ Place' = 0
  BY <1>2 DEF RangeOK, Second, Place, query
<1>4. e.d \in Dbop /\ ~e.d.unread /\ (engine = "btree" => ~e.d.done)
  BY ReadFinds
<1>5. DbopOK'
  BY <1>1, <1>4 DEF DbopOK, Dbop, query
<1>6. \A k \in Due : k \in 1 .. Size /\ ~(k <= 0)
  BY <1>1 DEF Due
<1>7. \A k : k \in Handled' <=> k \in Due /\ Key(k) \in Upper
  BY <1>1, <1>3, <1>6 DEF Handled
<1>8. \A k \in Handled : k \in Handled'
  BY <1>2, <1>7 DEF Handled, InRange, Key
<1>9. mode # "key" => \A k \in Handled' : k \in Handled
  BY <1>2, <1>7, PassEnds DEF InRange, Key
<1>10. \A k \in Handled' : \E j \in Handled : Key(j) = Key(k)
  BY <1>2, <1>7, PassEnds DEF InRange, Key
<1> QED BY <1>1, <1>3, <1>5, <1>8, <1>9, <1>10

(* The last segment of a pass leaves the cursor behind all of it. *)
LEMMA StaysAtEnd ==
    ASSUME QueryOK, RangeOK, DbopOK, pc = "next", NEW e, e = Read, e.i = 0, mode = "tag",
           UNCHANGED <<query, range, prefix>>, d' = e.d, pc' = "reading"
    PROVE  QueryOK' /\ RangeOK' /\ DbopOK' /\ Handled' = Handled
<1>1. /\ e.d \in Dbop /\ ~e.d.unread /\ (engine = "btree" => ~e.d.done)
      /\ Place \in 0 .. Size /\ ~d.unread
      /\ \A k \in Place + 1 .. Size : Hit(k) => Same(k)
      /\ e.d.cursor \in Place .. Size
  BY ReadFinds
<1>2. Size \in Nat /\ Place \in Nat /\ e.d.cursor \in Nat /\ Place = d.cursor
  <2>1. Size \in Nat
    BY KeysAre DEF QueryOK
  <2> QED BY <1>1, <2>1 DEF Place
<1>3. /\ QueryOK' /\ Due' = Due /\ Size' = Size /\ \A k : Key(k)' = Key(k)
  BY QueryKept
<1>4. /\ RangeOK' /\ \A k : (Hit(k)' <=> Hit(k)) /\ (InRange(k)' <=> InRange(k))
      /\ Second' = Second
  BY PassKept
<1>5. \A k \in Place + 1 .. Size : ~Hit(k)
  BY <1>1 DEF Same, SameKey
<1>6. DbopOK'
  <2>1. d' \in Dbop' /\ ~d'.unread
    BY <1>1, <1>3 DEF Dbop
  <2>2. prefix' \in BOOLEAN /\ (engine' = "btree" => ~d'.done)
    BY <1>1 DEF DbopOK, query
  <2>3. PICK i \in 1 .. d.cursor : InRange(i)
    BY DEF DbopOK, Between
  <2>4. i \in 1 .. d'.cursor
    BY <1>1, <1>2, <2>3
  <2>5. \A k \in d'.cursor + 1 .. Size : ~Hit(k)
    BY <1>1, <1>2, <1>5
  <2>6. mode' = mode
    BY DEF query
  <2>7. Between'
    BY <1>3, <1>4, <2>1, <2>3, <2>4, <2>5, <2>6 DEF Between
  <2> QED BY <2>1, <2>2, <2>7 DEF DbopOK
<1>7. Place' = e.d.cursor
  BY <1>1 DEF Place
<1>8. \A k \in Due : InRange(k) /\ k <= e.d.cursor => k <= Place
  <2> TAKE k \in Due
  <2>1. k \in 1 .. Size
    BY DEF Due
  <2>2. InRange(k) => Hit(k)
    BY <2>1, DueIsHit
  <2> QED BY <1>1, <1>2, <1>5, <2>1, <2>2
<1>9. \A k \in Due : k \in 1 .. Size
  BY DEF Due
<1>10. Handled' = Handled
  BY <1>1, <1>2, <1>3, <1>4, <1>7, <1>8, <1>9 DEF Handled
<1> QED BY <1>3, <1>4, <1>6, <1>10

LEMMA AnswerIsDue ==
    ASSUME mode \in {"tag", "key", "path"}
    PROVE  /\ mode = "tag" => Answer = {Rec(k) : k \in Due}
           /\ mode = "key" => Answer = {[key |-> Key(k)] : k \in Due}
           /\ mode = "path" => Answer = {[fid |-> Rec(k).fid] : k \in Due}
<1>1. Asked = {Rec(k) : k \in Due}
  BY DEF Asked, Due, Key
<1> QED BY <1>1 DEF Answer, Key

LEMMA DueRecords ==
    ASSUME QueryOK, NEW k \in Due
    PROVE  /\ k \in 1 .. Size /\ Rec(k) \in TagRecord
           /\ Key(k) \in Name /\ Rec(k).fid \in Fid
           /\ Rec(k).key = Key(k)
<1>1. k \in 1 .. Size /\ Rec(k) \in TagRecord
  BY DEF Due, QueryOK, FileOK
<1> QED BY <1>1 DEF TagRecord, Key
-----------------------------------------------------------------------------
(* The array is sorted: the numbers of paths before a path are those from  *)
(* 0 on, each once.                                                        *)
LEMMA SortedIs ==
    ASSUME NEW S, IsFiniteSet(S), \A r \in S : r.fid \in Fid,
           \A q, r \in S : q.fid = r.fid => q = r
    PROVE  /\ Sorted(S) \in Seq(S) /\ Range(Sorted(S)) = S
           /\ \A i, j \in 1 .. Len(Sorted(S)) : i < j =>
                 Rank[Sorted(S)[i].fid] < Rank[Sorted(S)[j].fid]
<1> DEFINE n == Cardinality(S)
           D == 1 .. n
           rk(r) == Rank[r.fid]
           below(r) == {q \in S : rk(q) < rk(r)}
           place == [r \in S |-> Cardinality(below(r)) + 1]
<1>1. n \in Nat /\ IsFiniteSet(D) /\ Cardinality(D) = n
  BY FS_CardinalityType, FS_Interval
<1>2. /\ \A r \in S : rk(r) \in Nat
      /\ \A q, r \in S : rk(q) = rk(r) => q = r
  BY ReaderAssumption
<1> HIDE DEF rk
<1>3. \A r \in S : IsFiniteSet(below(r)) /\ Cardinality(below(r)) \in Nat
  BY FS_Subset, FS_CardinalityType
<1>4. ASSUME NEW r \in S PROVE place[r] \in D
  <2>1. below(r) \in SUBSET S /\ r \notin below(r)
    BY <1>2
  <2>2. Cardinality(below(r)) <= n /\ Cardinality(below(r)) # n
    BY <2>1, FS_Subset
  <2> HIDE DEF below
  <2> QED BY <1>1, <1>3, <2>2
<1>5. ASSUME NEW q \in S, NEW r \in S, rk(q) < rk(r) PROVE place[q] < place[r]
  <2>1. below(q) \in SUBSET below(r) /\ q \in below(r) /\ q \notin below(q)
    BY <1>2, <1>5
  <2>2. Cardinality(below(q)) <= Cardinality(below(r)) /\ Cardinality(below(q)) # Cardinality(below(r))
    BY <1>3, <2>1, FS_Subset
  <2> HIDE DEF below
  <2> QED BY <1>3, <2>2
<1>6. \A q \in S : \A r \in S : place[q] = place[r] => q = r
  <2> TAKE q \in S
  <2> TAKE r \in S
  <2>1. q = r \/ rk(q) < rk(r) \/ rk(r) < rk(q)
    BY <1>2
  <2>2. place[q] \in Nat /\ place[r] \in Nat
    BY <1>1, <1>4
  <2> HIDE DEF place
  <2> QED BY <1>5, <2>1, <2>2
<1>7. place \in Injection(S, D)
  BY <1>4, <1>6 DEF Injection, IsInjective
<1>8. place \in Surjection(S, D)
  BY <1>1, <1>7, FS_Injection
<1> DEFINE at(k) == CHOOSE r \in S : Cardinality(below(r)) = k - 1
           s == [k \in D |-> at(k)]
<1>9. Sorted(S) = s
  BY DEF Sorted, rk
<1>10. ASSUME NEW k \in D PROVE at(k) \in S /\ place[at(k)] = k
  <2>1. PICK r \in S : place[r] = k
    BY <1>8 DEF Surjection
  <2>2. Cardinality(below(r)) = k - 1
    <3>1. Cardinality(below(r)) \in Nat /\ Cardinality(below(r)) + 1 = k /\ k \in Nat
      BY <1>1, <1>3, <2>1
    <3> HIDE DEF below
    <3> QED BY <3>1
  <2>3. at(k) \in S /\ Cardinality(below(at(k))) = k - 1
    BY <2>2
  <2> HIDE DEF at, below
  <2>4. place[at(k)] = (k - 1) + 1
    BY <2>3
  <2> QED BY <1>1, <2>3, <2>4
<1>11. s \in Seq(S) /\ Len(s) = n /\ DOMAIN s = D
  <2>1. n \in Nat /\ s \in [1 .. n -> S]
    BY <1>1, <1>10
  <2> HIDE DEF s, n
  <2> QED BY <2>1
<1>12. \A k \in D : s[k] = at(k)
  OBVIOUS
<1> HIDE DEF at, s, place, below
<1>13. \A r \in S : at(place[r]) = r
  BY <1>4, <1>6, <1>10
<1>14. Range(s) = S
  BY <1>4, <1>10, <1>11, <1>12, <1>13 DEF Range
<1>15. ASSUME NEW i \in D, NEW j \in D, i < j PROVE rk(s[i]) < rk(s[j])
  <2>1. at(i) \in S /\ at(j) \in S /\ place[at(i)] = i /\ place[at(j)] = j
    BY <1>10
  <2>2. at(i) # at(j)
    BY <1>1, <1>15, <2>1
  <2>3. rk(at(i)) < rk(at(j)) \/ rk(at(j)) < rk(at(i))
    BY <1>2, <2>1, <2>2
  <2>4. rk(at(j)) < rk(at(i)) => j < i
    BY <1>5, <2>1
  <2> QED BY <1>1, <1>12, <1>15, <2>3, <2>4
<1> QED BY <1>9, <1>11, <1>14, <1>15 DEF rk

LEMMA Joined ==
    ASSUME NEW T, NEW x \in Seq(T), NEW y \in Seq(T)
    PROVE  /\ x \o y \in Seq(T) /\ Len(x \o y) = Len(x) + Len(y)
           /\ \A i \in 1 .. Len(x) : (x \o y)[i] = x[i]
           /\ \A i \in 1 .. Len(y) : (x \o y)[Len(x) + i] = y[i]
           /\ Range(x \o y) = Range(x) \cup Range(y)
<1>1. /\ x \o y \in Seq(T) /\ Len(x \o y) = Len(x) + Len(y) /\ Len(x) \in Nat /\ Len(y) \in Nat
      /\ DOMAIN x = 1 .. Len(x) /\ DOMAIN y = 1 .. Len(y) /\ DOMAIN (x \o y) = 1 .. Len(x) + Len(y)
      /\ \A i \in 1 .. Len(x) + Len(y) : (x \o y)[i] = IF i <= Len(x) THEN x[i] ELSE y[i - Len(x)]
  OBVIOUS
<1> DEFINE z == x \o y
<1> HIDE DEF z
<1>2. \A i \in 1 .. Len(x) : z[i] = x[i] /\ i \in 1 .. Len(x) + Len(y)
  BY <1>1 DEF z
<1>3. \A i \in 1 .. Len(y) : z[Len(x) + i] = y[i] /\ Len(x) + i \in 1 .. Len(x) + Len(y)
  <2> TAKE i \in 1 .. Len(y)
  <2>1. Len(x) + i \in 1 .. Len(x) + Len(y) /\ ~(Len(x) + i <= Len(x)) /\ (Len(x) + i) - Len(x) = i
    BY <1>1
  <2> QED BY <1>1, <2>1 DEF z
<1>4. \A i \in 1 .. Len(x) + Len(y) : \/ i \in 1 .. Len(x) /\ z[i] = x[i]
                                      \/ i - Len(x) \in 1 .. Len(y) /\ z[i] = y[i - Len(x)]
  BY <1>1 DEF z
<1>5. DOMAIN z = 1 .. Len(x) + Len(y)
  BY <1>1 DEF z
<1>6. Range(z) = Range(x) \cup Range(y)
  <2>1. \A e \in Range(z) : e \in Range(x) \cup Range(y)
    BY <1>1, <1>4, <1>5 DEF Range
  <2>2. Range(x) \subseteq Range(z)
    BY <1>1, <1>2, <1>5 DEF Range
  <2>3. Range(y) \subseteq Range(z)
    BY <1>1, <1>3, <1>5 DEF Range
  <2> QED BY <2>1, <2>2, <2>3
<1> QED BY <1>1, <1>2, <1>3, <1>6 DEF z

(* The first entry of an array goes from the array to the caller. *)
LEMMA Passed ==
    ASSUME NEW T, NEW x \in Seq(T), NEW y \in Seq(T), y # <<>>
    PROVE  /\ Append(x, Head(y)) \in Seq(T) /\ Tail(y) \in Seq(T)
           /\ Append(x, Head(y)) \o Tail(y) = x \o y
<1>1. /\ Head(y) \in T /\ Tail(y) \in Seq(T) /\ Append(x, Head(y)) \in Seq(T)
      /\ Len(y) \in Nat /\ Len(y) >= 1 /\ Len(Tail(y)) = Len(y) - 1 /\ Len(x) \in Nat
      /\ Len(Append(x, Head(y))) = Len(x) + 1
  OBVIOUS
<1> DEFINE u == Append(x, Head(y)) \o Tail(y)
           v == x \o y
<1>2. u \in Seq(T) /\ v \in Seq(T) /\ Len(u) = Len(x) + Len(y) /\ Len(v) = Len(x) + Len(y)
  BY <1>1
<1>3. \A i \in 1 .. Len(x) + Len(y) : u[i] = v[i]
  OBVIOUS
<1> HIDE DEF u, v
<1>4. u = v
  BY <1>2, <1>3
<1> QED BY <1>1, <1>4 DEF u, v
-----------------------------------------------------------------------------
(* What a step does to the rest of the invariant *)
LEMMA ModeKept ==
    ASSUME UNCHANGED query
    PROVE  /\ mode' = mode /\ Items' = Items /\ EndsEarly' = EndsEarly
           /\ \A q, r : Ordered(q, r)' <=> Ordered(q, r)
BY DEF query, Items, EndsEarly, Ordered

(* The record that was found is one that was not handled. *)
LEMMA FoundIsNew ==
    ASSUME QueryOK, RangeOK, DbopOK, pc \in {"first", "next"}, NEW e, e = Read, e.i # 0
    PROVE  /\ e.i \in 1 .. Size /\ e.i \notin Handled
           /\ Wanted(Rec(e.i).key) <=> e.i \in Due
           /\ mode = "tag" => \A k \in Due \ Handled : Key(e.i) <= Key(k)
           /\ mode = "key" => \A j \in Handled : e.i \in Due => Key(j) < Key(e.i)
<1>1. /\ Hit(e.i) /\ ~Same(e.i) /\ e.i > Place /\ Place \in 0 .. Size
      /\ \A k \in Place + 1 .. e.i - 1 : Hit(k) => Same(k)
      /\ e.i \in 1 .. Size /\ InRange(e.i)
  BY ReadFinds DEF Hit
<1>2. /\ Size \in Nat /\ Place \in Nat /\ e.i \in Nat
      /\ \A k \in 1 .. Size : Key(k) \in Nat
      /\ \A i, j \in 1 .. Size : i <= j => Key(i) <= Key(j)
  BY <1>1, KeysAre DEF QueryOK
<1>3. Second => range = Lower
  BY DEF Second, RangeOK
<1>4. ~(Second /\ Key(e.i) \in Upper)
  BY <1>1, <1>3, UpperLower DEF InRange, Key
<1>5. e.i \notin Handled
  BY <1>1, <1>2, <1>4 DEF Handled
<1>6. Wanted(Rec(e.i).key) <=> e.i \in Due
  BY <1>1, DueIsHit DEF Key
<1>7. ASSUME mode = "tag", NEW k \in Due \ Handled PROVE Key(e.i) <= Key(k)
  <2>1. k \in 1 .. Size /\ ~Same(k)
    BY <1>7 DEF Due, Same, SameKey
  <2>2. CASE InRange(k)
    <3>1. Hit(k) /\ ~(k <= Place)
      BY <1>7, <2>1, <2>2, DueIsHit DEF Handled
    <3> QED BY <1>1, <1>2, <2>1, <3>1
  <2>3. CASE ~InRange(k)
    <3>1. pattern.kind = "icase" /\ Key(k) \in Upper \cup Lower
      BY <2>1, <2>3, DueIsHit
    <3>2. range = Upper \/ (range = Lower /\ Second)
      BY <3>1 DEF RangeOK, Second
    <3>3. Key(e.i) \in Upper /\ Key(k) \in Lower
      BY <1>1, <1>7, <2>3, <3>1, <3>2 DEF InRange, Key, Handled
    <3> QED BY <1>1, <1>2, <2>1, <3>3, UpperLower
  <2> QED BY <2>2, <2>3
<1>8. ASSUME mode = "key", NEW j \in Handled, e.i \in Due PROVE Key(j) < Key(e.i)
  <2>1. Key(j) <= Key(e.i)
    BY <1>2, <1>5, <1>8, HandledComesFirst
  <2>2. j \in 1 .. Size /\ j \in Due
    BY DEF Handled, Due
  <2>3. SUFFICES ASSUME Key(j) = Key(e.i) PROVE FALSE
    BY <1>1, <1>2, <2>1, <2>2
  <2>4. ~(Second /\ Key(j) \in Upper)
    BY <1>4, <2>3
  <2>5. InRange(j) /\ j <= Place
    BY <2>4 DEF Handled
  <2>6. pc = "next"
    BY <1>2, <2>2, <2>5 DEF Place
  <2>7. Hit(d.cursor) /\ d.prev = Key(d.cursor) /\ ~d.unread
    BY <1>8, <2>6 DEF DbopOK, Between
  <2>8. Place = d.cursor /\ d.cursor \in 1 .. Size
    BY <2>6, <2>7 DEF Place, Hit
  <2>9. Key(j) <= Key(d.cursor) /\ Key(d.cursor) <= Key(e.i)
    BY <1>1, <1>2, <2>2, <2>5, <2>8
  <2>10. Key(d.cursor) = Key(e.i)
    BY <1>1, <1>2, <2>2, <2>3, <2>8, <2>9
  <2> QED BY <1>1, <1>8, <2>6, <2>7, <2>10 DEF Same, SameKey, Key
<1> QED BY <1>1, <1>5, <1>6, <1>7, <1>8

(* At the end of a pass, what is handled comes before what is not. *)
LEMMA EndSeparates ==
    ASSUME QueryOK, RangeOK, DbopOK, pc \in {"first", "next"}, NEW e, e = Read, e.i = 0,
           mode = "tag", NEW j \in Handled, NEW k \in Due \ Handled
    PROVE  Key(j) < Key(k)
<1>1. k \in 1 .. Size /\ ~InRange(k)
  BY PassEnds DEF Due
<1>2. pattern.kind = "icase" /\ Key(k) \in Upper \cup Lower
  BY <1>1, DueIsHit
<1>3. (range = Upper /\ ~Second) \/ (range = Lower /\ Second)
  BY <1>2 DEF RangeOK, Second
<1>4. range = Upper /\ ~Second /\ Key(k) \in Lower
  BY <1>1, <1>2, <1>3 DEF InRange, Key, Handled
<1>5. Key(j) \in Upper
  BY <1>4 DEF Handled, InRange, Key
<1> QED BY <1>4, <1>5, UpperLower

LEMMA StillThere ==
    ASSUME QueryOK, RangeOK, DbopOK, UNCHANGED <<query, range, prefix, d, pc>>
    PROVE  QueryOK' /\ RangeOK' /\ DbopOK' /\ Handled' = Handled
<1>1. QueryOK' /\ Due' = Due /\ Size' = Size /\ \A k : Key(k)' = Key(k)
  BY QueryKept
<1>2. RangeOK'
  BY DEF RangeOK, query
<1>3. /\ \A k : InRange(k)' <=> InRange(k)
      /\ \A k : Hit(k)' <=> Hit(k)
      /\ Second' = Second /\ Place' = Place
  BY <1>1 DEF InRange, Hit, Matches, Key, Rec, Second, Place, query
<1>4. Handled' = Handled
  BY <1>1, <1>3 DEF Handled
<1>5. DbopOK'
  BY <1>1, <1>3 DEF DbopOK, Dbop, Between, query
<1> QED BY <1>1, <1>2, <1>4, <1>5
-----------------------------------------------------------------------------
LEMMA EmptyGot == out = <<>> /\ seg = <<>> => Got = <<>> /\ Range(Got) = {} /\ Len(Got) = 0
BY DEF Got, Range

LEMMA InitHolds == Init => ReaderInv
<1> SUFFICES ASSUME Init PROVE ReaderInv
  OBVIOUS
<1>1. PICK s \in Contents : file = <<[key |-> Meta, fid |-> 0]>> \o s
  BY DEF Init
<1>2. PICK n \in 0 .. MaxRec : s \in [1 .. n -> TagRecord]
  BY <1>1 DEF Contents
<1>3. n \in Nat /\ DOMAIN s = 1 .. n /\ \A i, j \in 1 .. n : i < j => Follows(s[j], s[i])
  <2>1. MaxRec \in Nat
    BY ReaderAssumption
  <2>2. n \in Nat /\ DOMAIN s = 1 .. n
    BY <1>2, <2>1
  <2>3. \A i, j \in DOMAIN s : i < j => Follows(s[j], s[i])
    BY <1>1 DEF Contents
  <2> QED BY <2>2, <2>3
<1> DEFINE R == [key : Name \cup {Meta}, fid : Fid \cup {0}]
           m == [key |-> Meta, fid |-> 0]
<1>4. m \in R /\ TagRecord \subseteq R /\ m.key = Meta
  BY DEF TagRecord
<1>5. /\ file \in Seq(R) /\ Size = n + 1 /\ Rec(1) = m
      /\ \A i \in 2 .. Size : Rec(i) = s[i - 1] /\ i - 1 \in 1 .. n
  <2> HIDE DEF R, m
  <2>1. s \in [1 .. n -> R]
    BY <1>2, <1>4
  <2>2. s \in Seq(R) /\ Len(s) = n
    BY <1>3, <2>1
  <2>3. <<m>> \in Seq(R) /\ Len(<<m>>) = 1 /\ <<m>>[1] = m
    BY <1>4
  <2>4. file = <<m>> \o s
    BY <1>1 DEF m
  <2>5. file \in Seq(R) /\ Len(file) = n + 1
    BY <1>3, <2>2, <2>3, <2>4
  <2>6. file[1] = m
    BY <1>3, <2>2, <2>3, <2>4
  <2>7. \A i \in 2 .. n + 1 : file[i] = s[i - 1] /\ i - 1 \in 1 .. n
    BY <1>3, <2>2, <2>3, <2>4
  <2> QED BY <2>5, <2>6, <2>7 DEF Size, Rec
<1>6. FileOK
  <2>1. \A i \in 1 .. Size : i = 1 \/ i \in 2 .. Size
    BY <1>3, <1>5
  <2>2. \A r \in TagRecord : r.key \in Nat /\ Meta < r.key /\ r.key # Meta
    <3>1. \A r \in TagRecord : r.key \in Name
      BY DEF TagRecord
    <3>2. \A k \in Name : k \in Nat /\ k # 0
      BY ReaderAssumption DEF Meta
    <3>3. \A k \in Name : k \in Nat /\ 0 < k /\ k # 0
      BY <3>2
    <3> HIDE DEF TagRecord
    <3> QED BY <3>1, <3>3 DEF Meta
  <2>3. \A i \in 2 .. Size : Rec(i) \in TagRecord
    BY <1>2, <1>5
  <2>4. \A i \in 1 .. Size : Key(i) # Meta => Rec(i) \in TagRecord
    BY <1>4, <1>5, <2>1, <2>3 DEF Key
  <2>5. ASSUME NEW i \in 1 .. Size, NEW j \in 1 .. Size, i < j PROVE Follows(Rec(j), Rec(i))
    <3>1. j \in 2 .. Size
      BY <1>3, <1>5, <2>5
    <3>2. CASE i = 1
      BY <1>4, <1>5, <2>2, <2>3, <3>1, <3>2 DEF Follows
    <3>3. CASE i \in 2 .. Size
      <4>1. Rec(i) = s[i - 1] /\ Rec(j) = s[j - 1] /\ i - 1 \in 1 .. n /\ j - 1 \in 1 .. n
        BY <1>5, <3>1, <3>3
      <4>2. i - 1 < j - 1
        BY <1>3, <1>5, <2>5
      <4> QED BY <1>3, <4>1, <4>2
    <3> QED BY <2>1, <3>2, <3>3
  <2> QED BY <1>5, <2>4, <2>5 DEF FileOK
<1>7. /\ pattern \in Patterns /\ engine \in {"btree", "sqlite"}
      /\ db \in {"GTAGS", "GRTAGS", "GSYMS"} /\ mode \in {"tag", "key", "path"}
      /\ ~IcaseRefs => ~EndsEarly
      /\ range = {} /\ prefix = FALSE /\ pool = {} /\ seg = <<>> /\ out = <<>> /\ pc = "open"
      /\ d = [cursor |-> 0, last |-> 0, unread |-> FALSE, prev |-> Meta, done |-> FALSE]
  BY DEF Init, EndsEarly
<1>8. QueryOK /\ RangeOK
  BY <1>6, <1>7 DEF QueryOK, RangeOK
<1>9. DbopOK
  <2>1. 0 \in 0 .. Size
    BY <1>3, <1>5
  <2> QED BY <1>7, <2>1 DEF DbopOK, Dbop
<1>10. Handled = {}
  <2>1. \A k \in Due : ~(k <= 0)
    BY DEF Due
  <2> QED BY <1>7, <2>1 DEF Handled, Place, Second
<1>11. Got = <<>> /\ Range(Got) = {} /\ Len(Got) = 0
  BY <1>7, EmptyGot
<1>12. Stages /\ Gathered /\ FirstOK
  BY <1>7, <1>10, <1>11, FS_EmptySet DEF Stages, Gathered, FirstOK
<1>13. OrderOK
  BY <1>7, <1>11 DEF OrderOK
<1> QED BY <1>8, <1>9, <1>12, <1>13 DEF ReaderInv

LEMMA GtagsFirstStep == ReaderInv /\ GtagsFirst => ReaderInv'
<1> SUFFICES ASSUME ReaderInv, GtagsFirst PROVE ReaderInv'
  OBVIOUS
<1>1. /\ QueryOK' /\ Due' = Due /\ Size' = Size /\ \A k : Key(k)' = Key(k) /\ Rec(k)' = Rec(k)
      /\ mode' = mode /\ Items' = Items /\ EndsEarly' = EndsEarly
      /\ \A q, r : Ordered(q, r)' <=> Ordered(q, r)
  BY QueryKept, ModeKept DEF GtagsFirst, ReaderInv
<1>2. /\ pc = "open" /\ pc' = "first" /\ UNCHANGED <<query, d, pool, seg, out>>
      /\ prefix' = (pattern.kind = "icase")
  BY DEF GtagsFirst
<1>3. pattern.kind \in {"any", "name", "prefix", "regex", "icase"}
  BY ReaderAssumption DEF ReaderInv, QueryOK
<1>4. RangeOK'
  BY <1>2, <1>3 DEF GtagsFirst, RangeOK, query
<1>5. DbopOK'
  BY <1>1, <1>2 DEF ReaderInv, DbopOK, Dbop, query
<1>6. Handled = {} /\ Handled' = {}
  <2>1. \A k \in Due : ~(k <= 0)
    BY DEF Due
  <2>2. ~Second /\ Place = 0 /\ ~Second' /\ Place' = 0
    BY <1>2 DEF Second, Place, query
  <2> QED BY <1>1, <2>1, <2>2 DEF Handled
<1>7. Got' = Got
  BY <1>2 DEF Got
<1>8. Stages' /\ Gathered' /\ FirstOK'
  <2>1. Stages /\ Gathered
    BY DEF ReaderInv
  <2>2. out = <<>> /\ seg = <<>> /\ pool = {}
    BY <1>2, <2>1 DEF Stages
  <2>3. Got = <<>> /\ Range(Got) = {}
    BY <2>2, EmptyGot
  <2>4. Stages'
    BY <1>1, <1>2, <2>1 DEF Stages
  <2>5. Gathered'
    BY <1>1, <1>2, <1>6, <1>7, <2>2, <2>3 DEF Gathered
  <2> QED BY <1>2, <2>4, <2>5 DEF FirstOK
<1>9. OrderOK'
  BY <1>1, <1>2, <1>6, <1>7 DEF ReaderInv, OrderOK
<1> QED BY <1>1, <1>4, <1>5, <1>8, <1>9 DEF ReaderInv

LEMMA NextOfArrayStep == ReaderInv /\ NextOfArray => ReaderInv'
<1> SUFFICES ASSUME ReaderInv, NextOfArray PROVE ReaderInv'
  OBVIOUS
<1>1. /\ Due' = Due /\ \A k : Key(k)' = Key(k) /\ Rec(k)' = Rec(k)
      /\ mode' = mode /\ Items' = Items /\ EndsEarly' = EndsEarly /\ Answer' = Answer
      /\ \A q, r : Ordered(q, r)' <=> Ordered(q, r)
  BY QueryKept, ModeKept DEF NextOfArray, ReaderInv
<1>2. QueryOK' /\ RangeOK' /\ DbopOK' /\ Handled' = Handled
  BY StillThere DEF NextOfArray, ReaderInv
<1>3. /\ pc = "reading" /\ pc' = "reading" /\ seg # <<>> /\ UNCHANGED pool
      /\ out' = Append(out, Head(seg)) /\ seg' = Tail(seg)
  BY DEF NextOfArray
<1>4. out \in Seq(Items) /\ seg \in Seq(Items) /\ mode # "key"
  BY <1>3 DEF ReaderInv, Stages
<1>5. out' \in Seq(Items) /\ seg' \in Seq(Items) /\ Got' = Got
  BY <1>3, <1>4, Passed DEF Got
<1>6. Stages'
  BY <1>1, <1>3, <1>4, <1>5 DEF ReaderInv, Stages
<1>7. Gathered'
  BY <1>1, <1>2, <1>3, <1>5 DEF ReaderInv, Gathered
<1>8. FirstOK'
  BY <1>3 DEF FirstOK
<1>9. OrderOK'
  BY <1>1, <1>2, <1>3, <1>5 DEF ReaderInv, OrderOK
<1> QED BY <1>2, <1>6, <1>7, <1>8, <1>9 DEF ReaderInv

LEMMA EndOfPathsStep == ReaderInv /\ EndOfPaths => ReaderInv'
<1> SUFFICES ASSUME ReaderInv, EndOfPaths PROVE ReaderInv'
  OBVIOUS
<1>1. /\ QueryOK' /\ Size' = Size
      /\ mode' = mode /\ Items' = Items /\ EndsEarly' = EndsEarly /\ Answer' = Answer
      /\ \A q, r : Ordered(q, r)' <=> Ordered(q, r)
  BY QueryKept, ModeKept DEF EndOfPaths, ReaderInv
<1>2. /\ pc = "reading" /\ pc' = "done" /\ seg = <<>> /\ mode = "path"
      /\ UNCHANGED <<query, range, prefix, d, pool, seg, out>>
  BY DEF EndOfPaths
<1>3. RangeOK' /\ DbopOK'
  BY <1>1, <1>2 DEF ReaderInv, RangeOK, DbopOK, Dbop, query
<1>4. Got' = Got
  BY <1>2 DEF Got
<1>5. Stages' /\ Gathered'
  BY <1>1, <1>2, <1>4 DEF ReaderInv, Stages, Gathered
<1>6. FirstOK' /\ OrderOK'
  BY <1>1, <1>2, <1>4 DEF ReaderInv, FirstOK, OrderOK
<1> QED BY <1>1, <1>3, <1>5, <1>6 DEF ReaderInv

LEMMA GtagsNextStep == ReaderInv /\ GtagsNext => ReaderInv'
<1> SUFFICES ASSUME ReaderInv, GtagsNext PROVE ReaderInv'
  OBVIOUS
<1>1. /\ QueryOK' /\ Due' = Due /\ Size' = Size /\ \A k : Key(k)' = Key(k) /\ Rec(k)' = Rec(k)
      /\ mode' = mode /\ Items' = Items /\ EndsEarly' = EndsEarly
      /\ \A q, r : Ordered(q, r)' <=> Ordered(q, r)
  BY QueryKept, ModeKept DEF GtagsNext, ReaderInv
<1>2. /\ pc = "reading" /\ pc' = "next" /\ seg = <<>> /\ mode # "path" /\ call' = "gtags_next"
      /\ UNCHANGED <<query, range, prefix, d, pool, seg, out>>
  BY DEF GtagsNext
<1>3. RangeOK'
  BY <1>2 DEF ReaderInv, RangeOK, query
<1>4. /\ \A k : InRange(k)' <=> InRange(k)
      /\ \A k : Hit(k)' <=> Hit(k)
      /\ Second' = Second /\ Place' = Place
  BY <1>1, <1>2 DEF InRange, Hit, Matches, Key, Rec, Second, Place, query
<1>5. Handled' = Handled
  BY <1>1, <1>4 DEF Handled
<1>6. DbopOK'
  BY <1>1, <1>2, <1>4 DEF ReaderInv, DbopOK, Dbop, Between, query
<1>7. Got' = Got
  BY <1>2 DEF Got
<1>8. Stages'
  BY <1>1, <1>2 DEF ReaderInv, Stages
<1>9. Gathered'
  BY <1>1, <1>2, <1>5, <1>7 DEF ReaderInv, Gathered
<1>10. FirstOK'
  BY <1>2 DEF FirstOK
<1>11. OrderOK'
  BY <1>1, <1>2, <1>5, <1>7 DEF ReaderInv, OrderOK
<1> QED BY <1>1, <1>3, <1>6, <1>8, <1>9, <1>10, <1>11 DEF ReaderInv
-----------------------------------------------------------------------------
LEMMA Appended ==
    ASSUME NEW T, NEW x \in Seq(T), NEW t \in T
    PROVE  /\ Append(x, t) \in Seq(T) /\ Len(Append(x, t)) = Len(x) + 1
           /\ \A i \in 1 .. Len(x) : Append(x, t)[i] = x[i]
           /\ Append(x, t)[Len(x) + 1] = t
           /\ Range(Append(x, t)) = Range(x) \cup {t}
<1>1. /\ Append(x, t) \in Seq(T) /\ Len(Append(x, t)) = Len(x) + 1 /\ Len(x) \in Nat
      /\ \A i \in 1 .. Len(x) : Append(x, t)[i] = x[i]
      /\ Append(x, t)[Len(x) + 1] = t
      /\ DOMAIN x = 1 .. Len(x) /\ DOMAIN Append(x, t) = 1 .. Len(x) + 1
  OBVIOUS
<1> DEFINE z == Append(x, t)
<1> HIDE DEF z
<1>2. \A i \in 1 .. Len(x) + 1 : i \in 1 .. Len(x) \/ i = Len(x) + 1
  BY <1>1
<1>3. Len(x) + 1 \in 1 .. Len(x) + 1 /\ \A i \in 1 .. Len(x) : i \in 1 .. Len(x) + 1
  BY <1>1
<1>4. Range(z) = Range(x) \cup {t}
  BY <1>1, <1>2, <1>3 DEF Range, z
<1> QED BY <1>1, <1>4 DEF z

LEMMA KeysOnly ==
    ASSUME NEW A, NEW B, {Key(k) : k \in A} = {Key(k) : k \in B}
    PROVE  {[key |-> Key(k)] : k \in A} = {[key |-> Key(k)] : k \in B}
<1>1. \A k \in A : \E j \in B : Key(j) = Key(k)
  OBVIOUS
<1>2. \A k \in B : \E j \in A : Key(j) = Key(k)
  OBVIOUS
<1> HIDE DEF Key
<1> QED BY <1>1, <1>2

LEMMA PassOverStep == ReaderInv /\ pc \in {"first", "next"} /\ PassOver(Read) => ReaderInv'
<1> SUFFICES ASSUME ReaderInv, pc \in {"first", "next"}, PassOver(Read) PROVE ReaderInv'
  OBVIOUS
<1>1. PICK e : e = Read
  OBVIOUS
<1>2. /\ e.i # 0 /\ ~Unfiltered /\ ~Wanted(Rec(e.i).key) /\ d' = e.d /\ pc' = "next"
      /\ UNCHANGED <<query, range, prefix, pool, seg, out, call>>
  BY <1>1 DEF PassOver
<1>3. /\ Due' = Due /\ \A k : Key(k)' = Key(k) /\ Rec(k)' = Rec(k)
      /\ mode' = mode /\ Items' = Items /\ EndsEarly' = EndsEarly /\ Answer' = Answer
      /\ \A q, r : Ordered(q, r)' <=> Ordered(q, r)
  BY <1>2, QueryKept, ModeKept DEF ReaderInv
<1>4. /\ QueryOK' /\ RangeOK' /\ DbopOK'
      /\ mode # "key" => Handled' = Handled \cup ({e.i} \cap Due)
      /\ mode = "key" => {Key(k) : k \in Handled'} = {Key(k) : k \in Handled \cup ({e.i} \cap Due)}
  BY <1>1, <1>2, GoesOn DEF ReaderInv
<1>5. e.i \notin Due
  BY <1>1, <1>2, FoundIsNew DEF ReaderInv
<1>6. mode # "key" => Handled' = Handled
  BY <1>4, <1>5
<1>7. mode = "key" => {[key |-> Key(k)] : k \in Handled'} = {[key |-> Key(k)] : k \in Handled}
  <2>1. Handled \cup ({e.i} \cap Due) = Handled
    BY <1>5
  <2> QED BY <1>4, <2>1, KeysOnly
<1>8. Got' = Got
  BY <1>2 DEF Got
<1>9. Stages'
  BY <1>2, <1>3 DEF ReaderInv, Stages
<1>10. Gathered'
  BY <1>2, <1>3, <1>6, <1>7, <1>8 DEF ReaderInv, Gathered
<1>11. FirstOK'
  BY <1>2, <1>3 DEF FirstOK, Wanted, query
<1>12. OrderOK'
  BY <1>2, <1>3, <1>6, <1>8 DEF ReaderInv, OrderOK
<1> QED BY <1>4, <1>9, <1>10, <1>11, <1>12 DEF ReaderInv

LEMMA BeginSegmentStep ==
    ReaderInv /\ pc \in {"first", "next"} /\ BeginSegment(Read) => ReaderInv'
<1> SUFFICES ASSUME ReaderInv, pc \in {"first", "next"}, BeginSegment(Read) PROVE ReaderInv'
  OBVIOUS
<1>1. PICK e : e = Read
  OBVIOUS
<1>2. /\ e.i # 0 /\ mode = "tag" /\ pc = "first" /\ d' = DbopUnread(e.d) /\ pc' = "next"
      /\ UNCHANGED <<query, range, prefix, pool, seg, out, call>>
  BY <1>1 DEF BeginSegment, Unfiltered
<1>3. /\ Due' = Due /\ \A k : Key(k)' = Key(k) /\ Rec(k)' = Rec(k)
      /\ mode' = mode /\ Items' = Items /\ EndsEarly' = EndsEarly /\ Answer' = Answer
      /\ \A q, r : Ordered(q, r)' <=> Ordered(q, r)
  BY <1>2, QueryKept, ModeKept DEF ReaderInv
<1>4. QueryOK' /\ RangeOK' /\ DbopOK' /\ Handled' = Handled /\ d'.unread
  BY <1>1, <1>2, StaysBefore DEF ReaderInv
<1>5. Got' = Got
  BY <1>2 DEF Got
<1>6. Stages'
  BY <1>2, <1>3 DEF ReaderInv, Stages
<1>7. Gathered'
  BY <1>2, <1>3, <1>4, <1>5 DEF ReaderInv, Gathered
<1>8. FirstOK'
  BY <1>4 DEF FirstOK
<1>9. OrderOK'
  BY <1>2, <1>3, <1>4, <1>5 DEF ReaderInv, OrderOK
<1> QED BY <1>4, <1>6, <1>7, <1>8, <1>9 DEF ReaderInv

LEMMA ReturnKeyStep == ReaderInv /\ pc \in {"first", "next"} /\ ReturnKey(Read) => ReaderInv'
<1> SUFFICES ASSUME ReaderInv, pc \in {"first", "next"}, ReturnKey(Read) PROVE ReaderInv'
  OBVIOUS
<1>1. PICK e : e = Read
  OBVIOUS
<1>2. /\ e.i # 0 /\ Wanted(Rec(e.i).key) /\ mode = "key" /\ d' = e.d /\ pc' = "reading"
      /\ out' = Append(out, [key |-> Key(e.i)])
      /\ UNCHANGED <<query, range, prefix, pool, seg, call>>
  BY <1>1 DEF ReturnKey, Takes, Key
<1>3. /\ Due' = Due /\ \A k : Key(k)' = Key(k) /\ Rec(k)' = Rec(k)
      /\ mode' = mode /\ Items' = Items /\ EndsEarly' = EndsEarly /\ Answer' = Answer
      /\ \A q, r : Ordered(q, r)' <=> Ordered(q, r)
  BY <1>2, QueryKept, ModeKept DEF ReaderInv
<1>4. /\ QueryOK' /\ RangeOK' /\ DbopOK'
      /\ {Key(k) : k \in Handled'} = {Key(k) : k \in Handled \cup ({e.i} \cap Due)}
  BY <1>1, <1>2, GoesOn DEF ReaderInv
<1>5. e.i \in Due /\ \A j \in Handled : Key(j) < Key(e.i)
  BY <1>1, <1>2, FoundIsNew DEF ReaderInv
<1>6. {[key |-> Key(k)] : k \in Handled'} = {[key |-> Key(k)] : k \in Handled \cup {e.i}}
  <2>1. Handled \cup ({e.i} \cap Due) = Handled \cup {e.i}
    BY <1>5
  <2> QED BY <1>4, <2>1, KeysOnly
<1>7. /\ seg = <<>> /\ pool = {} /\ out \in Seq(Items)
      /\ Range(Got) = {[key |-> Key(k)] : k \in Handled}
      /\ \A i, j \in 1 .. Len(Got) : i < j => Ordered(Got[i], Got[j])
  BY <1>2 DEF ReaderInv, Stages, Gathered, OrderOK
<1> DEFINE t == [key |-> Key(e.i)]
<1>8. t \in Items
  <2>1. Key(e.i) \in Name
    BY <1>5, DueRecords DEF ReaderInv
  <2> QED BY <1>2, <2>1 DEF Items
<1> HIDE DEF t
<1>9. Got = out /\ Got' = Append(out, t) /\ out' = Append(out, t)
  <2>1. out' = Append(out, t) /\ seg' = <<>>
    BY <1>2, <1>7 DEF t
  <2>2. Append(out, t) \in Seq(Items)
    BY <1>7, <1>8, Appended
  <2> QED BY <1>7, <2>1, <2>2 DEF Got
<1>10. /\ out' \in Seq(Items) /\ Len(Got') = Len(Got) + 1 /\ Len(Got) \in Nat
       /\ \A i \in 1 .. Len(Got) : Got'[i] = Got[i]
       /\ Got'[Len(Got) + 1] = t
       /\ Range(Got') = Range(Got) \cup {t}
  BY <1>7, <1>8, <1>9, Appended
<1>11. Stages'
  BY <1>2, <1>3, <1>7, <1>10 DEF ReaderInv, Stages
<1>12. Gathered'
  BY <1>2, <1>3, <1>6, <1>7, <1>10 DEF Gathered, t
<1>13. FirstOK'
  BY <1>2 DEF FirstOK
<1>14. ASSUME NEW i \in 1 .. Len(Got'), NEW j \in 1 .. Len(Got'), i < j
       PROVE  Ordered(Got'[i], Got'[j])
  <2>1. i \in 1 .. Len(Got) /\ (j \in 1 .. Len(Got) \/ j = Len(Got) + 1)
    BY <1>10, <1>14
  <2>2. CASE j \in 1 .. Len(Got)
    BY <1>7, <1>10, <1>14, <2>1, <2>2
  <2>3. CASE j = Len(Got) + 1
    <3>1. Got[i] \in Range(Got)
      BY <1>7, <1>9, <2>1 DEF Range
    <3>2. Got[i].key < Key(e.i)
      BY <1>5, <1>7, <3>1
    <3> QED BY <1>2, <1>10, <2>1, <2>3, <3>2 DEF Ordered, t
  <2> QED BY <2>1, <2>2, <2>3
<1>15. OrderOK'
  BY <1>2, <1>3, <1>14 DEF OrderOK
<1> QED BY <1>4, <1>11, <1>12, <1>13, <1>15 DEF ReaderInv

LEMMA GatherPathStep == ReaderInv /\ pc \in {"first", "next"} /\ GatherPath(Read) => ReaderInv'
<1> SUFFICES ASSUME ReaderInv, pc \in {"first", "next"}, GatherPath(Read) PROVE ReaderInv'
  OBVIOUS
<1>1. PICK e : e = Read
  OBVIOUS
<1>2. /\ e.i # 0 /\ Wanted(Rec(e.i).key) /\ mode = "path" /\ d' = e.d /\ pc' = "next"
      /\ pool' = pool \cup {[fid |-> Rec(e.i).fid]}
      /\ UNCHANGED <<query, range, prefix, seg, out, call>>
  BY <1>1 DEF GatherPath, Takes
<1>3. /\ Due' = Due /\ \A k : Key(k)' = Key(k) /\ Rec(k)' = Rec(k)
      /\ mode' = mode /\ Items' = Items /\ EndsEarly' = EndsEarly /\ Answer' = Answer
      /\ \A q, r : Ordered(q, r)' <=> Ordered(q, r)
  BY <1>2, QueryKept, ModeKept DEF ReaderInv
<1>4. /\ QueryOK' /\ RangeOK' /\ DbopOK'
      /\ Handled' = Handled \cup ({e.i} \cap Due)
  BY <1>1, <1>2, GoesOn DEF ReaderInv
<1>5. e.i \in Due
  BY <1>1, <1>2, FoundIsNew DEF ReaderInv
<1>6. Handled' = Handled \cup {e.i}
  BY <1>4, <1>5
<1>7. [fid |-> Rec(e.i).fid] \in Items
  <2>1. Rec(e.i).fid \in Fid
    BY <1>5, DueRecords DEF ReaderInv
  <2> QED BY <1>2, <2>1 DEF Items
<1>8. pool' \subseteq Items /\ IsFiniteSet(pool')
  BY <1>2, <1>7, FS_AddElement DEF ReaderInv, Stages
<1>9. Got' = Got
  BY <1>2 DEF Got
<1>10. Stages'
  BY <1>2, <1>3, <1>8 DEF ReaderInv, Stages
<1>11. Gathered'
  BY <1>2, <1>3, <1>6 DEF ReaderInv, Gathered
<1>12. FirstOK' /\ OrderOK'
  BY <1>2, <1>3, <1>9 DEF ReaderInv, FirstOK, OrderOK
<1> QED BY <1>4, <1>10, <1>11, <1>12 DEF ReaderInv

LEMMA GatherStep == ReaderInv /\ pc \in {"first", "next"} /\ Gather(Read) => ReaderInv'
<1> SUFFICES ASSUME ReaderInv, pc \in {"first", "next"}, Gather(Read) PROVE ReaderInv'
  OBVIOUS
<1>1. PICK e : e = Read
  OBVIOUS
<1>2. /\ e.i # 0 /\ Wanted(Rec(e.i).key) /\ mode = "tag" /\ pc = "next" /\ d' = e.d
      /\ \A q \in pool : q.key = Rec(e.i).key
      /\ pool' = pool \cup {Rec(e.i)}
      /\ UNCHANGED <<query, range, prefix, seg, out, call, pc>>
  BY <1>1 DEF Gather, Takes, Unfiltered
<1>3. /\ Due' = Due /\ \A k : Key(k)' = Key(k) /\ Rec(k)' = Rec(k)
      /\ mode' = mode /\ Items' = Items /\ EndsEarly' = EndsEarly /\ Answer' = Answer
      /\ \A q, r : Ordered(q, r)' <=> Ordered(q, r)
  BY <1>2, QueryKept, ModeKept DEF ReaderInv
<1>4. /\ QueryOK' /\ RangeOK' /\ DbopOK'
      /\ Handled' = Handled \cup ({e.i} \cap Due)
  BY <1>1, <1>2, GoesOn DEF ReaderInv
<1>5. e.i \in Due /\ e.i \notin Handled
  BY <1>1, <1>2, FoundIsNew DEF ReaderInv
<1>6. Handled' = Handled \cup {e.i}
  BY <1>4, <1>5
<1>7. Rec(e.i) \in Items /\ Rec(e.i).key = Key(e.i)
  BY <1>2, <1>5, DueRecords DEF ReaderInv, Items
<1>8. pool' \subseteq Items /\ IsFiniteSet(pool')
  BY <1>2, <1>7, FS_AddElement DEF ReaderInv, Stages
<1>9. Got' = Got
  BY <1>2 DEF Got
<1>10. Stages'
  BY <1>2, <1>3, <1>8 DEF ReaderInv, Stages
<1>11. Gathered'
  BY <1>2, <1>3, <1>6, <1>9 DEF ReaderInv, Gathered
<1>12. FirstOK'
  BY <1>2 DEF FirstOK
<1>13. OrderOK'
  <2>1. /\ \A i, j \in 1 .. Len(Got) : i < j => Ordered(Got[i], Got[j])
        /\ \A q \in Range(Got), r \in pool : q.key < r.key
        /\ \A q, r \in pool : q.key = r.key
        /\ \A q \in Range(Got), k \in Due \ Handled : q.key < Key(k)
    BY <1>2 DEF ReaderInv, OrderOK
  <2>2. \A q \in Range(Got), r \in pool' : q.key < r.key
    BY <1>2, <1>5, <1>7, <2>1
  <2>3. \A q, r \in pool' : q.key = r.key
    BY <1>2, <2>1
  <2> QED BY <1>2, <1>3, <1>6, <1>9, <2>1, <2>2, <2>3 DEF OrderOK
<1> QED BY <1>4, <1>10, <1>11, <1>12, <1>13 DEF ReaderInv
-----------------------------------------------------------------------------
(* The array goes behind what the caller has got, in order. *)
LEMMA Delivers ==
    ASSUME ReaderInv, pc \in {"first", "next"}, pool # {}, Deliver, UNCHANGED query
    PROVE  /\ out' \in Seq(Items) /\ seg' \in Seq(Items)
           /\ Range(Got') = Range(Got) \cup pool
           /\ \A i, j \in 1 .. Len(Got') : i < j => Ordered(Got'[i], Got'[j])
<1>1. /\ mode \in {"tag", "path"} /\ pool \subseteq Items /\ IsFiniteSet(pool)
      /\ seg = <<>> /\ out \in Seq(Items) /\ (mode = "path" => out = <<>>)
      /\ \A i, j \in 1 .. Len(Got) : i < j => Ordered(Got[i], Got[j])
      /\ mode = "tag" => /\ \A q \in Range(Got), r \in pool : q.key < r.key
                         /\ \A q, r \in pool : q.key = r.key
  BY DEF ReaderInv, Stages, OrderOK, QueryOK
<1>2. \A r \in pool : r.fid \in Fid
  <2>1. mode = "tag" => \A r \in Items : r.fid \in Fid
    BY DEF Items, TagRecord
  <2>2. mode = "path" => \A r \in Items : r.fid \in Fid
    BY DEF Items
  <2> QED BY <1>1, <2>1, <2>2
<1>3. \A q, r \in pool : q.fid = r.fid => q = r
  <2>1. mode = "tag" => \A q, r \in Items : q.fid = r.fid /\ q.key = r.key => q = r
    BY DEF Items, TagRecord
  <2>2. mode = "path" => \A q, r \in Items : q.fid = r.fid => q = r
    BY DEF Items
  <2> QED BY <1>1, <2>1, <2>2
<1> DEFINE s == Sorted(pool)
<1>4. /\ s \in Seq(pool) /\ Range(s) = pool
      /\ \A i, j \in 1 .. Len(s) : i < j => Rank[s[i].fid] < Rank[s[j].fid]
  BY <1>1, <1>2, <1>3, SortedIs
<1>5. out' = Append(out, Head(s)) /\ seg' = Tail(s)
  BY DEF Deliver
<1> HIDE DEF s
<1>6. s \in Seq(Items) /\ s # <<>> /\ \A i \in 1 .. Len(s) : s[i] \in pool
  <2>1. \A i \in 1 .. Len(s) : s[i] \in pool
    BY <1>4
  <2>2. s \in Seq(Items)
    BY <1>1, <1>4
  <2>3. s # <<>>
    BY <1>4 DEF Range
  <2> QED BY <2>1, <2>2, <2>3
<1>7. out' \in Seq(Items) /\ seg' \in Seq(Items) /\ Got' = out \o s
  BY <1>1, <1>5, <1>6, Passed DEF Got
<1>8. Got = out
  BY <1>1 DEF Got
<1>9. /\ Len(Got') = Len(out) + Len(s) /\ Len(out) \in Nat /\ Len(s) \in Nat
      /\ \A i \in 1 .. Len(out) : Got'[i] = out[i]
      /\ \A i \in 1 .. Len(s) : Got'[Len(out) + i] = s[i]
      /\ Range(Got') = Range(out) \cup Range(s)
  BY <1>1, <1>6, <1>7, Joined
<1>10. ASSUME NEW i \in 1 .. Len(Got'), NEW j \in 1 .. Len(Got'), i < j
       PROVE  Ordered(Got'[i], Got'[j])
  <2>1. \/ i \in 1 .. Len(out) /\ j \in 1 .. Len(out)
        \/ i \in 1 .. Len(out) /\ j - Len(out) \in 1 .. Len(s)
        \/ i - Len(out) \in 1 .. Len(s) /\ j - Len(out) \in 1 .. Len(s)
    BY <1>9, <1>10
  <2>2. CASE i \in 1 .. Len(out) /\ j \in 1 .. Len(out)
    BY <1>1, <1>8, <1>9, <1>10, <2>2
  <2>3. CASE i \in 1 .. Len(out) /\ j - Len(out) \in 1 .. Len(s)
    <3>1. mode = "tag"
      BY <1>1, <1>9, <2>3
    <3>2. out[i] \in Range(Got)
      BY <1>1, <1>8, <2>3 DEF Range
    <3>3. PICK k \in 1 .. Len(s) : k = j - Len(out)
      BY <2>3
    <3>4. j = Len(out) + k
      BY <1>9, <3>3
    <3>5. Got'[i] = out[i] /\ Got'[j] = s[k] /\ s[k] \in pool
      BY <1>6, <1>9, <2>3, <3>4
    <3> QED BY <1>1, <3>1, <3>2, <3>5 DEF Ordered
  <2>4. CASE i - Len(out) \in 1 .. Len(s) /\ j - Len(out) \in 1 .. Len(s)
    <3>1. PICK k \in 1 .. Len(s), l \in 1 .. Len(s) : k = i - Len(out) /\ l = j - Len(out)
      BY <2>4
    <3>2. i = Len(out) + k /\ j = Len(out) + l /\ k < l
      BY <1>9, <1>10, <3>1
    <3>3. Got'[i] = s[k] /\ Got'[j] = s[l] /\ s[k] \in pool /\ s[l] \in pool
      BY <1>6, <1>9, <3>2
    <3>4. Rank[s[k].fid] < Rank[s[l].fid]
      BY <1>4, <3>2
    <3> QED BY <1>1, <3>3, <3>4 DEF Ordered
  <2> QED BY <2>1, <2>2, <2>3, <2>4
<1> QED BY <1>4, <1>7, <1>8, <1>9, <1>10

(* A segment is delivered before the records that are still to come. *)
LEMMA SegmentDelivered ==
    ASSUME ReaderInv, mode = "tag", pc = "next", pool # {}, Deliver, UNCHANGED query,
           QueryOK', RangeOK', DbopOK', Handled' = Handled,
           \A q \in pool, k \in Due \ Handled : q.key < Key(k)
    PROVE  ReaderInv'
<1>1. /\ Due' = Due /\ \A k : Key(k)' = Key(k) /\ Rec(k)' = Rec(k)
      /\ mode' = mode /\ Items' = Items /\ EndsEarly' = EndsEarly /\ Answer' = Answer
      /\ \A q, r : Ordered(q, r)' <=> Ordered(q, r)
  BY QueryKept, ModeKept DEF ReaderInv
<1>2. /\ out' \in Seq(Items) /\ seg' \in Seq(Items)
      /\ Range(Got') = Range(Got) \cup pool
      /\ \A i, j \in 1 .. Len(Got') : i < j => Ordered(Got'[i], Got'[j])
  BY Delivers
<1>3. pool' = {} /\ pc' = "reading"
  BY DEF Deliver
<1>4. Stages'
  BY <1>1, <1>2, <1>3, FS_EmptySet DEF Stages
<1>5. Range(Got) \cup pool = {Rec(k) : k \in Handled}
  BY DEF ReaderInv, Gathered
<1>6. Gathered'
  BY <1>1, <1>2, <1>3, <1>5 DEF Gathered
<1>7. FirstOK'
  BY <1>3 DEF FirstOK
<1>8. \A q \in Range(Got), k \in Due \ Handled : q.key < Key(k)
  BY DEF ReaderInv, OrderOK
<1>9. OrderOK'
  <2>1. \A q \in Range(Got'), k \in Due \ Handled : q.key < Key(k)
    BY <1>2, <1>8
  <2> QED BY <1>1, <1>2, <1>3, <2>1 DEF OrderOK
<1> QED BY <1>4, <1>6, <1>7, <1>9 DEF ReaderInv

LEMMA NextSegmentStep ==
    ReaderInv /\ pc \in {"first", "next"} /\ NextSegment(Read) => ReaderInv'
<1> SUFFICES ASSUME ReaderInv, pc \in {"first", "next"}, NextSegment(Read) PROVE ReaderInv'
  OBVIOUS
<1>1. PICK e : e = Read
  OBVIOUS
<1>2. /\ e.i # 0 /\ Wanted(Rec(e.i).key) /\ mode = "tag" /\ pc = "next"
      /\ d' = DbopUnread(e.d) /\ Deliver
  BY <1>1 DEF NextSegment, Takes, Unfiltered
<1>3. PICK p \in pool : p.key # Key(e.i)
  BY <1>1 DEF NextSegment, Key
<1>4. UNCHANGED <<query, range, prefix>> /\ pc' = "reading"
  BY <1>2 DEF Deliver
<1>5. QueryOK' /\ RangeOK' /\ DbopOK' /\ Handled' = Handled
  BY <1>1, <1>2, <1>4, StaysBefore DEF ReaderInv
<1>6. e.i \in Due \ Handled /\ \A k \in Due \ Handled : Key(e.i) <= Key(k)
  BY <1>1, <1>2, FoundIsNew DEF ReaderInv
<1>7. Place \in Nat
  <2>1. Place \in 0 .. Size
    BY ReadFinds DEF ReaderInv
  <2>2. Size \in Nat
    BY KeysAre DEF ReaderInv, QueryOK
  <2> QED BY <2>1, <2>2
<1>8. PICK j \in Handled : p = Rec(j)
  BY <1>2, <1>3 DEF ReaderInv, Gathered
<1>9. Key(j) <= Key(e.i) /\ p.key = Key(j)
  BY <1>2, <1>6, <1>7, <1>8, HandledComesFirst DEF ReaderInv, Key
<1>10. \A k \in Due : Key(k) \in Nat
  BY KeysAre DEF ReaderInv, QueryOK, Due
<1>11. \A k \in Due \ Handled : p.key < Key(k)
  <2> TAKE k \in Due \ Handled
  <2>1. Key(j) \in Nat /\ Key(k) \in Nat /\ Key(e.i) \in Nat
    BY <1>6, <1>10 DEF Handled
  <2> QED BY <1>3, <1>6, <1>9, <2>1
<1>12. \A q \in pool : q.key = p.key
  BY <1>2 DEF ReaderInv, OrderOK
<1> QED BY <1>2, <1>3, <1>4, <1>5, <1>11, <1>12, SegmentDelivered

LEMMA LastSegmentStep ==
    ReaderInv /\ pc \in {"first", "next"} /\ LastSegment(Read) => ReaderInv'
<1> SUFFICES ASSUME ReaderInv, pc \in {"first", "next"}, LastSegment(Read) PROVE ReaderInv'
  OBVIOUS
<1>1. PICK e : e = Read
  OBVIOUS
<1>2. e.i = 0 /\ mode = "tag" /\ pool # {} /\ d' = e.d /\ Deliver
  BY <1>1 DEF LastSegment
<1>3. pc = "next"
  BY <1>2 DEF ReaderInv, Stages
<1>4. UNCHANGED <<query, range, prefix>> /\ pc' = "reading"
  BY <1>2 DEF Deliver
<1>5. QueryOK' /\ RangeOK' /\ DbopOK' /\ Handled' = Handled
  BY <1>1, <1>2, <1>3, <1>4, StaysAtEnd DEF ReaderInv
<1>6. \A j \in Handled, k \in Due \ Handled : Key(j) < Key(k)
  BY <1>1, <1>2, EndSeparates DEF ReaderInv
<1>7. \A q \in pool : \E j \in Handled : q.key = Key(j)
  BY <1>2, <1>3 DEF ReaderInv, Gathered, Key
<1>8. \A q \in pool, k \in Due \ Handled : q.key < Key(k)
  BY <1>6, <1>7
<1> QED BY <1>2, <1>3, <1>4, <1>5, <1>8, SegmentDelivered

LEMMA RestartStep == ReaderInv /\ pc \in {"first", "next"} /\ Restart(Read) => ReaderInv'
<1> SUFFICES ASSUME ReaderInv, pc \in {"first", "next"}, Restart(Read) PROVE ReaderInv'
  OBVIOUS
<1>1. PICK e : e = Read
  OBVIOUS
<1>2. /\ e.i = 0 /\ (mode = "tag" => pool = {}) /\ prefix /\ Lower # {}
      /\ range' = Lower /\ prefix' = FALSE /\ d' = e.d /\ pc' = "first"
      /\ UNCHANGED <<query, pool, seg, out, call>>
  BY <1>1 DEF Restart, Restarts
<1>3. /\ Due' = Due /\ \A k : Key(k)' = Key(k) /\ Rec(k)' = Rec(k)
      /\ mode' = mode /\ Items' = Items /\ EndsEarly' = EndsEarly /\ Answer' = Answer
      /\ \A q, r : Ordered(q, r)' <=> Ordered(q, r)
  BY <1>2, QueryKept, ModeKept DEF ReaderInv
<1>4. /\ QueryOK' /\ RangeOK' /\ DbopOK'
      /\ mode # "key" => Handled' = Handled
      /\ mode = "key" => {Key(k) : k \in Handled'} = {Key(k) : k \in Handled}
  BY <1>1, <1>2, SecondBegins DEF ReaderInv
<1>5. mode = "key" => {[key |-> Key(k)] : k \in Handled'} = {[key |-> Key(k)] : k \in Handled}
  BY <1>4, KeysOnly
<1>6. Got' = Got
  BY <1>2 DEF Got
<1>7. mode \in {"tag", "key", "path"}
  BY DEF ReaderInv, QueryOK
<1>8. Stages'
  BY <1>2, <1>3, <1>7 DEF ReaderInv, Stages
<1>9. Gathered'
  BY <1>2, <1>3, <1>4, <1>5, <1>6 DEF ReaderInv, Gathered
<1>10. FirstOK'
  BY <1>2 DEF FirstOK
<1>11. OrderOK'
  BY <1>2, <1>3, <1>4, <1>6 DEF ReaderInv, OrderOK
<1> QED BY <1>4, <1>8, <1>9, <1>10, <1>11 DEF ReaderInv

(* Behind the last call of the DBOP *)
LEMMA DbopLeft ==
    ASSUME QueryOK, RangeOK, DbopOK, pc \in {"first", "next"}, NEW e, e = Read,
           UNCHANGED <<query, range, prefix>>, d' = e.d,
           pc' = "done" \/ (pc' = "reading" /\ mode = "path")
    PROVE  QueryOK' /\ RangeOK' /\ DbopOK'
<1>1. QueryOK' /\ Size' = Size
  BY QueryKept
<1>2. RangeOK'
  BY PassKept
<1>3. e.d \in Dbop /\ (engine = "btree" => ~e.d.done)
  BY ReadFinds
<1>4. DbopOK'
  BY <1>1, <1>3 DEF DbopOK, Dbop, query
<1> QED BY <1>1, <1>2, <1>4

LEMMA SortPathsStep == ReaderInv /\ pc \in {"first", "next"} /\ SortPaths(Read) => ReaderInv'
<1> SUFFICES ASSUME ReaderInv, pc \in {"first", "next"}, SortPaths(Read) PROVE ReaderInv'
  OBVIOUS
<1>1. PICK e : e = Read
  OBVIOUS
<1>2. e.i = 0 /\ mode = "path" /\ ~(prefix /\ Lower # {}) /\ pool # {} /\ d' = e.d /\ Deliver
  BY <1>1 DEF SortPaths, Restarts
<1>3. pool' = {} /\ pc' = "reading" /\ UNCHANGED <<query, range, prefix, call>>
  BY <1>2 DEF Deliver
<1>4. /\ mode' = mode /\ Items' = Items /\ EndsEarly' = EndsEarly /\ Answer' = Answer
      /\ \A q, r : Ordered(q, r)' <=> Ordered(q, r)
  BY <1>3, QueryKept, ModeKept DEF ReaderInv
<1>5. QueryOK' /\ RangeOK' /\ DbopOK'
  BY <1>1, <1>2, <1>3, DbopLeft DEF ReaderInv
<1>6. /\ out' \in Seq(Items) /\ seg' \in Seq(Items)
      /\ Range(Got') = Range(Got) \cup pool
      /\ \A i, j \in 1 .. Len(Got') : i < j => Ordered(Got'[i], Got'[j])
  BY <1>2, <1>3, Delivers
<1>7. Handled = Due
  BY <1>1, <1>2, LastPassEnds DEF ReaderInv
<1>8. pool = Answer
  BY <1>2, <1>7, AnswerIsDue DEF ReaderInv, Gathered
<1>9. Range(Got) = {}
  BY <1>2, EmptyGot DEF ReaderInv, Stages
<1>10. Stages'
  BY <1>2, <1>3, <1>4, <1>6, FS_EmptySet DEF Stages
<1>11. Gathered'
  BY <1>2, <1>3, <1>4, <1>6, <1>8, <1>9 DEF Gathered
<1>12. FirstOK' /\ OrderOK'
  BY <1>2, <1>3, <1>4, <1>6 DEF FirstOK, OrderOK
<1> QED BY <1>5, <1>10, <1>11, <1>12 DEF ReaderInv

LEMMA EndOfFileStep == ReaderInv /\ pc \in {"first", "next"} /\ EndOfFile(Read) => ReaderInv'
<1> SUFFICES ASSUME ReaderInv, pc \in {"first", "next"}, EndOfFile(Read) PROVE ReaderInv'
  OBVIOUS
<1>1. PICK e : e = Read
  OBVIOUS
<1>2. /\ e.i = 0 /\ pool = {} /\ ~Restarts /\ d' = e.d /\ pc' = "done"
      /\ UNCHANGED <<query, range, prefix, pool, seg, out, call>>
  BY <1>1 DEF EndOfFile
<1>3. /\ mode' = mode /\ Items' = Items /\ EndsEarly' = EndsEarly /\ Answer' = Answer
      /\ \A q, r : Ordered(q, r)' <=> Ordered(q, r)
  BY <1>2, QueryKept, ModeKept DEF ReaderInv
<1>4. QueryOK' /\ RangeOK' /\ DbopOK'
  BY <1>1, <1>2, DbopLeft DEF ReaderInv
<1>5. Got' = Got
  BY <1>2 DEF Got
<1>6. seg = <<>>
  BY DEF ReaderInv, Stages
<1>7. ASSUME ~EndsEarly PROVE Range(Got) = Answer
  <2>1. ~(prefix /\ Lower # {})
    <3> SUFFICES ASSUME prefix, Lower # {} PROVE FALSE
      OBVIOUS
    <3>1. mode = "tag" /\ call = "gtags_first" /\ pc = "next"
      BY <1>2 DEF Restarts
    <3>2. pattern.kind = "icase"
      BY <3>1 DEF ReaderInv, RangeOK
    <3>3. db = "GTAGS"
      BY <1>7, <3>1, <3>2 DEF EndsEarly
    <3>4. d.unread
      BY <1>2, <3>1, <3>3 DEF ReaderInv, FirstOK
    <3> QED BY <1>1, <1>2, <3>4, ReadFinds DEF ReaderInv
  <2>2. /\ mode # "key" => Handled = Due
        /\ mode = "key" => {Key(k) : k \in Handled} = {Key(k) : k \in Due}
    BY <1>1, <1>2, <2>1, LastPassEnds DEF ReaderInv
  <2>3. mode \in {"tag", "key", "path"}
    BY DEF ReaderInv, QueryOK
  <2>4. CASE mode = "tag"
    BY <1>2, <2>2, <2>3, <2>4, AnswerIsDue DEF ReaderInv, Gathered
  <2>5. CASE mode = "key"
    <3>1. {[key |-> Key(k)] : k \in Handled} = {[key |-> Key(k)] : k \in Due}
      BY <2>2, <2>5, KeysOnly
    <3> QED BY <1>2, <2>3, <2>5, <3>1, AnswerIsDue DEF ReaderInv, Gathered
  <2>6. CASE mode = "path"
    <3>1. Answer = {}
      BY <1>2, <2>2, <2>3, <2>6, AnswerIsDue DEF ReaderInv, Gathered
    <3> QED BY <1>6, <2>6, <3>1, EmptyGot DEF ReaderInv, Stages
  <2> QED BY <2>3, <2>4, <2>5, <2>6
<1>8. Stages'
  BY <1>2, <1>3, <1>6 DEF ReaderInv, Stages
<1>9. Gathered'
  BY <1>2, <1>3, <1>5, <1>7 DEF Gathered
<1>10. FirstOK'
  BY <1>2 DEF FirstOK
<1>11. OrderOK'
  BY <1>2, <1>3, <1>5 DEF ReaderInv, OrderOK
<1> QED BY <1>4, <1>8, <1>9, <1>10, <1>11 DEF ReaderInv
-----------------------------------------------------------------------------
LEMMA Stutters == ReaderInv /\ UNCHANGED vars => ReaderInv'
<1> SUFFICES ASSUME ReaderInv, UNCHANGED vars PROVE ReaderInv'
  OBVIOUS
<1>1. UNCHANGED <<query, range, prefix, d, pool, seg, out, call, pc>>
  BY DEF vars
<1>2. /\ Due' = Due /\ \A k : Key(k)' = Key(k) /\ Rec(k)' = Rec(k)
      /\ mode' = mode /\ Items' = Items /\ EndsEarly' = EndsEarly /\ Answer' = Answer
      /\ \A q, r : Ordered(q, r)' <=> Ordered(q, r)
  BY <1>1, QueryKept, ModeKept DEF ReaderInv
<1>3. QueryOK' /\ RangeOK' /\ DbopOK' /\ Handled' = Handled
  BY <1>1, StillThere DEF ReaderInv
<1>4. Got' = Got
  BY <1>1 DEF Got
<1>5. Stages'
  BY <1>1, <1>2 DEF ReaderInv, Stages
<1>6. Gathered'
  BY <1>1, <1>2, <1>3, <1>4 DEF ReaderInv, Gathered
<1>7. FirstOK'
  BY <1>1 DEF ReaderInv, FirstOK, query
<1>8. OrderOK'
  BY <1>1, <1>2, <1>3, <1>4 DEF ReaderInv, OrderOK
<1> QED BY <1>3, <1>5, <1>6, <1>7, <1>8 DEF ReaderInv

LEMMA StepHolds == ReaderInv /\ [Next]_vars => ReaderInv'
<1> SUFFICES ASSUME ReaderInv, [Next]_vars PROVE ReaderInv'
  OBVIOUS
<1>1. CASE GtagsFirst
  BY <1>1, GtagsFirstStep
<1>2. CASE NextOfArray
  BY <1>2, NextOfArrayStep
<1>3. CASE EndOfPaths
  BY <1>3, EndOfPathsStep
<1>4. CASE GtagsNext
  BY <1>4, GtagsNextStep
<1>5. CASE DbopReturns
  BY <1>5, PassOverStep, BeginSegmentStep, ReturnKeyStep, GatherPathStep, GatherStep,
     NextSegmentStep, LastSegmentStep, RestartStep, SortPathsStep, EndOfFileStep
     DEF DbopReturns
<1>6. CASE Closed \/ UNCHANGED vars
  BY <1>6, Stutters DEF Closed
<1> QED BY <1>1, <1>2, <1>3, <1>4, <1>5, <1>6 DEF Next

LEMMA ReaderInvHolds == Spec => []ReaderInv
BY InitHolds, StepHolds, PTL DEF Spec

(* The DBOP, its cursor and flags, and what is read, gathered and returned *)
(* have their types at every step of a search.                             *)
THEOREM ReaderTypes == Spec => [](d \in Dbop /\ pool \subseteq Items /\ out \in Seq(Items))
<1>1. ReaderInv => d \in Dbop /\ pool \subseteq Items /\ out \in Seq(Items)
  BY DEF ReaderInv, DbopOK, Stages
<1> QED BY <1>1, ReaderInvHolds, PTL

(* A list in order has no entry twice. *)
LEMMA EachOnce ==
    ASSUME ReaderInv, pc = "done"
    PROVE  Got = out /\ Len(out) = Cardinality(Range(out))
<1>1. /\ out \in Seq(Items) /\ seg = <<>> /\ mode \in {"tag", "key", "path"}
      /\ \A i, j \in 1 .. Len(Got) : i < j => Ordered(Got[i], Got[j])
  BY DEF ReaderInv, Stages, OrderOK, QueryOK
<1>2. Got = out
  BY <1>1 DEF Got
<1>3. \A r \in Items : ~Ordered(r, r)
  <2>1. (mode = "tag" \/ mode = "key") => \A r \in Items : r.key \in Nat
    <3>1. (mode = "tag" \/ mode = "key") => \A r \in Items : r.key \in Name
      BY DEF Items, TagRecord
    <3>2. Name \subseteq Nat
      BY ReaderAssumption
    <3> QED BY <3>1, <3>2
  <2>2. (mode = "tag" \/ mode = "path") => \A r \in Items : Rank[r.fid] \in Nat
    <3>1. (mode = "tag" \/ mode = "path") => \A r \in Items : r.fid \in Fid
      BY DEF Items, TagRecord
    <3> QED BY <3>1, ReaderAssumption
  <2>3. \A n \in Nat : ~(n < n)
    OBVIOUS
  <2> QED BY <1>1, <2>1, <2>2, <2>3 DEF Ordered
<1>4. /\ Len(out) \in Nat /\ out \in [1 .. Len(out) -> Range(out)]
      /\ \A i \in 1 .. Len(out) : out[i] \in Items
      /\ Range(out) = {out[i] : i \in 1 .. Len(out)}
  BY <1>1 DEF Range
<1>5. \A i, j \in 1 .. Len(out) : out[i] = out[j] => i = j
  <2> TAKE i, j \in 1 .. Len(out)
  <2>1. i < j \/ j < i \/ i = j
    BY <1>4
  <2> QED BY <1>1, <1>2, <1>3, <1>4, <2>1
<1>6. out \in Surjection(1 .. Len(out), Range(out)) /\ out \in Injection(1 .. Len(out), Range(out))
  BY <1>4, <1>5 DEF Surjection, Injection, IsInjective
<1>7. IsFiniteSet(1 .. Len(out)) /\ Cardinality(1 .. Len(out)) = Len(out)
  <2>1. PICK n \in Nat : n = Len(out)
    BY <1>4
  <2>2. IsFiniteSet(1 .. n) /\ Cardinality(1 .. n) = n
    BY FS_Interval
  <2> QED BY <2>1, <2>2
<1>8. Cardinality(Range(out)) = Cardinality(1 .. Len(out))
  BY <1>6, <1>7, FS_Surjection
<1> QED BY <1>2, <1>7, <1>8

(* A search by name, prefix or regular expression, ignoring case or not,   *)
(* through segments, keys or paths and the filter of GRTAGS and GSYMS,     *)
(* returns exactly what it was asked for, each once: unless it asks for    *)
(* references by tag, ignoring case.                                       *)
THEOREM AnswersUnlessEndsEarly == Spec => [](EndsEarly \/ AnswersExactly)
<1>1. ReaderInv => EndsEarly \/ AnswersExactly
  <2> SUFFICES ASSUME ReaderInv, ~EndsEarly, pc = "done"
               PROVE  Range(out) = Answer /\ Len(out) = Cardinality(Answer)
    BY DEF AnswersExactly
  <2>1. Range(Got) = Answer
    BY DEF ReaderInv, Gathered
  <2> QED BY <2>1, EachOnce
<1> QED BY <1>1, ReaderInvHolds, PTL

(* And always, when no list of references is asked for ignoring case.      *)
THEOREM AnswersWithoutIcase == ~IcaseRefs => (Spec => []AnswersExactly)
<1> SUFFICES ASSUME ~IcaseRefs PROVE Spec => []AnswersExactly
  OBVIOUS
<1>1. ReaderInv => AnswersExactly
  <2> SUFFICES ASSUME ReaderInv, pc = "done"
               PROVE  Range(out) = Answer /\ Len(out) = Cardinality(Answer)
    BY DEF AnswersExactly
  <2>1. Range(Got) = Answer
    BY DEF ReaderInv, Gathered, QueryOK
  <2> QED BY <2>1, EachOnce
<1> QED BY <1>1, ReaderInvHolds, PTL

(* Whatever the query, nothing is returned that it does not ask for: when  *)
(* a search ends too early, what it has returned is right as far as it is. *)
OnlyAsked == Range(Got) \subseteq Answer

THEOREM ReturnsOnlyAsked == Spec => [](Range(out) \subseteq Answer)
<1>1. ReaderInv /\ pc # "done" => OnlyAsked
  <2> SUFFICES ASSUME ReaderInv, pc # "done" PROVE OnlyAsked
    OBVIOUS
  <2>1. mode \in {"tag", "key", "path"} /\ Handled \subseteq Due
    BY DEF ReaderInv, QueryOK, Handled
  <2>2. CASE mode \in {"tag", "key"}
    BY <2>1, <2>2, AnswerIsDue DEF OnlyAsked, ReaderInv, Gathered
  <2>3. CASE mode = "path" /\ pc = "reading"
    BY <2>3 DEF OnlyAsked, ReaderInv, Gathered
  <2>4. CASE mode = "path" /\ pc # "reading"
    BY <2>4, EmptyGot DEF OnlyAsked, ReaderInv, Stages
  <2> QED BY <2>1, <2>2, <2>3, <2>4
<1>2. Init => pc # "done"
  BY DEF Init
<1>3. ReaderInv /\ OnlyAsked /\ [Next]_vars /\ pc' = "done" => OnlyAsked'
  <2> SUFFICES ASSUME ReaderInv, OnlyAsked, [Next]_vars, pc' = "done" PROVE OnlyAsked'
    OBVIOUS
  <2>1. UNCHANGED <<query, out, seg>>
    BY DEF Next, GtagsFirst, NextOfArray, EndOfPaths, GtagsNext, DbopReturns, PassOver,
       BeginSegment, ReturnKey, GatherPath, Gather, NextSegment, LastSegment, Deliver,
       Restart, SortPaths, EndOfFile, Closed, vars
  <2>2. Got' = Got
    BY <2>1 DEF Got
  <2> QED BY <2>1, <2>2, QueryKept DEF OnlyAsked, ReaderInv
<1>4. ReaderInv /\ OnlyAsked => Range(out) \subseteq Answer
  BY Joined DEF ReaderInv, Stages, OnlyAsked, Got
<1>5. pc' = "done" \/ (pc # "done")'
  OBVIOUS
<1> QED BY <1>1, <1>2, <1>3, <1>4, <1>5, ReaderInvHolds, PTL DEF Spec

(* What the caller gets is in the order of names and then of paths, also   *)
(* when a segment ends with a record that belongs to the next, and in two  *)
(* passes.                                                                 *)
THEOREM InOrderHolds == Spec => []InOrder
<1>1. ReaderInv => InOrder
  <2> SUFFICES ASSUME ReaderInv PROVE InOrder
    OBVIOUS
  <2>1. /\ out \in Seq(Items) /\ seg \in Seq(Items)
        /\ \A i, j \in 1 .. Len(Got) : i < j => Ordered(Got[i], Got[j])
    BY DEF ReaderInv, Stages, OrderOK
  <2>2. /\ Len(Got) = Len(out) + Len(seg) /\ Len(out) \in Nat /\ Len(seg) \in Nat
        /\ \A i \in 1 .. Len(out) : Got[i] = out[i]
    BY <2>1, Joined DEF Got
  <2>3. \A i, j \in 1 .. Len(out) : i < j => Ordered(out[i], out[j])
    BY <2>1, <2>2
  <2> QED BY <2>3 DEF InOrder, Ordered
<1> QED BY <1>1, ReaderInvHolds, PTL
=============================================================================
