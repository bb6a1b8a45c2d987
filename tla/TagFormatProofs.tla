-------------------------- MODULE TagFormatProofs --------------------------
(***************************************************************************)
(* The compact format and back: LinesSurvive and ImagesRight of TagFormat, *)
(* for any tags, files, tables of lines and length of a record.            *)
(*                                                                         *)
(* A record is a sequence of numbers, each added to the sum of those       *)
(* before it (Val), so it stands for a set of lines (LinesOf) that only    *)
(* grows at its end (End).  At every moment each line that was put is in   *)
(* one of four places: still to come, in the record at hand, in a record   *)
(* of the tag file, or shown (Kept); and a line that is shown is in no     *)
(* other place, so it is not shown again (Once).  That needs the records   *)
(* of an entry to lie apart (Apart), what flush_pool has of the one it     *)
(* writes (Made), and how far put_compact_format has read (Unfolded).      *)
(*                                                                         *)
(* For the images, the open file has been read up to cur_lineno (Source),  *)
(* which never passes the next line of the same file and key (Behind).     *)
(***************************************************************************)
EXTENDS TagFormat, FunctionTheorems, FiniteSetTheorems, WellFoundedInduction, TLAPS

Item  == [op : {"head", ",", "-"}, n : Nat \ {0}]
Entry == Files \X Tags
Rec   == [tag : Tags, path : Files, nums : Seq(Item)]
Image == {NoLine} \cup (Files \X Nat)
Shown == [tag : Tags, path : Files, line : Nat, src : Image]

(* The lines of an entry, a tag in a file, and where flush_pool has it. *)
Lno(e) == {table[e][i] : i \in DOMAIN table[e]}
Of(r, e) == r.path = e[1] /\ r.tag = e[2]
Writing(e) == pos = 0 /\ rec # NoRec /\ Of(rec, e)
Waiting(e) == e[1] \in toFlush \/ e \in path_hash

(* The line numbers that the numbers of a record stand for: each number is *)
(* added to what those before it come to, and "-" stands for all between.  *)
IsVal(s, v) == /\ v \in [0 .. Len(s) -> Nat] /\ v[0] = 0
               /\ \A i \in 1 .. Len(s) : v[i] = v[i - 1] + s[i].n
Val(s) == CHOOSE v : IsVal(s, v)
End(s) == Val(s)[Len(s)]
Has(s, i, l) == IF s[i].op = "-" THEN Val(s)[i - 1] < l /\ l <= Val(s)[i] ELSE l = Val(s)[i]
LinesOf(s) == {l \in 1 .. End(s) : \E i \in 1 .. Len(s) : Has(s, i, l)}

WellFormed(s) == s # <<>> /\ s[1].op = "head" /\ \A i \in 2 .. Len(s) : s[i].op # "head"

FTypes ==
    /\ table \in Tables /\ lines \in [Files -> Lengths] /\ gone \subseteq Files
    /\ toFlush \subseteq Files /\ path_hash \subseteq Entry
    /\ rec \in Rec \cup {NoRec} /\ recs \subseteq Rec
    /\ pos \in Nat /\ last \in Nat /\ cont \in Nat
    /\ curpath \in Nat /\ curtag \in Nat /\ cur_lineno \in Nat /\ last_lineno \in Nat
    /\ fp \in {"open", "NULL"} /\ src \in Image /\ shown \in Seq(Shown)

(* First all is written and then all is shown. *)
Turns ==
    /\ rec = NoRec => pos = 0
    /\ shown # <<>> \/ pos > 0 \/ curpath # 0 =>
          toFlush = {} /\ path_hash = {} /\ (rec = NoRec \/ pos > 0)
    /\ \A e \in path_hash : e[1] \notin toFlush
    /\ \A r \in recs : WellFormed(r.nums) /\ ~Waiting(<<r.path, r.tag>>)
    /\ rec # NoRec => ~Waiting(<<rec.path, rec.tag>>)

(* The record that is being written stands for the lines up to last, cont  *)
(* for the last one outside of the open range.                             *)
Made ==
    rec # NoRec /\ pos = 0 =>
        /\ left \subseteq DOMAIN table[<<rec.path, rec.tag>>]
        /\ \A i \in left : last <= LineAt(i)
        /\ rec.nums # <<>> => /\ WellFormed(rec.nums)
                              /\ End(rec.nums) = IF cont = 0 THEN last ELSE cont
        /\ cont # 0 => rec.nums # <<>> /\ cont < last
        /\ \A r \in recs : Of(r, <<rec.path, rec.tag>>) =>
               End(r.nums) <= last /\ (rec.nums # <<>> => End(r.nums) < First(rec))
        /\ rec.nums = <<>> /\ last > 0 =>
               \E r \in recs : Of(r, <<rec.path, rec.tag>>) /\ End(r.nums) = last

(* The record that is being shown has been read up to pos. *)
Unfolded ==
    pos > 0 =>
        /\ WellFormed(rec.nums) /\ pos <= Len(rec.nums) + 1
        /\ cont = 0 => last = Val(rec.nums)[pos - 1]
        /\ cont > 0 => /\ pos >= 2 /\ rec.nums[pos - 1].op = "-"
                       /\ cont = Val(rec.nums)[pos - 1]
                       /\ Val(rec.nums)[pos - 2] < last /\ last <= cont
        /\ \A r \in recs : Of(r, <<rec.path, rec.tag>>) => End(rec.nums) < First(r)

(* The records of a tag in a file lie apart. *)
Apart == \A q, r \in recs : q # r /\ q.tag = r.tag /\ q.path = r.path =>
             End(q.nums) < First(r) \/ End(r.nums) < First(q)

(* Where line l of entry e is. *)
InRecs(e, l)  == \E r \in recs : Of(r, e) /\ l \in LinesOf(r.nums)
InRec(e, l)   == /\ rec # NoRec /\ Of(rec, e)
                 /\ IF pos = 0 THEN l \in LinesOf(rec.nums) \/ (cont # 0 /\ cont < l /\ l <= last)
                    ELSE l \in LinesOf(rec.nums) /\ l > last
IsShown(e, l) == \E i \in DOMAIN shown : Of(shown[i], e) /\ shown[i].line = l
ToCome(e, l)  == Writing(e) /\ \E i \in left : table[e][i] = l

Kept == \A e \in Entry : ~Waiting(e) =>
            \A l \in Nat : l \in Lno(e) <=> \/ InRecs(e, l) \/ InRec(e, l)
                                            \/ IsShown(e, l) \/ ToCome(e, l)

(* and what is shown is nowhere else. *)
Once ==
    /\ \A i, j \in DOMAIN shown :
          /\ shown[i].tag = shown[j].tag /\ shown[i].path = shown[j].path
          /\ shown[i].line = shown[j].line
          => i = j
    /\ \A e \in Entry : \A l \in Nat : InRecs(e, l) \/ InRec(e, l) => ~IsShown(e, l)

(* The inductive invariant. *)
FormatInv == FTypes /\ Turns /\ Made /\ Unfolded /\ Apart /\ Kept /\ Once

(* The file that is open has been read up to cur_lineno. *)
Source ==
    /\ gone = {}
    /\ fp = "open" => /\ curpath \in Files /\ cur_lineno <= lines[curpath]
                      /\ cur_lineno > 0 => src = <<curpath, cur_lineno>>
                      /\ last_lineno > 0 => cur_lineno = last_lineno
    /\ fp = "NULL" /\ curpath # 0 =>
          /\ curpath \in Files /\ src = NoLine
          /\ \E x \in Tags : \E l \in Lno(<<curpath, x>>) : l > lines[curpath]

(* and never beyond the next line of the record. *)
Behind ==
    /\ pos > 0 => /\ curpath = rec.path /\ curtag \in {Coded, KeyOf[rec.tag]}
                  /\ last > 0 => last_lineno = last
                  /\ last = 0 /\ fp = "open" => cur_lineno <= First(rec)
    /\ pos = 0 /\ curpath # 0 =>
          /\ last_lineno > 0
          /\ \A r \in recs : r.path = curpath /\ KeyOf[r.tag] = curtag => last_lineno < First(r)

ImageInv == Source /\ Behind /\ ImagesRight
-----------------------------------------------------------------------------
(* A set of numbers has a least one. *)
LEMMA LeastIs ==
    ASSUME NEW S \in SUBSET Nat, S # {}
    PROVE  Min(S) \in S /\ \A y \in S : Min(S) <= y
<1>1. PICK x \in S : \A y \in S : ~ (<<y, x>> \in OpToRel(<, Nat))
  BY NatLessThanWellFounded, WFMin
<1>2. \A y \in S : x <= y
  <2> SUFFICES ASSUME NEW y \in S, ~(x <= y) PROVE FALSE
    OBVIOUS
  <2>1. <<y, x>> \in Nat \X Nat /\ y < x
    OBVIOUS
  <2>2. <<y, x>> \in {ss \in Nat \X Nat : ss[1] < ss[2]}
    BY <2>1
  <2>3. <<y, x>> \in OpToRel(<, Nat)
    BY <2>2 DEF OpToRel
  <2> QED BY <1>1, <2>3
<1> QED BY <1>2 DEF Min

(* The numbers of a record are above zero. *)
LEMMA ItemIs ==
    ASSUME NEW s \in Seq(Item)
    PROVE  /\ Len(s) \in Nat /\ (s # <<>> => Len(s) > 0)
           /\ \A i \in 1 .. Len(s) : s[i] \in Item /\ s[i].n \in Nat \ {0}
<1>1. \A x \in Item : x.n \in Nat \ {0}
  BY DEF Item
<1>2. Len(s) \in Nat /\ (s # <<>> => Len(s) > 0) /\ \A i \in 1 .. Len(s) : s[i] \in Item
  OBVIOUS
<1> QED BY <1>1, <1>2

(* What the numbers come to is well defined: a first one for which it is   *)
(* not would have one before.                                              *)
LEMMA ValIs ==
    ASSUME NEW s \in Seq(Item)
    PROVE  IsVal(s, Val(s))
<1> DEFINE Up(n, v) == /\ v \in [0 .. n -> Nat] /\ v[0] = 0
                       /\ \A i \in 1 .. n : v[i] = v[i - 1] + s[i].n
           B == {n \in 0 .. Len(s) : ~ \E v : Up(n, v)}
<1>0. Len(s) \in Nat /\ \A i \in 1 .. Len(s) : s[i].n \in Nat
  BY ItemIs
<1>1. B = {}
  <2> SUFFICES ASSUME B # {} PROVE FALSE
    OBVIOUS
  <2>1. B \in SUBSET Nat
    BY <1>0
  <2> DEFINE m == Min(B)
  <2>2. m \in B /\ \A y \in B : m <= y
    BY <2>1, LeastIs
  <2>3. m \in 0 .. Len(s) /\ ~ \E v : Up(m, v)
    BY <2>2
  <2> HIDE DEF m
  <2>4. m # 0
    <3> SUFFICES ASSUME m = 0 PROVE FALSE
      OBVIOUS
    <3>1. Up(0, [i \in 0 .. 0 |-> 0])
      OBVIOUS
    <3> QED BY <3>1, <2>3
  <2>5. m - 1 \in 0 .. Len(s) /\ m - 1 \notin B
    <3>1. m - 1 \in 0 .. Len(s) /\ ~(m <= m - 1)
      BY <1>0, <2>3, <2>4
    <3> HIDE DEF B
    <3> QED BY <2>2, <3>1
  <2>6. PICK v : Up(m - 1, v)
    BY <2>5
  <2> DEFINE w == [i \in 0 .. m |-> IF i = m THEN v[m - 1] + s[m].n ELSE v[i]]
  <2>7. m \in 1 .. Len(s) /\ v[m - 1] \in Nat /\ v[m - 1] + s[m].n \in Nat
    BY <1>0, <2>3, <2>4, <2>6
  <2>8. w \in [0 .. m -> Nat]
    <3> SUFFICES ASSUME NEW i \in 0 .. m PROVE w[i] \in Nat
      OBVIOUS
    <3>1. i # m => i \in 0 .. m - 1
      BY <2>7
    <3> QED BY <2>6, <2>7, <3>1
  <2>9. w[0] = 0
    BY <2>6, <2>7
  <2>10. ASSUME NEW i \in 1 .. m PROVE w[i] = w[i - 1] + s[i].n
    <3>1. CASE i = m
      BY <2>7, <3>1
    <3>2. CASE i # m
      <4>1. i \in 1 .. m - 1 /\ i - 1 \in 0 .. m /\ i - 1 # m /\ i \in 0 .. m
        BY <2>7, <3>2
      <4> QED BY <2>6, <3>2, <4>1
    <3> QED BY <3>1, <3>2
  <2>11. Up(m, w)
    BY <2>8, <2>9, <2>10
  <2> QED BY <2>3, <2>11
<1>2. \E v : Up(Len(s), v)
  BY <1>0, <1>1
<1>3. \E v : IsVal(s, v)
  BY <1>2 DEF IsVal
<1> QED BY <1>3 DEF Val

(* Two records with the same first numbers come to the same with them. *)
LEMMA ValOnce ==
    ASSUME NEW s \in Seq(Item), NEW n \in 0 .. Len(s), NEW m \in Nat, n <= m,
           NEW v \in [0 .. n -> Nat], NEW w \in [0 .. m -> Nat], w[0] = v[0],
           \A i \in 1 .. n : v[i] = v[i - 1] + s[i].n,
           \A i \in 1 .. n : w[i] = w[i - 1] + s[i].n
    PROVE  \A i \in 0 .. n : v[i] = w[i]
<1> DEFINE B == {i \in 0 .. n : v[i] # w[i]}
<1> SUFFICES ASSUME B # {} PROVE FALSE
  OBVIOUS
<1>1. B \in SUBSET Nat
  OBVIOUS
<1> DEFINE k == Min(B)
<1>2. k \in B /\ \A y \in B : k <= y
  BY <1>1, LeastIs
<1> HIDE DEF k
<1>3. k \in 0 .. n /\ v[k] # w[k] /\ k # 0
  BY <1>2
<1>4. k - 1 \in 0 .. n /\ k - 1 \notin B
  BY <1>1, <1>2, <1>3
<1>5. k \in 1 .. n /\ v[k - 1] = w[k - 1]
  BY <1>3, <1>4
<1> QED BY <1>3, <1>5

(* What a record comes to grows from number to number. *)
LEMMA ValGrows ==
    ASSUME NEW s \in Seq(Item)
    PROVE  /\ Val(s) \in [0 .. Len(s) -> Nat] /\ Val(s)[0] = 0
           /\ \A i \in 1 .. Len(s) : s[i] \in Item /\ Val(s)[i] = Val(s)[i - 1] + s[i].n
           /\ \A i, j \in 0 .. Len(s) : i < j => Val(s)[i] < Val(s)[j]
<1> DEFINE v == Val(s)
<1>0. Len(s) \in Nat /\ \A i \in 1 .. Len(s) : s[i] \in Item /\ s[i].n \in Nat \ {0}
  BY ItemIs
<1>1. v \in [0 .. Len(s) -> Nat] /\ v[0] = 0 /\ \A i \in 1 .. Len(s) : v[i] = v[i - 1] + s[i].n
  BY ValIs DEF IsVal
<1> HIDE DEF v
<1>2. ASSUME NEW i \in 0 .. Len(s), NEW j \in 0 .. Len(s), i < j PROVE v[i] < v[j]
  <2> DEFINE B == {k \in 0 .. Len(s) : i < k /\ ~ v[i] < v[k]}
  <2> SUFFICES ASSUME B # {} PROVE FALSE
    BY <1>2
  <2>1. B \in SUBSET Nat
    OBVIOUS
  <2> DEFINE m == Min(B)
  <2>2. m \in B /\ \A y \in B : m <= y
    BY <2>1, LeastIs
  <2> HIDE DEF m
  <2>3. m \in 1 .. Len(s) /\ i < m /\ ~ v[i] < v[m] /\ m - 1 \in 0 .. Len(s) /\ m - 1 \notin B
    BY <1>0, <2>1, <2>2
  <2>4. v[m] = v[m - 1] + s[m].n /\ v[m - 1] \in Nat /\ s[m].n \in Nat \ {0} /\ v[i] \in Nat
    BY <1>0, <1>1, <2>3
  <2>5. m - 1 = i \/ v[i] < v[m - 1]
    BY <2>3
  <2> QED BY <2>3, <2>4, <2>5
<1> QED BY <1>0, <1>1, <1>2 DEF v

(* A record without numbers stands for no line. *)
LEMMA EmptyLines == LinesOf(<<>>) = {} /\ End(<<>>) = 0
<1>1. <<>> \in Seq(Item) /\ Len(<<>>) = 0
  OBVIOUS
<1>2. End(<<>>) = 0
  BY <1>1, ValGrows DEF End
<1> QED BY <1>2 DEF LinesOf

(* A record that has numbers ends with a line of its own. *)
LEMMA EndIs ==
    ASSUME NEW s \in Seq(Item)
    PROVE  /\ End(s) \in Nat /\ LinesOf(s) \subseteq 1 .. End(s)
           /\ s # <<>> => End(s) > 0 /\ End(s) \in LinesOf(s)
<1>0. Len(s) \in Nat /\ (s # <<>> => Len(s) > 0)
  OBVIOUS
<1>1. End(s) \in Nat
  BY <1>0, ValGrows DEF End
<1>2. ASSUME s # <<>> PROVE End(s) > 0 /\ End(s) \in LinesOf(s)
  <2>1. Len(s) \in 1 .. Len(s) /\ Len(s) - 1 \in 0 .. Len(s) /\ Len(s) \in 0 .. Len(s) /\ 0 \in 0 .. Len(s)
    BY <1>0, <1>2
  <2>2. Val(s)[0] < Val(s)[Len(s)] /\ Val(s)[Len(s) - 1] < Val(s)[Len(s)] /\ Val(s)[0] = 0
    BY <2>1, ValGrows
  <2>3. End(s) > 0 /\ Has(s, Len(s), End(s))
    BY <1>1, <2>2 DEF End, Has
  <2> QED BY <1>1, <2>1, <2>3 DEF LinesOf
<1> QED BY <1>1, <1>2 DEF LinesOf

(* The first number is the first line. *)
LEMMA HeadIs ==
    ASSUME NEW s \in Seq(Item), WellFormed(s)
    PROVE  /\ Head(s).n \in Nat \ {0} /\ Head(s).n \in LinesOf(s) /\ Head(s).n = Val(s)[1]
           /\ Head(s).n <= End(s)
           /\ \A l \in LinesOf(s) : Head(s).n <= l
<1> DEFINE f == Head(s).n
<1>0. Len(s) \in Nat /\ Len(s) > 0 /\ s[1].op = "head" /\ Head(s) = s[1]
  <2>1. s # <<>> /\ s[1].op = "head"
    BY DEF WellFormed
  <2>2. Head(s) = s[1]
    OBVIOUS
  <2> QED BY <2>1, <2>2, ItemIs
<1>1. 1 \in 1 .. Len(s) /\ 0 \in 0 .. Len(s) /\ 1 \in 0 .. Len(s) /\ Len(s) \in 0 .. Len(s)
  BY <1>0
<1>2. s[1].n \in Nat \ {0} /\ Val(s)[1] = Val(s)[0] + s[1].n /\ Val(s)[0] = 0
  BY <1>1, ValGrows, ItemIs
<1>3. f \in Nat \ {0} /\ f = Val(s)[1]
  BY <1>0, <1>2
<1> HIDE DEF f
<1>4. f <= End(s) /\ End(s) \in Nat
  <2>1. 1 < Len(s) => Val(s)[1] < Val(s)[Len(s)]
    BY <1>1, ValGrows
  <2> QED BY <1>0, <1>3, <2>1, EndIs DEF End
<1>5. f \in LinesOf(s)
  <2>1. Has(s, 1, f)
    BY <1>0, <1>3 DEF Has
  <2> QED BY <1>1, <1>3, <1>4, <2>1 DEF LinesOf
<1>6. ASSUME NEW l \in LinesOf(s) PROVE f <= l
  <2>1. l \in Nat
    BY <1>4 DEF LinesOf
  <2>2. PICK i \in 1 .. Len(s) : Has(s, i, l)
    BY DEF LinesOf
  <2>3. i - 1 \in 0 .. Len(s) /\ i \in 0 .. Len(s)
    BY <1>0
  <2>4. Val(s)[i - 1] \in Nat /\ Val(s)[i] \in Nat
    BY <2>3, ValGrows
  <2>5. CASE i = 1
    BY <1>0, <1>3, <2>1, <2>2, <2>5 DEF Has
  <2>6. CASE i # 1
    <3>1. Val(s)[1] < Val(s)[i] /\ (i - 1 = 1 \/ Val(s)[1] < Val(s)[i - 1])
      BY <1>0, <1>1, <2>3, <2>6, ValGrows
    <3> QED BY <1>3, <2>1, <2>2, <2>4, <3>1 DEF Has
  <2> QED BY <2>5, <2>6
<1> QED BY <1>3, <1>4, <1>5, <1>6 DEF f

(* So what segment_read sorts by is the first line of the record. *)
LEMMA FirstIs ==
    ASSUME NEW r \in Rec, WellFormed(r.nums)
    PROVE  /\ First(r) \in Nat \ {0} /\ First(r) \in LinesOf(r.nums) /\ First(r) = Val(r.nums)[1]
           /\ First(r) <= End(r.nums)
           /\ \A l \in LinesOf(r.nums) : First(r) <= l
<1>1. r.nums \in Seq(Item)
  BY DEF Rec
<1> QED BY <1>1, HeadIs DEF First

(* One more number stands for the lines behind the last one. *)
LEMMA AppendLines ==
    ASSUME NEW s \in Seq(Item), NEW x \in Item
    PROVE  /\ Append(s, x) \in Seq(Item) /\ Append(s, x) # <<>>
           /\ End(Append(s, x)) = End(s) + x.n
           /\ LinesOf(Append(s, x)) =
                LinesOf(s) \cup (IF x.op = "-" THEN (End(s) + 1) .. (End(s) + x.n)
                                 ELSE {End(s) + x.n})
<1> DEFINE q == Append(s, x)
           N == Len(s)
<1>0. /\ q \in Seq(Item) /\ N \in Nat /\ Len(q) = N + 1 /\ q[N + 1] = x
      /\ \A i \in 1 .. N : q[i] = s[i] /\ i \in 1 .. Len(q)
      /\ x.n \in Nat \ {0}
  <2>1. x.n \in Nat \ {0}
    BY DEF Item
  <2>2. N \in Nat
    BY ItemIs
  <2> QED BY <2>1, <2>2
<1>1. /\ Val(s) \in [0 .. N -> Nat] /\ Val(q) \in [0 .. N + 1 -> Nat]
      /\ Val(s)[0] = 0 /\ Val(q)[0] = 0
      /\ \A i \in 1 .. N : Val(s)[i] = Val(s)[i - 1] + s[i].n
      /\ \A i \in 1 .. N + 1 : Val(q)[i] = Val(q)[i - 1] + q[i].n
  BY <1>0, ValGrows
<1>2. \A i \in 0 .. N : Val(s)[i] = Val(q)[i]
  <2>1. \A i \in 1 .. N : Val(q)[i] = Val(q)[i - 1] + s[i].n
    BY <1>0, <1>1
  <2>2. N \in 0 .. Len(s) /\ Val(s)[0] = Val(q)[0]
    BY <1>0, <1>1
  <2> DEFINE v == Val(s)
             w == Val(q)
  <2>3. /\ v \in [0 .. N -> Nat] /\ w \in [0 .. N + 1 -> Nat] /\ w[0] = v[0]
        /\ N + 1 \in Nat /\ N <= N + 1
        /\ \A i \in 1 .. N : v[i] = v[i - 1] + s[i].n
    BY <1>0, <1>1
  <2>4. \A i \in 1 .. N : w[i] = w[i - 1] + s[i].n
    BY <2>1
  <2>5. N \in 0 .. Len(s)
    BY <2>2
  <2> HIDE DEF q, v, w, N
  <2>6. \A i \in 0 .. N : v[i] = w[i]
    BY <2>3, <2>4, <2>5, ValOnce
  <2> QED BY <2>6 DEF v, w
<1>3. End(q) = End(s) + x.n /\ End(s) = Val(q)[N] /\ End(q) = Val(q)[N + 1] /\ End(s) \in Nat
  <2>1. N \in 0 .. N /\ N + 1 \in 1 .. N + 1 /\ (N + 1) - 1 = N
    BY <1>0
  <2> QED BY <1>0, <1>1, <1>2, <2>1, EndIs DEF End
<1>4. \A i \in 1 .. N : \A l : Has(q, i, l) <=> Has(s, i, l)
  <2>1. \A i \in 1 .. N : i \in 0 .. N /\ i - 1 \in 0 .. N
    BY <1>0
  <2> QED BY <1>0, <1>2, <2>1 DEF Has
<1>5. \A l : Has(q, N + 1, l) <=> IF x.op = "-" THEN End(s) < l /\ l <= End(q) ELSE l = End(q)
  <2>1. (N + 1) - 1 = N
    BY <1>0
  <2> QED BY <1>0, <1>3, <2>1 DEF Has
<1> DEFINE New == IF x.op = "-" THEN (End(s) + 1) .. (End(s) + x.n) ELSE {End(s) + x.n}
<1> HIDE DEF q
<1>6. ASSUME NEW l \in LinesOf(q) PROVE l \in LinesOf(s) \cup New
  <2>1. l \in 1 .. End(q)
    BY DEF LinesOf
  <2>2. PICK i \in 1 .. N + 1 : Has(q, i, l)
    BY <1>0 DEF LinesOf
  <2>3. CASE i = N + 1
    BY <1>0, <1>3, <1>5, <2>1, <2>2, <2>3
  <2>4. CASE i # N + 1
    <3>1. i \in 1 .. N /\ Has(s, i, l)
      BY <1>0, <1>4, <2>2, <2>4
    <3>2. l <= End(s)
      <4>1. i \in 0 .. N /\ N \in 0 .. N
        BY <1>0, <3>1
      <4>2. Val(s)[i] <= Val(s)[N] /\ Val(s)[i] \in Nat
        <5>1. i = N \/ i < N
          BY <1>0, <3>1
        <5>2. i < N => Val(s)[i] < Val(s)[N]
          BY <4>1, ValGrows
        <5> QED BY <1>1, <4>1, <5>1, <5>2
      <4>3. l <= Val(s)[i]
        BY <2>1, <3>1, <4>2 DEF Has
      <4>4. l \in Nat /\ End(s) = Val(s)[N] /\ Val(s)[N] \in Nat
        BY <1>0, <1>1, <1>3, <2>1, <4>1 DEF End
      <4> QED BY <4>2, <4>3, <4>4
    <3> QED BY <1>3, <2>1, <3>1, <3>2 DEF LinesOf
  <2> QED BY <2>3, <2>4
<1>7. ASSUME NEW l \in LinesOf(s) PROVE l \in LinesOf(q)
  <2>1. PICK i \in 1 .. N : Has(s, i, l)
    BY DEF LinesOf
  <2>2. l \in 1 .. End(q)
    BY <1>0, <1>3 DEF LinesOf
  <2>3. Has(q, i, l) /\ i \in 1 .. Len(q)
    BY <1>0, <1>4, <2>1
  <2> QED BY <2>2, <2>3 DEF LinesOf
<1>8. ASSUME NEW l \in New PROVE l \in LinesOf(q)
  <2>1. l \in 1 .. End(q) /\ Has(q, N + 1, l)
    BY <1>0, <1>3, <1>5
  <2>2. N + 1 \in 1 .. Len(q)
    BY <1>0
  <2> QED BY <2>1, <2>2 DEF LinesOf
<1>9. LinesOf(q) = LinesOf(s) \cup New
  BY <1>6, <1>7, <1>8
<1>10. q # <<>>
  BY <1>0
<1> QED BY <1>0, <1>3, <1>9, <1>10 DEF q

(* A number behind the first keeps a record well formed. *)
LEMMA FormedAppend ==
    ASSUME NEW s \in Seq(Item), WellFormed(s), NEW x \in Item, x.op # "head"
    PROVE  WellFormed(Append(s, x)) /\ Head(Append(s, x)) = Head(s)
<1>1. Len(s) \in Nat /\ Len(s) > 0 /\ s[1].op = "head"
  BY ItemIs DEF WellFormed
<1>2. /\ Len(Append(s, x)) = Len(s) + 1 /\ Append(s, x)[Len(s) + 1] = x
      /\ \A i \in 1 .. Len(s) : Append(s, x)[i] = s[i]
  BY <1>1
<1>3. Append(s, x) # <<>> /\ Append(s, x)[1] = s[1]
  BY <1>1, <1>2
<1>4. \A i \in 2 .. Len(s) + 1 : Append(s, x)[i].op # "head"
  <2> SUFFICES ASSUME NEW i \in 2 .. Len(s) + 1 PROVE Append(s, x)[i].op # "head"
    OBVIOUS
  <2>1. CASE i = Len(s) + 1
    BY <1>2, <2>1
  <2>2. CASE i # Len(s) + 1
    <3>1. i \in 2 .. Len(s) /\ i \in 1 .. Len(s)
      BY <1>1, <2>2
    <3> QED BY <1>2, <3>1 DEF WellFormed
  <2> QED BY <2>1, <2>2
<1>5. WellFormed(Append(s, x))
  BY <1>1, <1>2, <1>3, <1>4 DEF WellFormed
<1>6. Head(Append(s, x)) = Head(s)
  BY <1>3
<1> QED BY <1>5, <1>6

(* A record with one number stands for that line. *)
LEMMA HeadLine ==
    ASSUME NEW n \in Nat \ {0}
    PROVE  LET s == <<Num("head", n)>>
           IN  /\ s \in Seq(Item) /\ WellFormed(s) /\ s = Append(<<>>, Num("head", n))
               /\ Head(s).n = n /\ End(s) = n /\ LinesOf(s) = {n}
<1> DEFINE x == Num("head", n)
<1>1. x \in Item /\ x.op = "head" /\ x.n = n
  BY DEF Num, Item
<1> HIDE DEF x
<1>2. <<>> \in Seq(Item) /\ <<x>> = Append(<<>>, x)
  BY <1>1
<1>3. <<x>> \in Seq(Item) /\ WellFormed(<<x>>) /\ Head(<<x>>) = x
  BY <1>1 DEF WellFormed
<1>4. End(<<x>>) = 0 + n /\ LinesOf(<<x>>) = {} \cup {0 + n}
  BY <1>1, <1>2, AppendLines, EmptyLines
<1> QED BY <1>1, <1>2, <1>3, <1>4 DEF x
-----------------------------------------------------------------------------
(* While flush_pool writes: the record at hand and what it comes to.       *)
LEMMA WritingIs ==
    ASSUME FormatInv, rec # NoRec, pos = 0
    PROVE  /\ rec \in Rec /\ rec.nums \in Seq(Item) /\ rec.path \in Files /\ rec.tag \in Tags
           /\ <<rec.path, rec.tag>> \in Entry /\ ~Waiting(<<rec.path, rec.tag>>)
           /\ table[<<rec.path, rec.tag>>] \in Seq(Nat \ {0})
           /\ \A i \in left : /\ i \in DOMAIN table[<<rec.path, rec.tag>>]
                              /\ LineAt(i) \in Nat \ {0} /\ last <= LineAt(i)
                              /\ LineAt(i) \in Lno(<<rec.path, rec.tag>>)
           /\ shown = <<>> /\ curpath = 0
<1>1. rec \in Rec
  BY DEF FormatInv, FTypes
<1>2. rec.nums \in Seq(Item) /\ rec.path \in Files /\ rec.tag \in Tags
  BY <1>1 DEF Rec
<1>3. <<rec.path, rec.tag>> \in Entry /\ ~Waiting(<<rec.path, rec.tag>>)
  BY <1>2 DEF FormatInv, Turns, Entry
<1>4. table[<<rec.path, rec.tag>>] \in Seq(Nat \ {0})
  BY <1>3, FormatAssumption DEF FormatInv, FTypes, Entry
<1>5. ASSUME NEW i \in left
      PROVE  /\ i \in DOMAIN table[<<rec.path, rec.tag>>]
             /\ LineAt(i) \in Nat \ {0} /\ last <= LineAt(i)
             /\ LineAt(i) \in Lno(<<rec.path, rec.tag>>)
  <2>1. i \in DOMAIN table[<<rec.path, rec.tag>>] /\ last <= LineAt(i)
    BY DEF FormatInv, Made
  <2>2. LineAt(i) \in Nat \ {0}
    BY <1>4, <2>1 DEF LineAt
  <2> QED BY <2>1, <2>2 DEF Lno, LineAt
<1>6. shown = <<>> /\ curpath = 0
  BY DEF FormatInv, Turns
<1> QED BY <1>1, <1>2, <1>3, <1>4, <1>5, <1>6

(* With the end of an open range, the record stands for what it stood for  *)
(* and the lines of the range, which ends with last.                       *)
LEMMA RangeEndIs ==
    ASSUME FormatInv, rec # NoRec, pos = 0
    PROVE  LET q == RangeEnd(rec.nums)
           IN  /\ q \in Seq(Item) /\ (q = <<>> <=> rec.nums = <<>>)
               /\ rec.nums # <<>> => WellFormed(q) /\ Head(q) = Head(rec.nums) /\ End(q) = last
               /\ \A l \in Nat : l \in LinesOf(q) <=>
                      l \in LinesOf(rec.nums) \/ (cont # 0 /\ cont < l /\ l <= last)
<1>1. rec.nums \in Seq(Item)
  BY WritingIs
<1>2. last \in Nat /\ cont \in Nat
  BY DEF FormatInv, FTypes
<1>3. CASE cont = 0
  <2>1. RangeEnd(rec.nums) = rec.nums
    BY <1>3 DEF RangeEnd
  <2>2. rec.nums # <<>> => WellFormed(rec.nums) /\ End(rec.nums) = last
    BY <1>3 DEF FormatInv, Made
  <2> QED BY <1>1, <1>3, <2>1, <2>2
<1>4. CASE cont # 0
  <2> DEFINE x == Num("-", last - cont)
  <2>1. rec.nums # <<>> /\ cont < last /\ WellFormed(rec.nums) /\ End(rec.nums) = cont
    BY <1>4 DEF FormatInv, Made
  <2>2. x \in Item /\ x.op = "-" /\ x.n = last - cont
    BY <1>2, <2>1 DEF Num, Item
  <2>3. RangeEnd(rec.nums) = Append(rec.nums, x)
    BY <1>4 DEF RangeEnd
  <2> HIDE DEF x
  <2>4. WellFormed(Append(rec.nums, x)) /\ Head(Append(rec.nums, x)) = Head(rec.nums)
    BY <1>1, <2>1, <2>2, FormedAppend
  <2>5. /\ Append(rec.nums, x) \in Seq(Item) /\ Append(rec.nums, x) # <<>>
        /\ End(Append(rec.nums, x)) = cont + (last - cont)
        /\ LinesOf(Append(rec.nums, x)) =
              LinesOf(rec.nums) \cup (cont + 1) .. (cont + (last - cont))
    BY <1>1, <2>1, <2>2, AppendLines
  <2>6. cont + (last - cont) = last
    BY <1>2
  <2> QED BY <1>2, <1>4, <2>1, <2>3, <2>4, <2>5, <2>6
<1> QED BY <1>3, <1>4

(* With a line that is apart, as the head or as a difference, it stands    *)
(* for that line too, and still begins where it began.                     *)
LEMMA AddedIs ==
    ASSUME FormatInv, rec # NoRec, pos = 0, NEW i \in left, LineAt(i) # last
    PROVE  LET q == Added(i)
           IN  /\ q \in Seq(Item) /\ q # <<>> /\ WellFormed(q) /\ End(q) = LineAt(i)
               /\ rec.nums # <<>> => Head(q) = Head(rec.nums)
               /\ rec.nums = <<>> => Head(q).n = LineAt(i)
               /\ \A l \in Nat : l \in LinesOf(q) <=>
                      \/ l \in LinesOf(rec.nums) \/ (cont # 0 /\ cont < l /\ l <= last)
                      \/ l = LineAt(i)
<1> DEFINE r == RangeEnd(rec.nums)
           n == LineAt(i)
<1>1. n \in Nat \ {0} /\ last <= n /\ last \in Nat
  BY WritingIs DEF FormatInv, FTypes
<1>2. /\ r \in Seq(Item) /\ (r = <<>> <=> rec.nums = <<>>)
      /\ rec.nums # <<>> => WellFormed(r) /\ Head(r) = Head(rec.nums) /\ End(r) = last
      /\ \A l \in Nat : l \in LinesOf(r) <=>
             l \in LinesOf(rec.nums) \/ (cont # 0 /\ cont < l /\ l <= last)
  BY RangeEndIs
<1>3. n # last
  OBVIOUS
<1>4. Added(i) = Append(r, IF r = <<>> THEN Num("head", n) ELSE Num(",", n - last))
  BY DEF Added
<1> HIDE DEF r, n
<1>5. CASE rec.nums = <<>>
  <2>1. r = <<>> /\ Added(i) = <<Num("head", n)>>
    BY <1>1, <1>2, <1>4, <1>5, HeadLine
  <2>2. LinesOf(r) = {}
    BY <2>1, EmptyLines
  <2> HIDE DEF r
  <2>3. /\ Added(i) \in Seq(Item) /\ Added(i) # <<>> /\ WellFormed(Added(i))
        /\ End(Added(i)) = n /\ Head(Added(i)).n = n /\ LinesOf(Added(i)) = {n}
    BY <1>1, <2>1, HeadLine
  <2> QED BY <1>1, <1>2, <1>5, <2>2, <2>3 DEF n
<1>6. CASE rec.nums # <<>>
  <2> DEFINE x == Num(",", n - last)
  <2>1. x \in Item /\ x.op = "," /\ x.n = n - last
    BY <1>1, <1>3 DEF Num, Item
  <2>2. Added(i) = Append(r, x)
    BY <1>2, <1>4, <1>6
  <2> HIDE DEF x
  <2>3. WellFormed(r) /\ End(r) = last /\ Head(r) = Head(rec.nums)
    BY <1>2, <1>6
  <2>4. WellFormed(Append(r, x)) /\ Head(Append(r, x)) = Head(r)
    BY <1>2, <2>1, <2>3, FormedAppend
  <2>5. /\ Append(r, x) \in Seq(Item) /\ Append(r, x) # <<>>
        /\ End(Append(r, x)) = last + (n - last)
        /\ LinesOf(Append(r, x)) = LinesOf(r) \cup {last + (n - last)}
    BY <1>2, <2>1, <2>3, AppendLines
  <2>6. last + (n - last) = n
    BY <1>1
  <2> QED BY <1>2, <1>6, <2>2, <2>3, <2>4, <2>5, <2>6 DEF n
<1> QED BY <1>5, <1>6
-----------------------------------------------------------------------------
(* Every step keeps the invariant: one lemma per action.                   *)

(* What waits in a file that is flushed waits in its entries. *)
LEMMA GtagsFlushKeeps ==
    ASSUME FormatInv, NEW f \in toFlush, GtagsFlush(f) PROVE FormatInv'
<1> USE DEF GtagsFlush, pvars, ovars
<1>1. FTypes'
  BY DEF FormatInv, FTypes, Entry
<1>2. \A e : Waiting(e)' => Waiting(e)
  BY DEF Waiting
<1>3. Turns'
  <2>1. \A e \in path_hash' : e[1] \notin toFlush'
    OBVIOUS
  <2>2. shown = <<>> /\ pos = 0 /\ curpath = 0
    BY DEF FormatInv, Turns
  <2>3. \A r \in recs : WellFormed(r.nums) /\ ~Waiting(<<r.path, r.tag>>)
    BY DEF FormatInv, Turns
  <2> QED BY <1>2, <2>1, <2>2, <2>3 DEF Turns
<1>4. Made' /\ Unfolded' /\ Apart'
  BY DEF FormatInv, Turns, Made, Unfolded, Apart
<1>5. Kept'
  <2> SUFFICES ASSUME NEW e \in Entry, ~Waiting(e)', NEW l \in Nat
               PROVE  l \in Lno(e) <=> \/ InRecs(e, l) \/ InRec(e, l)
                                       \/ IsShown(e, l) \/ ToCome(e, l)
    BY DEF Kept, Lno, InRecs, InRec, IsShown, ToCome, Writing
  <2>1. CASE ~Waiting(e)
    BY <2>1 DEF FormatInv, Kept
  <2>2. CASE Waiting(e)
    <3>1. e[1] = f /\ e \in {f} \X Tags
      BY <2>2 DEF Waiting, Entry
    <3>2. table[e] = <<>>
      BY <3>1 DEF Waiting
    <3>3. Lno(e) = {}
      BY <3>2 DEF Lno
    <3>4. ~InRecs(e, l)
      <4> SUFFICES ASSUME NEW r \in recs, Of(r, e) PROVE FALSE
        BY DEF InRecs
      <4>1. e = <<r.path, r.tag>>
        BY DEF Of, Entry
      <4> QED BY <2>2, <4>1 DEF FormatInv, Turns
    <3>5. shown = <<>>
      BY DEF FormatInv, Turns
    <3> QED BY <3>3, <3>4, <3>5 DEF InRec, IsShown, ToCome, Writing
  <2> QED BY <2>1, <2>2
<1>6. Once'
  BY DEF FormatInv, Once, InRecs, InRec, IsShown
<1> QED BY <1>1, <1>3, <1>4, <1>5, <1>6 DEF FormatInv

(* The lines of the next entry stop waiting and are those to come. *)
LEMMA NextEntryKeeps ==
    ASSUME FormatInv, NEW e \in path_hash, NextEntry(e) PROVE FormatInv'
<1> USE DEF NextEntry, pvars, ovars
<1>1. e \in Entry /\ e[1] \in Files /\ e[2] \in Tags /\ e = <<e[1], e[2]>>
  BY DEF FormatInv, FTypes, Entry
<1>2. rec' \in Rec /\ rec'.nums = <<>> /\ rec'.path = e[1] /\ rec'.tag = e[2] /\ rec' # NoRec
  BY <1>1, FormatAssumption DEF Rec, NoRec
<1>3. FTypes'
  BY <1>2 DEF FormatInv, FTypes
<1>4. ~Waiting(e)' /\ Waiting(e) /\ \A d : Waiting(d)' => Waiting(d)
  BY DEF FormatInv, Turns, Waiting
<1>5. pos = 0 /\ shown = <<>> /\ curpath = 0
  BY DEF FormatInv, Turns
<1>6. Turns'
  <2>1. \A r \in recs : WellFormed(r.nums) /\ ~Waiting(<<r.path, r.tag>>)'
    BY <1>4 DEF FormatInv, Turns
  <2>2. ~Waiting(<<rec.path, rec.tag>>)'
    BY <1>1, <1>2, <1>4
  <2>3. \A d \in path_hash' : d[1] \notin toFlush'
    BY DEF FormatInv, Turns
  <2> QED BY <1>2, <1>5, <2>1, <2>2, <2>3 DEF Turns
<1>7. \A r \in recs : ~Of(r, e)
  <2> SUFFICES ASSUME NEW r \in recs, Of(r, e) PROVE FALSE
    OBVIOUS
  <2>1. e = <<r.path, r.tag>>
    BY <1>1 DEF Of
  <2> QED BY <1>4, <2>1 DEF FormatInv, Turns
<1>8. Made'
  <2>1. table[e] \in Seq(Nat \ {0})
    BY <1>1, FormatAssumption DEF FormatInv, FTypes, Entry
  <2>2. \A i \in left' : 0 <= LineAt(i)'
    BY <1>1, <1>2, <2>1 DEF LineAt
  <2>3. left' \subseteq DOMAIN table'[<<rec'.path, rec'.tag>>]
    BY <1>1, <1>2
  <2>4. \A r \in recs' : ~Of(r, <<rec'.path, rec'.tag>>)
    BY <1>1, <1>2, <1>7
  <2> QED BY <1>2, <2>2, <2>3, <2>4 DEF Made
<1>9. Unfolded' /\ Apart'
  BY <1>5 DEF FormatInv, Unfolded, Apart
<1>10. \A d, l : ~InRec(d, l) /\ ~InRec(d, l)' /\ (InRecs(d, l)' <=> InRecs(d, l))
                 /\ ~IsShown(d, l) /\ ~IsShown(d, l)' /\ ~ToCome(d, l)
  BY <1>2, <1>5, EmptyLines DEF InRec, InRecs, IsShown, ToCome, Writing
<1>11. Kept'
  <2> SUFFICES ASSUME NEW d \in Entry, ~Waiting(d)', NEW l \in Nat
               PROVE  l \in Lno(d) <=> InRecs(d, l) \/ ToCome(d, l)'
    BY <1>10 DEF Kept, Lno
  <2>1. CASE d = e
    <3>1. ~InRecs(d, l)
      BY <1>7, <2>1 DEF InRecs
    <3>2. Writing(d)'
      BY <1>2, <1>5, <2>1 DEF Writing, Of
    <3> QED BY <2>1, <3>1, <3>2 DEF ToCome, Lno
  <2>2. CASE d # e
    <3>1. ~Waiting(d)
      BY <2>2 DEF Waiting
    <3>2. ~Writing(d)'
      BY <1>1, <1>2, <2>2 DEF Writing, Of, Entry
    <3> QED BY <1>10, <3>1, <3>2 DEF FormatInv, Kept, ToCome
  <2> QED BY <2>1, <2>2
<1>12. Once'
  BY <1>5, <1>10 DEF Once
<1> QED BY <1>3, <1>6, <1>8, <1>9, <1>11, <1>12 DEF FormatInv

(* A line that is there twice is passed over: it is in the record already. *)
LEMMA SameLineKeeps ==
    ASSUME FormatInv, NEW i \in left, SameLine(i) PROVE FormatInv'
<1> USE DEF SameLine, AtLine, pvars, ovars
<1> DEFINE E == <<rec.path, rec.tag>>
<1>1. FTypes' /\ Turns' /\ Made' /\ Unfolded' /\ Apart'
  BY DEF FormatInv, FTypes, Turns, Made, Unfolded, Apart, Waiting, LineAt
<1>2. \A e, l : /\ InRec(e, l)' <=> InRec(e, l)
                /\ InRecs(e, l)' <=> InRecs(e, l)
                /\ IsShown(e, l)' <=> IsShown(e, l)
                /\ Waiting(e)' <=> Waiting(e)
                /\ Writing(e)' <=> Writing(e)
  BY DEF InRec, InRecs, IsShown, Waiting, Writing
<1>3. last \in Nat /\ last > 0 /\ cont \in Nat
  BY WritingIs DEF FormatInv, FTypes
<1>4. InRec(E, last) \/ InRecs(E, last)
  <2>1. CASE rec.nums = <<>>
    <3>1. PICK r \in recs : Of(r, E) /\ End(r.nums) = last
      BY <1>3, <2>1 DEF FormatInv, Made
    <3>2. r.nums \in Seq(Item) /\ r.nums # <<>>
      BY DEF FormatInv, FTypes, Turns, Rec, WellFormed
    <3> QED BY <3>1, <3>2, EndIs DEF InRecs
  <2>2. CASE rec.nums # <<>>
    <3>1. End(rec.nums) = IF cont = 0 THEN last ELSE cont
      BY <2>2 DEF FormatInv, Made
    <3>2. End(rec.nums) \in LinesOf(rec.nums)
      BY <2>2, WritingIs, EndIs
    <3>3. cont # 0 => cont < last
      BY DEF FormatInv, Made
    <3>4. Of(rec, E)
      BY DEF Of
    <3> QED BY <1>3, <3>1, <3>2, <3>3, <3>4 DEF InRec
  <2> QED BY <2>1, <2>2
<1>5. Kept'
  <2> SUFFICES ASSUME NEW e \in Entry, ~Waiting(e)', NEW l \in Nat
               PROVE  l \in Lno(e) <=> \/ InRecs(e, l) \/ InRec(e, l)
                                       \/ IsShown(e, l) \/ ToCome(e, l)'
    BY <1>2 DEF Kept, Lno
  <2>1. l \in Lno(e) <=> \/ InRecs(e, l) \/ InRec(e, l) \/ IsShown(e, l) \/ ToCome(e, l)
    BY <1>2 DEF FormatInv, Kept
  <2>2. ToCome(e, l)' => ToCome(e, l)
    BY <1>2 DEF ToCome
  <2>3. ASSUME ToCome(e, l), ~ToCome(e, l)' PROVE InRec(e, l) \/ InRecs(e, l)
    <3>1. e = E
      BY <2>3 DEF ToCome, Writing, Of, Entry
    <3>2. PICK j \in left : table[e][j] = l
      BY <2>3 DEF ToCome
    <3>3. j = i
      BY <1>2, <2>3, <3>2 DEF ToCome
    <3> QED BY <1>4, <3>1, <3>2, <3>3 DEF LineAt
  <2> QED BY <2>1, <2>2, <2>3
<1>6. Once'
  BY <1>2 DEF FormatInv, Once
<1> QED BY <1>1, <1>5, <1>6 DEF FormatInv

(* A line that flush_pool takes is in the record at hand, or in one that   *)
(* was put; the other entries are not concerned.                           *)
LEMMA LineKept ==
    ASSUME FormatInv, NEW i \in left, AtLine(i),
           NEW e \in Entry, e = <<rec.path, rec.tag>>,
           rec' # NoRec, rec'.path = rec.path, rec'.tag = rec.tag,
           recs \subseteq recs', \A r \in recs' \ recs : Of(r, e),
           \A l \in Nat : InRecs(e, l)' \/ InRec(e, l)' <=>
                          InRecs(e, l) \/ InRec(e, l) \/ l = LineAt(i)
    PROVE  Kept' /\ Once'
<1> USE DEF AtLine, pvars, ovars
<1>1. shown = <<>> /\ shown' = <<>>
  BY WritingIs
<1>2. \A d, l : ~IsShown(d, l) /\ ~IsShown(d, l)'
  BY <1>1 DEF IsShown
<1>3. Once'
  BY <1>1, <1>2 DEF Once
<1>4. Kept'
  <2> SUFFICES ASSUME NEW d \in Entry, ~Waiting(d)', NEW l \in Nat
               PROVE  l \in Lno(d) <=> InRecs(d, l)' \/ InRec(d, l)' \/ ToCome(d, l)'
    BY <1>2 DEF Kept, Lno
  <2>1. l \in Lno(d) <=> InRecs(d, l) \/ InRec(d, l) \/ ToCome(d, l)
    BY <1>2 DEF FormatInv, Kept, Waiting
  <2>2. CASE d = e
    <3>1. Writing(e) /\ Writing(e)'
      BY DEF Writing, Of
    <3>2. ToCome(e, l) <=> \E j \in left : table[e][j] = l
      BY <3>1 DEF ToCome
    <3>3. ToCome(e, l)' <=> \E j \in left \ {i} : table[e][j] = l
      BY <3>1 DEF ToCome
    <3>4. ToCome(e, l) <=> ToCome(e, l)' \/ l = LineAt(i)
      <4>1. LineAt(i) = table[e][i]
        BY DEF LineAt
      <4>2. ASSUME ToCome(e, l), ~ToCome(e, l)' PROVE l = LineAt(i)
        BY <3>2, <3>3, <4>1, <4>2
      <4> QED BY <3>2, <3>3, <4>1, <4>2
    <3> QED BY <2>1, <2>2, <3>4
  <2>3. CASE d # e
    <3>1. ~Of(rec, d) /\ ~Of(rec', d)
      BY <2>3 DEF Of, Entry
    <3>2. InRecs(d, l)' <=> InRecs(d, l)
      <4>1. \A r : Of(r, e) => ~Of(r, d)
        BY <2>3 DEF Of, Entry
      <4> QED BY <4>1 DEF InRecs
    <3>3. ~ToCome(d, l) /\ ~ToCome(d, l)' /\ ~InRec(d, l) /\ ~InRec(d, l)'
      BY <3>1 DEF ToCome, Writing, InRec
    <3> QED BY <2>1, <3>2, <3>3
  <2> QED BY <2>2, <2>3
<1> QED BY <1>3, <1>4

(* What holds of each record that is in the tag file. *)
LEMMA RecordIs ==
    ASSUME FTypes, Turns, NEW r \in recs
    PROVE  /\ r \in Rec /\ r.nums \in Seq(Item) /\ r.path \in Files /\ r.tag \in Tags
           /\ WellFormed(r.nums) /\ r.nums # <<>>
           /\ <<r.path, r.tag>> \in Entry /\ ~Waiting(<<r.path, r.tag>>)
           /\ First(r) \in Nat \ {0} /\ End(r.nums) \in Nat /\ First(r) <= End(r.nums)
           /\ \A l \in LinesOf(r.nums) : l \in Nat \ {0} /\ First(r) <= l /\ l <= End(r.nums)
<1>1. r \in Rec /\ WellFormed(r.nums)
  BY DEF FTypes, Turns
<1>2. r.nums \in Seq(Item) /\ r.path \in Files /\ r.tag \in Tags /\ <<r.path, r.tag>> \in Entry
  BY <1>1 DEF Rec, Entry
<1>3. r.nums # <<>> /\ ~Waiting(<<r.path, r.tag>>)
  BY <1>1 DEF WellFormed, Turns
<1>4. First(r) \in Nat \ {0} /\ First(r) <= End(r.nums) /\ \A l \in LinesOf(r.nums) : First(r) <= l
  BY <1>1, FirstIs
<1>5. End(r.nums) \in Nat /\ LinesOf(r.nums) \subseteq 1 .. End(r.nums)
  BY <1>2, EndIs
<1>6. \A l \in LinesOf(r.nums) : l \in Nat \ {0} /\ l <= End(r.nums)
  BY <1>5
<1> QED BY <1>1, <1>2, <1>3, <1>4, <1>5, <1>6

(* A line that follows opens or extends the range. *)
LEMMA LineFollowsKeeps ==
    ASSUME FormatInv, NEW i \in left, LineFollows(i) PROVE FormatInv'
<1> USE DEF AtLine, pvars, ovars
<1> DEFINE n == LineAt(i)
<1>1. PICK e \in Entry : e = <<rec.path, rec.tag>>
  BY WritingIs DEF LineFollows
<1>2. /\ rec # NoRec /\ pos = 0 /\ AtLine(i) /\ last > 0 /\ n = last + 1 /\ last' = n /\ recs' = recs
      /\ left' = left \ {i} /\ \A j \in left : n <= LineAt(j)
  BY DEF LineFollows, OneMore
<1>3. rec \in Rec /\ rec.nums \in Seq(Item) /\ n \in Nat \ {0}
  BY <1>2, WritingIs
<1>4. last \in Nat /\ cont \in Nat
  BY DEF FormatInv, FTypes
<1>5. \/ cont # 0 /\ rec' = rec /\ cont' = cont
      \/ /\ cont = 0 /\ rec.nums = <<>> /\ cont' = 0
         /\ rec' = [rec EXCEPT !.nums = <<Num("head", n)>>]
      \/ cont = 0 /\ rec.nums # <<>> /\ cont' = last /\ rec' = rec
  BY DEF LineFollows
<1>6. /\ rec' \in Rec /\ rec' # NoRec /\ rec'.path = rec.path /\ rec'.tag = rec.tag
      /\ rec'.nums = IF rec.nums = <<>> THEN <<Num("head", n)>> ELSE rec.nums
      /\ cont' \in Nat
  <2>1. CASE cont = 0 /\ rec.nums = <<>>
    <3>1. <<Num("head", n)>> \in Seq(Item)
      BY <1>3, HeadLine
    <3>2. rec' = [tag |-> rec.tag, path |-> rec.path, nums |-> <<Num("head", n)>>]
      BY <1>3, <1>5, <2>1 DEF Rec
    <3>3. <<Num("head", n)>> # <<>>
      OBVIOUS
    <3> HIDE DEF n
    <3> QED BY <1>3, <1>4, <1>5, <2>1, <3>1, <3>2, <3>3 DEF Rec, NoRec
  <2>2. CASE ~(cont = 0 /\ rec.nums = <<>>)
    <3>1. cont # 0 => rec.nums # <<>>
      BY <1>2 DEF FormatInv, Made
    <3> QED BY <1>2, <1>3, <1>4, <1>5, <2>2, <3>1
  <2> QED BY <2>1, <2>2
<1> HIDE DEF n
<1>7. FTypes'
  BY <1>2, <1>3, <1>6 DEF FormatInv, FTypes, LineFollows
<1>8. Turns'
  <2>1. \A d : Waiting(d)' = Waiting(d)
    BY <1>2 DEF Waiting
  <2> QED BY <1>2, <1>6, <2>1 DEF FormatInv, Turns
<1>9. Unfolded' /\ Apart'
  BY <1>2 DEF FormatInv, Unfolded, Apart
<1>10. rec.nums = <<>> =>
          /\ WellFormed(rec'.nums) /\ End(rec'.nums) = n /\ First(rec') = n
          /\ LinesOf(rec'.nums) = {n} /\ LinesOf(rec.nums) = {} /\ cont = 0
  <2>1. cont # 0 => rec.nums # <<>>
    BY <1>2 DEF FormatInv, Made
  <2> QED BY <1>3, <1>6, <2>1, HeadLine, EmptyLines DEF First
<1>11. rec.nums # <<>> =>
          /\ WellFormed(rec.nums) /\ First(rec') = First(rec) /\ rec'.nums = rec.nums
          /\ End(rec.nums) = IF cont = 0 THEN last ELSE cont
          /\ cont' = IF cont = 0 THEN last ELSE cont
          /\ cont # 0 => cont < last
  BY <1>2, <1>5, <1>6 DEF FormatInv, Made, First
<1>12. Made'
  <2>1. left' \subseteq DOMAIN table'[<<rec'.path, rec'.tag>>]
    BY <1>2, <1>6 DEF FormatInv, Made
  <2>2. \A j \in left' : LineAt(j)' = LineAt(j) /\ last' <= LineAt(j)
    BY <1>2, <1>6 DEF LineAt
  <2>3. rec'.nums # <<>> => WellFormed(rec'.nums) /\ End(rec'.nums) = IF cont' = 0 THEN last' ELSE cont'
    BY <1>2, <1>4, <1>5, <1>6, <1>10, <1>11
  <2>4. cont' # 0 => rec'.nums # <<>> /\ cont' < last'
    BY <1>2, <1>4, <1>5, <1>6, <1>10, <1>11
  <2>5. ASSUME NEW r \in recs, Of(r, e)
        PROVE  End(r.nums) <= last' /\ End(r.nums) < First(rec')
    <3>1. End(r.nums) <= last /\ (rec.nums # <<>> => End(r.nums) < First(rec))
      BY <1>1, <1>2, <2>5 DEF FormatInv, Made
    <3>2. End(r.nums) \in Nat
      BY RecordIs DEF FormatInv
    <3> QED BY <1>2, <1>4, <1>10, <1>11, <3>1, <3>2
  <2>6. rec'.nums # <<>>
    BY <1>6
  <2> QED BY <1>1, <1>2, <1>6, <2>1, <2>2, <2>3, <2>4, <2>5, <2>6 DEF Made
<1>13. ASSUME NEW l \in Nat
       PROVE  InRecs(e, l)' \/ InRec(e, l)' <=> InRecs(e, l) \/ InRec(e, l) \/ l = n
  <2>1. InRecs(e, l)' <=> InRecs(e, l)
    BY <1>2 DEF InRecs
  <2>2. Of(rec, e) /\ Of(rec', e)
    BY <1>1, <1>6 DEF Of
  <2>3. InRec(e, l) <=> l \in LinesOf(rec.nums) \/ (cont # 0 /\ cont < l /\ l <= last)
    BY <1>2, <2>2 DEF InRec
  <2>4. InRec(e, l)' <=> l \in LinesOf(rec'.nums) \/ (cont' # 0 /\ cont' < l /\ l <= n)
    BY <1>2, <1>6, <2>2 DEF InRec
  <2>5. InRec(e, l)' <=> InRec(e, l) \/ l = n
    <3>1. CASE rec.nums = <<>>
      BY <1>5, <1>10, <2>3, <2>4, <3>1
    <3>2. CASE rec.nums # <<>>
      BY <1>2, <1>4, <1>11, <2>3, <2>4, <3>2
    <3> QED BY <3>1, <3>2
  <2> QED BY <2>1, <2>5
<1>14. Kept' /\ Once'
  <2>1. AtLine(i) /\ recs \subseteq recs' /\ \A r \in recs' \ recs : Of(r, e)
    BY <1>2
  <2>2. \A l \in Nat : InRecs(e, l)' \/ InRec(e, l)' <=>
                       InRecs(e, l) \/ InRec(e, l) \/ l = LineAt(i)
    BY <1>13 DEF n
  <2> QED BY <1>1, <1>6, <2>1, <2>2, LineKept
<1> QED BY <1>7, <1>8, <1>9, <1>12, <1>14 DEF FormatInv

(* dbop_put_tag of the record at hand, with the numbers q. *)
LEMMA PutIs ==
    ASSUME FormatInv, rec # NoRec, pos = 0, NEW q \in Seq(Item), WellFormed(q),
           rec.nums # <<>> => Head(q) = Head(rec.nums),
           rec.nums = <<>> => Head(q).n \in Nat /\ Head(q).n > last,
           NEW w, w = [rec EXCEPT !.nums = q]
    PROVE  /\ w \in Rec /\ w.path = rec.path /\ w.tag = rec.tag /\ w.nums = q /\ w # NoRec
           /\ \A r \in recs : Of(r, <<rec.path, rec.tag>>) => End(r.nums) < First(w)
           /\ \A r \in recs \cup {w} : WellFormed(r.nums) /\ ~Waiting(<<r.path, r.tag>>)
           /\ recs' = recs \cup {w} => Apart'
<1>1. rec \in Rec /\ last \in Nat
  BY WritingIs DEF FormatInv, FTypes
<1>2. w = [tag |-> rec.tag, path |-> rec.path, nums |-> q]
  BY <1>1 DEF Rec
<1>3. w \in Rec /\ w.path = rec.path /\ w.tag = rec.tag /\ w.nums = q /\ q # <<>>
  BY <1>1, <1>2 DEF Rec, WellFormed
<1>4. w # NoRec
  BY <1>3 DEF NoRec
<1>5. ASSUME NEW r \in recs, Of(r, <<rec.path, rec.tag>>) PROVE End(r.nums) < First(w)
  <2>1. End(r.nums) <= last /\ (rec.nums # <<>> => End(r.nums) < First(rec))
    BY <1>5 DEF FormatInv, Made
  <2>2. End(r.nums) \in Nat
    BY RecordIs DEF FormatInv
  <2>3. CASE rec.nums = <<>>
    BY <1>1, <1>3, <2>1, <2>2, <2>3 DEF First
  <2>4. CASE rec.nums # <<>>
    BY <1>3, <2>1, <2>4 DEF First
  <2> QED BY <2>3, <2>4
<1>6. \A r \in recs \cup {w} : WellFormed(r.nums) /\ ~Waiting(<<r.path, r.tag>>)
  BY <1>3, RecordIs, WritingIs DEF FormatInv
<1>7. ASSUME recs' = recs \cup {w} PROVE Apart'
  <2> SUFFICES ASSUME NEW x \in recs', NEW y \in recs', x # y, x.tag = y.tag, x.path = y.path
               PROVE  End(x.nums) < First(y) \/ End(y.nums) < First(x)
    BY DEF Apart
  <2>1. CASE x \in recs /\ y \in recs
    BY <2>1 DEF FormatInv, Apart
  <2>2. CASE x = w \/ y = w
    BY <1>3, <1>5, <1>7, <2>2 DEF Of
  <2> QED BY <1>7, <2>1, <2>2
<1> QED BY <1>3, <1>4, <1>5, <1>6, <1>7

(* A line that is apart ends the range; and a record that has become too   *)
(* long is put, so that the next begins behind its end.                    *)
LEMMA LineApartKeeps ==
    ASSUME FormatInv, NEW i \in left, LineApart(i) PROVE FormatInv'
<1> USE DEF AtLine, pvars, ovars
<1> DEFINE n == LineAt(i)
           q == Added(i)
           w == [rec EXCEPT !.nums = q]
<1>1. PICK e \in Entry : e = <<rec.path, rec.tag>>
  BY WritingIs DEF LineApart
<1>2. /\ rec # NoRec /\ pos = 0 /\ AtLine(i) /\ n # last /\ last' = n /\ cont' = 0
      /\ left' = left \ {i} /\ \A j \in left : n <= LineAt(j)
  BY DEF LineApart
<1>3. rec \in Rec /\ n \in Nat \ {0} /\ last <= n
  BY <1>2, WritingIs
<1>4. last \in Nat /\ cont \in Nat /\ last < n
  BY <1>2, <1>3 DEF FormatInv, FTypes
<1>5. /\ q \in Seq(Item) /\ q # <<>> /\ WellFormed(q) /\ End(q) = n
      /\ rec.nums # <<>> => Head(q) = Head(rec.nums)
      /\ rec.nums = <<>> => Head(q).n = n
      /\ \A l \in Nat : l \in LinesOf(q) <=>
             \/ l \in LinesOf(rec.nums) \/ (cont # 0 /\ cont < l /\ l <= last)
             \/ l = n
  BY <1>2, AddedIs
<1>6. \/ recs' = recs \cup {w} /\ rec' = [rec EXCEPT !.nums = <<>>]
      \/ recs' = recs /\ rec' = w
  BY DEF LineApart
<1> HIDE DEF n, q
<1>7. /\ w \in Rec /\ w.path = rec.path /\ w.tag = rec.tag /\ w.nums = q /\ w # NoRec
      /\ \A r \in recs : Of(r, <<rec.path, rec.tag>>) => End(r.nums) < First(w)
      /\ \A r \in recs \cup {w} : WellFormed(r.nums) /\ ~Waiting(<<r.path, r.tag>>)
      /\ recs' = recs \cup {w} => Apart'
  <2>1. rec.nums = <<>> => Head(q).n \in Nat /\ Head(q).n > last
    BY <1>3, <1>4, <1>5
  <2> HIDE DEF w
  <2>2. w = [rec EXCEPT !.nums = q]
    BY DEF w
  <2> QED BY <1>2, <1>5, <2>1, <2>2, PutIs
<1>8. /\ rec' \in Rec /\ rec' # NoRec /\ rec'.path = rec.path /\ rec'.tag = rec.tag
      /\ rec'.nums = <<>> \/ rec' = w
  <2>1. CASE rec' = [rec EXCEPT !.nums = <<>>]
    <3>1. rec' = [tag |-> rec.tag, path |-> rec.path, nums |-> <<>>]
      BY <1>3, <2>1 DEF Rec
    <3> QED BY <1>3, <3>1, FormatAssumption DEF Rec, NoRec
  <2>2. CASE rec' = w
    BY <1>7, <2>2
  <2> QED BY <1>6, <2>1, <2>2
<1> HIDE DEF w
<1>9. \/ recs' = recs \cup {w} /\ rec'.nums = <<>>
      \/ recs' = recs /\ rec' = w
  <2>1. ASSUME rec' = [rec EXCEPT !.nums = <<>>] PROVE rec'.nums = <<>>
    BY <1>3, <2>1 DEF Rec
  <2> QED BY <1>6, <2>1
<1>10. FTypes'
  BY <1>2, <1>3, <1>7, <1>8, <1>9 DEF FormatInv, FTypes, LineApart
<1>11. Turns'
  <2>1. \A d : Waiting(d)' = Waiting(d)
    BY <1>2 DEF Waiting
  <2>2. \A r \in recs' : WellFormed(r.nums) /\ ~Waiting(<<r.path, r.tag>>)
    BY <1>7, <1>9
  <2> QED BY <1>2, <1>8, <2>1, <2>2 DEF FormatInv, Turns
<1>12. Unfolded' /\ Apart'
  <2>1. Unfolded'
    BY <1>2 DEF Unfolded
  <2>2. recs' = recs => Apart'
    BY DEF FormatInv, Apart
  <2> QED BY <1>7, <1>9, <2>1, <2>2
<1>13. \A r \in recs : Of(r, e) => End(r.nums) <= n /\ End(r.nums) < First(w)
  <2>1. \A r \in recs : Of(r, e) => End(r.nums) <= last
    BY <1>1, <1>2 DEF FormatInv, Made
  <2>2. \A r \in recs : End(r.nums) \in Nat
    BY RecordIs DEF FormatInv
  <2> QED BY <1>1, <1>3, <1>4, <1>7, <2>1, <2>2
<1>14. Made'
  <2>1. left' \subseteq DOMAIN table'[<<rec'.path, rec'.tag>>]
    BY <1>2, <1>8 DEF FormatInv, Made
  <2>2. \A j \in left' : LineAt(j)' = LineAt(j) /\ last' <= LineAt(j)
    BY <1>2, <1>8 DEF LineAt
  <2>3. rec'.nums # <<>> => rec' = w /\ WellFormed(rec'.nums) /\ End(rec'.nums) = last'
    BY <1>2, <1>5, <1>7, <1>8
  <2>4. \A r \in recs' : Of(r, e) => End(r.nums) <= n
    BY <1>3, <1>5, <1>7, <1>9, <1>13
  <2>5. rec'.nums # <<>> => recs' = recs
    BY <1>9
  <2>6. rec'.nums = <<>> => \E r \in recs' : Of(r, e) /\ End(r.nums) = n
    BY <1>1, <1>5, <1>7, <1>9 DEF Of
  <2> QED BY <1>1, <1>2, <1>8, <1>13, <2>1, <2>2, <2>3, <2>4, <2>5, <2>6 DEF Made
<1>15. ASSUME NEW l \in Nat
       PROVE  InRecs(e, l)' \/ InRec(e, l)' <=> InRecs(e, l) \/ InRec(e, l) \/ l = n
  <2>1. Of(rec, e) /\ Of(rec', e) /\ Of(w, e)
    BY <1>1, <1>7, <1>8 DEF Of
  <2>2. InRec(e, l) <=> l \in LinesOf(rec.nums) \/ (cont # 0 /\ cont < l /\ l <= last)
    BY <1>2, <2>1 DEF InRec
  <2>3. InRec(e, l)' <=> l \in LinesOf(rec'.nums)
    BY <1>2, <1>8, <2>1 DEF InRec
  <2>4. l \in LinesOf(w.nums) <=> InRec(e, l) \/ l = n
    BY <1>5, <1>7, <2>2
  <2>5. CASE recs' = recs /\ rec' = w
    <3>1. InRecs(e, l)' <=> InRecs(e, l)
      BY <2>5 DEF InRecs
    <3> QED BY <2>3, <2>4, <2>5, <3>1
  <2>6. CASE recs' = recs \cup {w} /\ rec'.nums = <<>>
    <3>1. InRecs(e, l)' <=> InRecs(e, l) \/ l \in LinesOf(w.nums)
      BY <2>1, <2>6 DEF InRecs
    <3>2. ~InRec(e, l)'
      BY <2>3, <2>6, EmptyLines
    <3> QED BY <2>4, <3>1, <3>2
  <2> QED BY <1>9, <2>5, <2>6
<1>16. Kept' /\ Once'
  <2>1. AtLine(i) /\ recs \subseteq recs' /\ \A r \in recs' \ recs : Of(r, e)
    BY <1>1, <1>2, <1>7, <1>9 DEF Of
  <2>2. \A l \in Nat : InRecs(e, l)' \/ InRec(e, l)' <=>
                       InRecs(e, l) \/ InRec(e, l) \/ l = LineAt(i)
    BY <1>15 DEF n
  <2> QED BY <1>1, <1>8, <2>1, <2>2, LineKept
<1> QED BY <1>10, <1>11, <1>12, <1>14, <1>16 DEF FormatInv

(* At the end of the entry the range is closed and the record put. *)
LEMMA EntryEndKeeps ==
    ASSUME FormatInv, EntryEnd PROVE FormatInv'
<1> USE DEF pvars, ovars, wvars
<1> DEFINE q == RangeEnd(rec.nums)
           w == [rec EXCEPT !.nums = q]
<1>1. /\ rec # NoRec /\ pos = 0 /\ left = {} /\ rec' = NoRec
      /\ recs' = IF q = <<>> THEN recs ELSE recs \cup {w}
      /\ UNCHANGED <<table, lines, gone, toFlush, path_hash, left, curpath, curtag, cur_lineno,
                     last_lineno, fp, src, shown, pos, last, cont>>
  BY DEF EntryEnd
<1>2. PICK e \in Entry : e = <<rec.path, rec.tag>>
  BY <1>1, WritingIs
<1>3. /\ q \in Seq(Item) /\ (q = <<>> <=> rec.nums = <<>>)
      /\ rec.nums # <<>> => WellFormed(q) /\ Head(q) = Head(rec.nums) /\ End(q) = last
      /\ \A l \in Nat : l \in LinesOf(q) <=>
             l \in LinesOf(rec.nums) \/ (cont # 0 /\ cont < l /\ l <= last)
  BY <1>1, RangeEndIs
<1> HIDE DEF q
<1>4. q # <<>> =>
      /\ w \in Rec /\ w.path = rec.path /\ w.tag = rec.tag /\ w.nums = q
      /\ \A r \in recs \cup {w} : WellFormed(r.nums) /\ ~Waiting(<<r.path, r.tag>>)
      /\ recs' = recs \cup {w} => Apart'
  <2> HIDE DEF w
  <2>1. w = [rec EXCEPT !.nums = q]
    BY DEF w
  <2> QED BY <1>1, <1>3, <2>1, PutIs
<1> HIDE DEF w
<1>5. FTypes'
  BY <1>1, <1>4 DEF FormatInv, FTypes
<1>6. Turns'
  <2>1. \A d : Waiting(d)' = Waiting(d)
    BY <1>1 DEF Waiting
  <2>2. \A r \in recs' : WellFormed(r.nums) /\ ~Waiting(<<r.path, r.tag>>)
    BY <1>1, <1>4 DEF FormatInv, Turns
  <2> QED BY <1>1, <2>1, <2>2 DEF FormatInv, Turns
<1>7. Made' /\ Unfolded'
  BY <1>1 DEF Made, Unfolded
<1>8. Apart'
  BY <1>1, <1>4 DEF FormatInv, Apart
<1>9. shown = <<>>
  BY <1>1, WritingIs
<1>10. Once'
  BY <1>1, <1>9 DEF Once, IsShown
<1>11. Kept'
  <2> SUFFICES ASSUME NEW d \in Entry, ~Waiting(d), NEW l \in Nat
               PROVE  l \in Lno(d) <=> InRecs(d, l)'
    BY <1>1, <1>9 DEF Kept, Lno, InRec, IsShown, ToCome, Writing, Waiting
  <2>1. l \in Lno(d) <=> InRecs(d, l) \/ InRec(d, l)
    BY <1>1, <1>9 DEF FormatInv, Kept, IsShown, ToCome
  <2>2. InRec(d, l) => d = e
    BY <1>2 DEF InRec, Of, Entry
  <2>3. InRec(e, l) <=> l \in LinesOf(q)
    BY <1>1, <1>2, <1>3 DEF InRec, Of
  <2>4. CASE q = <<>>
    <3>1. ~InRec(d, l)
      BY <2>2, <2>3, <2>4, EmptyLines
    <3> QED BY <1>1, <2>1, <2>4, <3>1 DEF InRecs
  <2>5. CASE q # <<>>
    <3>1. Of(w, d) <=> d = e
      BY <1>2, <1>4, <2>5 DEF Of, Entry
    <3>2. InRecs(d, l)' <=> InRecs(d, l) \/ (d = e /\ l \in LinesOf(q))
      BY <1>1, <1>4, <2>5, <3>1 DEF InRecs
    <3> QED BY <2>1, <2>2, <2>3, <3>2
  <2> QED BY <2>4, <2>5
<1> QED BY <1>5, <1>6, <1>7, <1>8, <1>10, <1>11 DEF FormatInv
-----------------------------------------------------------------------------
(* What a number of a record stands for. *)
LEMMA NumberIs ==
    ASSUME NEW s \in Seq(Item), NEW i \in 1 .. Len(s)
    PROVE  /\ Val(s)[i - 1] \in Nat /\ Val(s)[i] \in Nat /\ Val(s)[i] = Val(s)[i - 1] + s[i].n
           /\ s[i] \in Item /\ s[i].n \in Nat \ {0} /\ Val(s)[i - 1] < Val(s)[i]
           /\ s[i].op = "-" =>
                 \A l \in Nat : Val(s)[i - 1] < l /\ l <= Val(s)[i] => l \in LinesOf(s)
           /\ s[i].op # "-" =>
                 /\ Val(s)[i] \in LinesOf(s)
                 /\ \A l \in LinesOf(s) : l > Val(s)[i - 1] => l >= Val(s)[i]
<1>1. /\ Len(s) \in Nat /\ i - 1 \in 0 .. Len(s) /\ i \in 0 .. Len(s) /\ i - 1 < i
      /\ Len(s) \in 0 .. Len(s)
  BY ItemIs
<1>2. /\ Val(s)[i - 1] \in Nat /\ Val(s)[i] \in Nat /\ Val(s)[i] = Val(s)[i - 1] + s[i].n
      /\ s[i] \in Item /\ s[i].n \in Nat \ {0} /\ Val(s)[i - 1] < Val(s)[i]
  BY <1>1, ValGrows, ItemIs
<1>3. Val(s)[i] <= End(s) /\ End(s) \in Nat
  <2>1. i = Len(s) \/ Val(s)[i] < Val(s)[Len(s)]
    BY <1>1, ValGrows
  <2> QED BY <1>2, <2>1, EndIs DEF End
<1>4. ASSUME s[i].op = "-", NEW l \in Nat, Val(s)[i - 1] < l, l <= Val(s)[i]
      PROVE  l \in LinesOf(s)
  <2>1. Has(s, i, l)
    BY <1>4 DEF Has
  <2>2. l \in 1 .. End(s)
    BY <1>2, <1>3, <1>4
  <2> QED BY <2>1, <2>2 DEF LinesOf
<1>5. ASSUME s[i].op # "-" PROVE Val(s)[i] \in LinesOf(s)
  <2>1. Has(s, i, Val(s)[i])
    BY <1>5 DEF Has
  <2>2. Val(s)[i] \in 1 .. End(s)
    BY <1>2, <1>3
  <2> QED BY <2>1, <2>2 DEF LinesOf
<1>6. ASSUME s[i].op # "-", NEW l \in LinesOf(s), l > Val(s)[i - 1] PROVE l >= Val(s)[i]
  <2>1. l \in Nat
    BY <1>3 DEF LinesOf
  <2>2. PICK j \in 1 .. Len(s) : Has(s, j, l)
    BY DEF LinesOf
  <2>3. /\ j - 1 \in 0 .. Len(s) /\ j \in 0 .. Len(s)
        /\ Val(s)[j - 1] \in Nat /\ Val(s)[j] \in Nat /\ Val(s)[j - 1] < Val(s)[j]
    <3>1. j - 1 \in 0 .. Len(s) /\ j \in 0 .. Len(s) /\ j - 1 < j
      BY <1>1
    <3> QED BY <3>1, ValGrows
  <2>4. CASE j = i
    BY <1>6, <2>2, <2>4, <2>1, <1>2 DEF Has
  <2>5. CASE j < i
    <3>1. j = i - 1 \/ Val(s)[j] < Val(s)[i - 1]
      BY <1>1, <2>3, <2>5, ValGrows
    <3>2. l <= Val(s)[j]
      BY <2>1, <2>2, <2>3 DEF Has
    <3> QED BY <1>2, <1>6, <2>1, <2>3, <3>1, <3>2
  <2>6. CASE j > i
    <3>1. j - 1 = i \/ Val(s)[i] < Val(s)[j - 1]
      BY <1>1, <2>3, <2>6, ValGrows
    <3>2. l > Val(s)[j - 1]
      BY <2>1, <2>2, <2>3 DEF Has
    <3> QED BY <1>2, <2>1, <2>3, <3>1, <3>2
  <2> QED BY <2>4, <2>5, <2>6
<1> QED BY <1>2, <1>4, <1>5, <1>6

(* The record with the least first line is the next: what is shown of its  *)
(* tag and file so far lies before it.                                     *)
LEMMA ShowRecordKeeps ==
    ASSUME FormatInv, NEW q \in recs, ShowRecord(q) PROVE FormatInv'
<1> USE DEF pvars, wvars
<1>1. /\ toFlush = {} /\ path_hash = {} /\ rec = NoRec /\ rec' = q /\ recs' = recs \ {q}
      /\ pos' = 1 /\ last' = 0 /\ cont' = 0 /\ \A r \in recs : ~Before(r, q)
      /\ UNCHANGED <<table, lines, gone, toFlush, path_hash, left, src, shown>>
  BY DEF ShowRecord
<1>2. /\ q \in Rec /\ q.nums \in Seq(Item) /\ q.path \in Files /\ q.tag \in Tags
      /\ WellFormed(q.nums) /\ q.nums # <<>> /\ <<q.path, q.tag>> \in Entry
  BY RecordIs DEF FormatInv
<1>3. q # NoRec /\ pos = 0
  BY <1>1, <1>2 DEF NoRec, FormatInv, Turns
<1>4. FTypes'
  <2>1. /\ curpath' \in Nat /\ curtag' \in Nat /\ cur_lineno' \in Nat /\ last_lineno' \in Nat
        /\ fp' \in {"open", "NULL"}
    <3>1. KeyOf[q.tag] \in Nat /\ q.path \in Nat
      BY <1>2, FormatAssumption
    <3>2. /\ curpath \in Nat /\ curtag \in Nat /\ cur_lineno \in Nat /\ last_lineno \in Nat
          /\ fp \in {"open", "NULL"}
      BY DEF FormatInv, FTypes
    <3> QED BY <3>1, <3>2 DEF ShowRecord, OpenSource, ChangeTag, KeepTag, Coded
  <2> QED BY <1>1, <1>2, <2>1 DEF FormatInv, FTypes
<1>5. Turns'
  <2>1. \A d : ~Waiting(d)'
    BY <1>1 DEF Waiting
  <2> QED BY <1>1, <1>3, <2>1 DEF FormatInv, Turns
<1>6. Made' /\ Apart'
  BY <1>1 DEF FormatInv, Made, Apart
<1>7. Unfolded'
  <2>1. Val(q.nums)[0] = 0 /\ 1 <= Len(q.nums) + 1
    BY <1>2, ValGrows, ItemIs
  <2>2. ASSUME NEW r \in recs \ {q}, Of(r, <<q.path, q.tag>>) PROVE End(q.nums) < First(r)
    <3>1. End(q.nums) < First(r) \/ End(r.nums) < First(q)
      BY <2>2 DEF FormatInv, Apart, Of
    <3>2. ~(First(r) < First(q))
      BY <1>1, <2>2 DEF Before, Of
    <3>3. First(r) \in Nat /\ First(q) \in Nat /\ End(r.nums) \in Nat /\ First(r) <= End(r.nums)
      BY RecordIs DEF FormatInv
    <3> QED BY <3>1, <3>2, <3>3
  <2> QED BY <1>1, <1>2, <2>1, <2>2 DEF Unfolded
<1>8. ASSUME NEW d, NEW l \in Nat
      PROVE  /\ InRecs(d, l)' \/ InRec(d, l)' <=> InRecs(d, l)
             /\ ~InRec(d, l) /\ ~ToCome(d, l) /\ ~ToCome(d, l)' /\ (IsShown(d, l)' <=> IsShown(d, l))
  <2>1. InRec(d, l)' <=> Of(q, d) /\ l \in LinesOf(q.nums) /\ l > 0
    BY <1>1, <1>3 DEF InRec
  <2>2. l \in LinesOf(q.nums) => l > 0
    <3>1. l \in LinesOf(q.nums) => l \in Nat \ {0}
      BY RecordIs DEF FormatInv
    <3> QED BY <3>1
  <2>3. InRecs(d, l)' <=> \E r \in recs \ {q} : Of(r, d) /\ l \in LinesOf(r.nums)
    BY <1>1 DEF InRecs
  <2>4. InRecs(d, l) <=> \E r \in recs : Of(r, d) /\ l \in LinesOf(r.nums)
    BY DEF InRecs
  <2>5. InRecs(d, l)' \/ InRec(d, l)' <=> InRecs(d, l)
    BY <2>1, <2>2, <2>3, <2>4
  <2> QED BY <1>1, <2>5 DEF InRec, ToCome, Writing, IsShown
<1>9. Kept'
  <2> SUFFICES ASSUME NEW d \in Entry, NEW l \in Nat
               PROVE  l \in Lno(d) <=> InRecs(d, l) \/ IsShown(d, l)
    BY <1>1, <1>8 DEF Kept, Lno
  <2> QED BY <1>1, <1>8 DEF FormatInv, Kept, Waiting
<1>10. Once'
  BY <1>1, <1>8 DEF FormatInv, Once
<1> QED BY <1>4, <1>5, <1>6, <1>7, <1>9, <1>10 DEF FormatInv

(* While put_compact_format runs. *)
LEMMA ShowingIs ==
    ASSUME FormatInv, pos > 0
    PROVE  /\ rec \in Rec /\ rec # NoRec /\ rec.nums \in Seq(Item)
           /\ rec.path \in Files /\ rec.tag \in Tags /\ <<rec.path, rec.tag>> \in Entry
           /\ WellFormed(rec.nums) /\ End(rec.nums) \in Nat
           /\ toFlush = {} /\ path_hash = {} /\ lines[rec.path] \in Nat
           /\ pos \in 1 .. (Len(rec.nums) + 1) /\ Len(rec.nums) \in Nat
           /\ last \in Nat /\ cont \in Nat
<1>1. rec # NoRec /\ rec \in Rec /\ toFlush = {} /\ path_hash = {}
  BY DEF FormatInv, FTypes, Turns
<1>2. rec.nums \in Seq(Item) /\ rec.path \in Files /\ rec.tag \in Tags /\ <<rec.path, rec.tag>> \in Entry
  BY <1>1 DEF Rec, Entry
<1>3. End(rec.nums) \in Nat /\ Len(rec.nums) \in Nat
  BY <1>2, EndIs
<1>4. lines[rec.path] \in Nat
  BY <1>2, FormatAssumption DEF FormatInv, FTypes
<1>5. WellFormed(rec.nums) /\ pos \in 1 .. (Len(rec.nums) + 1) /\ last \in Nat /\ cont \in Nat
  BY <1>3 DEF FormatInv, FTypes, Unfolded
<1> QED BY <1>1, <1>2, <1>3, <1>4, <1>5

(* Showing the next line of the record. *)
LEMMA ShownKept ==
    ASSUME FormatInv, pos > 0, NEW n \in Nat, n \in LinesOf(rec.nums), n > last,
           \A l \in LinesOf(rec.nums) : l > last => l >= n,
           ShowLine(n), pos' \in Nat, pos' > 0, cont' \in Nat
    PROVE  FTypes' /\ Turns' /\ Made' /\ Apart' /\ Kept' /\ Once'
<1> USE DEF pvars, wvars
<1> DEFINE new == [tag |-> rec.tag, path |-> rec.path, line |-> n, src |-> src']
<1>1. /\ shown' = Append(shown, new) /\ last_lineno' = n /\ last' = n
      /\ UNCHANGED <<table, lines, gone, toFlush, path_hash, left, curpath, curtag, rec, recs>>
  BY DEF ShowLine
<1>2. /\ rec \in Rec /\ rec # NoRec /\ rec.nums \in Seq(Item)
      /\ rec.path \in Files /\ rec.tag \in Tags /\ WellFormed(rec.nums) /\ End(rec.nums) \in Nat
      /\ toFlush = {} /\ path_hash = {} /\ lines[rec.path] \in Nat
  BY ShowingIs
<1>3. src' \in Image /\ cur_lineno' \in Nat /\ fp' \in {"open", "NULL"}
  <2>1. src \in Image /\ cur_lineno \in Nat /\ fp \in {"open", "NULL"}
    BY DEF FormatInv, FTypes
  <2> QED BY <1>2, <2>1 DEF ShowLine, Image
<1>4. new \in Shown /\ new.tag = rec.tag /\ new.path = rec.path /\ new.line = n
  BY <1>2, <1>3 DEF Shown
<1> HIDE DEF new
<1>5. shown \in Seq(Shown)
  BY DEF FormatInv, FTypes
<1>6. /\ shown' \in Seq(Shown) /\ DOMAIN shown = 1 .. Len(shown) /\ Len(shown) \in Nat
      /\ DOMAIN shown' = 1 .. Len(shown) + 1
      /\ \A j \in 1 .. Len(shown) : shown'[j] = shown[j]
      /\ shown'[Len(shown) + 1] = new
  BY <1>1, <1>4, <1>5
<1>7. FTypes'
  BY <1>1, <1>3, <1>6 DEF FormatInv, FTypes
<1>8. Turns'
  <2>1. \A d : ~Waiting(d)'
    BY <1>1, <1>2 DEF Waiting
  <2> QED BY <1>1, <1>2, <2>1 DEF FormatInv, Turns
<1>9. Made' /\ Apart'
  BY <1>1 DEF FormatInv, Made, Apart
<1>10. PICK e \in Entry : e = <<rec.path, rec.tag>>
  BY ShowingIs
<1>11. \A d \in Entry : Of(rec, d) <=> d = e
  BY <1>10 DEF Of, Entry
<1>12. ASSUME NEW d \in Entry, NEW l \in Nat
       PROVE  /\ InRecs(d, l)' <=> InRecs(d, l)
              /\ InRec(d, l)' <=> d = e /\ l \in LinesOf(rec.nums) /\ l > n
              /\ InRec(d, l) <=> d = e /\ l \in LinesOf(rec.nums) /\ l > last
              /\ IsShown(d, l)' <=> IsShown(d, l) \/ (d = e /\ l = n)
              /\ ~ToCome(d, l) /\ ~ToCome(d, l)' /\ ~Waiting(d)
  <2>1. InRecs(d, l)' <=> InRecs(d, l)
    BY <1>1 DEF InRecs
  <2>2. /\ InRec(d, l)' <=> d = e /\ l \in LinesOf(rec.nums) /\ l > n
        /\ InRec(d, l) <=> d = e /\ l \in LinesOf(rec.nums) /\ l > last
    BY <1>1, <1>2, <1>11 DEF InRec
  <2>3. Of(new, d) <=> d = e
    BY <1>4, <1>10 DEF Of, Entry
  <2>4. IsShown(d, l)' <=> \E j \in 1 .. Len(shown) + 1 : Of(shown'[j], d) /\ shown'[j].line = l
    BY <1>6 DEF IsShown
  <2>5. IsShown(d, l)' => IsShown(d, l) \/ (d = e /\ l = n)
    <3> SUFFICES ASSUME NEW j \in 1 .. Len(shown) + 1, Of(shown'[j], d), shown'[j].line = l
                 PROVE  IsShown(d, l) \/ (d = e /\ l = n)
      BY <2>4
    <3>1. CASE j = Len(shown) + 1
      BY <1>4, <1>6, <2>3, <3>1
    <3>2. CASE j # Len(shown) + 1
      <4>1. j \in 1 .. Len(shown)
        BY <1>6, <3>2
      <4> QED BY <1>6, <4>1 DEF IsShown
    <3> QED BY <3>1, <3>2
  <2>6. IsShown(d, l) => IsShown(d, l)'
    <3>1. \A j \in 1 .. Len(shown) : j \in 1 .. Len(shown) + 1
      BY <1>6
    <3> QED BY <1>6, <2>4, <3>1 DEF IsShown
  <2>7. d = e /\ l = n => IsShown(d, l)'
    <3>1. Len(shown) + 1 \in 1 .. Len(shown) + 1
      BY <1>6
    <3> QED BY <1>4, <1>6, <2>3, <2>4, <3>1
  <2> QED BY <1>2, <2>1, <2>2, <2>5, <2>6, <2>7 DEF ToCome, Writing, Waiting
<1>13. Kept'
  <2> SUFFICES ASSUME NEW d \in Entry, NEW l \in Nat
               PROVE  l \in Lno(d) <=> InRecs(d, l)' \/ InRec(d, l)' \/ IsShown(d, l)'
    BY <1>1, <1>12 DEF Kept, Lno
  <2>1. l \in Lno(d) <=> InRecs(d, l) \/ InRec(d, l) \/ IsShown(d, l)
    BY <1>12 DEF FormatInv, Kept
  <2>2. l \in LinesOf(rec.nums) => (l > last <=> l > n \/ l = n)
    <3>1. last \in Nat
      BY DEF FormatInv, FTypes
    <3> QED BY <3>1
  <2> QED BY <1>12, <2>1, <2>2
<1>14. ~InRecs(e, n) /\ ~IsShown(e, n)
  <2>1. InRec(e, n)
    BY <1>12
  <2>2. ~IsShown(e, n)
    BY <2>1 DEF FormatInv, Once
  <2>3. ASSUME NEW r \in recs, Of(r, e) PROVE n \notin LinesOf(r.nums)
    <3>1. End(rec.nums) < First(r)
      BY <1>10, <2>3 DEF FormatInv, Unfolded
    <3>2. n <= End(rec.nums)
      BY <1>2, EndIs
    <3>3. First(r) \in Nat /\ \A l \in LinesOf(r.nums) : First(r) <= l
      BY RecordIs DEF FormatInv
    <3> QED BY <1>2, <3>1, <3>2, <3>3
  <2> QED BY <2>2, <2>3 DEF InRecs
<1>15. Once'
  <2>1. ASSUME NEW j \in DOMAIN shown', NEW k \in DOMAIN shown',
               shown'[j].tag = shown'[k].tag, shown'[j].path = shown'[k].path,
               shown'[j].line = shown'[k].line, j # k
        PROVE  FALSE
    <3>1. \A x \in 1 .. Len(shown) :
              ~(shown'[x].tag = rec.tag /\ shown'[x].path = rec.path /\ shown'[x].line = n)
      BY <1>6, <1>10, <1>14 DEF IsShown, Of
    <3>2. CASE j = Len(shown) + 1
      <4>1. k \in 1 .. Len(shown)
        BY <1>6, <2>1, <3>2
      <4> QED BY <1>4, <1>6, <2>1, <3>1, <3>2, <4>1
    <3>3. CASE k = Len(shown) + 1
      <4>1. j \in 1 .. Len(shown)
        BY <1>6, <2>1, <3>3
      <4> QED BY <1>4, <1>6, <2>1, <3>1, <3>3, <4>1
    <3>4. CASE j # Len(shown) + 1 /\ k # Len(shown) + 1
      <4>1. j \in 1 .. Len(shown) /\ k \in 1 .. Len(shown)
        BY <1>6, <3>4
      <4> QED BY <1>6, <2>1, <4>1 DEF FormatInv, Once
    <3> QED BY <3>2, <3>3, <3>4
  <2>2. ASSUME NEW d \in Entry, NEW l \in Nat, InRecs(d, l)' \/ InRec(d, l)' PROVE ~IsShown(d, l)'
    <3>1. InRecs(d, l) \/ InRec(d, l)
      <4>1. last \in Nat
        BY DEF FormatInv, FTypes
      <4> QED BY <1>12, <2>2, <4>1
    <3>2. ~IsShown(d, l)
      BY <3>1 DEF FormatInv, Once
    <3>3. ~(d = e /\ l = n)
      BY <1>12, <1>14, <2>2
    <3> QED BY <1>12, <3>2, <3>3
  <2> QED BY <2>1, <2>2 DEF Once
<1> QED BY <1>7, <1>8, <1>9, <1>13, <1>15

(* What the loop shows is the next line of the record. *)
(* n is the least line of the record above last. *)
IsNext(n) == /\ n \in LinesOf(rec.nums) /\ n > last
             /\ \A l \in LinesOf(rec.nums) : l > last => l >= n

(* The next line of a range is the next line of the record. *)
LEMMA RangeLineIs ==
    ASSUME FormatInv, RangeLine
    PROVE  /\ last + 1 \in Nat /\ IsNext(last + 1) /\ ShowLine(last + 1)
           /\ pos > 0 /\ pos' = pos /\ cont' = cont /\ Unfolded'
<1> DEFINE s == rec.nums
<1>1. /\ pos > 0 /\ cont > last /\ pos' = pos /\ cont' = cont /\ ShowLine(last + 1)
      /\ last' = last + 1 /\ rec' = rec /\ recs' = recs
  BY DEF RangeLine, ShowLine
<1>2. /\ s \in Seq(Item) /\ pos \in 1 .. (Len(s) + 1) /\ Len(s) \in Nat
      /\ last \in Nat /\ cont \in Nat
  BY <1>1, ShowingIs
<1> HIDE DEF s
<1>3. /\ pos >= 2 /\ s[pos - 1].op = "-" /\ cont = Val(s)[pos - 1] /\ Val(s)[pos - 2] < last
      /\ WellFormed(s)
      /\ \A r \in recs : Of(r, <<rec.path, rec.tag>>) => End(s) < First(r)
  BY <1>1, <1>2 DEF FormatInv, Unfolded, s
<1>4. pos - 1 \in 1 .. Len(s) /\ (pos - 1) - 1 = pos - 2
  BY <1>2, <1>3
<1>5. last + 1 \in LinesOf(s)
  <2>1. \A l \in Nat : Val(s)[pos - 2] < l /\ l <= Val(s)[pos - 1] => l \in LinesOf(s)
    BY <1>2, <1>3, <1>4, NumberIs
  <2>2. Val(s)[pos - 2] \in Nat
    BY <1>2, <1>4, NumberIs
  <2> QED BY <1>1, <1>2, <1>3, <2>1, <2>2
<1>6. \A l \in LinesOf(s) : l > last => l >= last + 1
  <2>1. End(s) \in Nat /\ LinesOf(s) \subseteq 1 .. End(s)
    BY <1>2, EndIs
  <2>2. \A l \in LinesOf(s) : l \in Nat
    BY <2>1
  <2> QED BY <1>2, <2>2
<1>7. IsNext(last + 1)
  BY <1>2, <1>5, <1>6 DEF IsNext, s
<1>8. Unfolded'
  <2>1. Val(s)[pos - 2] \in Nat
    BY <1>2, <1>4, NumberIs
  <2>2. Val(s)[pos - 2] < last + 1 /\ last + 1 <= cont /\ pos <= Len(s) + 1
    BY <1>1, <1>2, <1>3, <2>1
  <2> QED BY <1>1, <1>2, <1>3, <2>2 DEF Unfolded, s
<1> QED BY <1>1, <1>2, <1>7, <1>8

(* The next number, or the first line of the range it ends, is too. *)
LEMMA NumberShows ==
    ASSUME FormatInv, Number
    PROVE  \E n \in Nat : /\ IsNext(n) /\ ShowLine(n)
                          /\ pos > 0 /\ pos' = pos + 1 /\ cont' \in Nat /\ Unfolded'
<1> DEFINE s == rec.nums
           x == s[pos]
<1>1. /\ pos > 0 /\ cont = 0 /\ pos <= Len(s) /\ pos' = pos + 1
      /\ \/ x.op = "head" /\ ShowLine(x.n) /\ UNCHANGED cont
         \/ x.op = "," /\ ShowLine(last + x.n) /\ UNCHANGED cont
         \/ x.op = "-" /\ ShowLine(last + 1) /\ cont' = last + x.n
  BY DEF Number
<1>0. pos' = pos + 1 /\ pos \in Nat
  BY <1>1 DEF FormatInv, FTypes
<1>2. /\ s \in Seq(Item) /\ pos \in 1 .. (Len(s) + 1) /\ Len(s) \in Nat /\ last \in Nat
  BY <1>1, ShowingIs
<1>3. /\ last = Val(s)[pos - 1] /\ WellFormed(s)
      /\ \A r \in recs : Of(r, <<rec.path, rec.tag>>) => End(s) < First(r)
  BY <1>1 DEF FormatInv, Unfolded
<1> HIDE DEF s
<1>4. pos \in 1 .. Len(s) /\ pos + 1 \in Nat
  <2>1. pos <= Len(s)
    BY <1>1
  <2> QED BY <1>2, <2>1
<1>5. /\ Val(s)[pos] \in Nat /\ Val(s)[pos] = last + x.n /\ x \in Item /\ x.n \in Nat \ {0}
      /\ x.op = "-" => \A l \in Nat : last < l /\ l <= Val(s)[pos] => l \in LinesOf(s)
      /\ x.op # "-" => /\ Val(s)[pos] \in LinesOf(s)
                       /\ \A l \in LinesOf(s) : l > last => l >= Val(s)[pos]
  BY <1>2, <1>3, <1>4, NumberIs
<1> HIDE DEF x
<1>6. CASE x.op # "-"
  <2> DEFINE n == Val(s)[pos]
  <2>1. ShowLine(n) /\ cont' = 0
    <3>1. CASE x.op = ","
      BY <1>1, <1>5, <3>1
    <3>2. CASE x.op = "head"
      <4>1. pos = 1
        <5>1. pos \in 2 .. Len(s) => s[pos].op # "head"
          BY <1>3 DEF WellFormed
        <5> QED BY <1>2, <1>4, <3>2, <5>1 DEF x
      <4>2. last = 0
        BY <1>2, <1>3, <4>1, ValGrows
      <4>3. Val(s)[pos] = x.n
        BY <1>5, <4>2
      <4> QED BY <1>1, <3>2, <4>3
    <3> QED BY <1>1, <1>6, <3>1, <3>2
  <2>2. n \in Nat /\ n > last /\ IsNext(n)
    BY <1>2, <1>5, <1>6 DEF IsNext, s
  <2>3. last' = n /\ rec' = rec /\ recs' = recs
    BY <2>1 DEF ShowLine
  <2>4. Unfolded'
    <3>1. pos' - 1 = pos /\ pos' <= Len(s) + 1
      BY <1>0, <1>2, <1>4
    <3>2. cont' = 0 /\ last' = Val(s)[pos' - 1] /\ rec'.nums = s /\ recs' = recs
          /\ rec'.path = rec.path /\ rec'.tag = rec.tag
      BY <2>1, <2>3, <3>1 DEF s
    <3> QED BY <1>3, <3>1, <3>2 DEF Unfolded
  <2> QED BY <1>1, <2>1, <2>2, <2>4
<1>7. CASE x.op = "-"
  <2> DEFINE n == last + 1
  <2>1. ShowLine(n) /\ cont' = last + x.n
    BY <1>1, <1>7
  <2>2. n \in Nat /\ n > last /\ n \in LinesOf(s)
    BY <1>2, <1>5, <1>7
  <2>3. \A l \in LinesOf(s) : l > last => l >= n
    <3>1. End(s) \in Nat /\ LinesOf(s) \subseteq 1 .. End(s)
      BY <1>2, EndIs
    <3>2. \A l \in LinesOf(s) : l \in Nat
      BY <3>1
    <3> QED BY <1>2, <3>2
  <2>4. IsNext(n)
    BY <2>2, <2>3 DEF IsNext, s
  <2>5. last' = n /\ rec' = rec /\ recs' = recs
    BY <2>1 DEF ShowLine
  <2>6. Unfolded'
    <3>1. pos' - 1 = pos /\ pos' - 2 = pos - 1 /\ pos' <= Len(s) + 1 /\ pos' >= 2
      BY <1>0, <1>2, <1>4
    <3>2. /\ cont' = Val(s)[pos] /\ last' <= cont' /\ cont' # 0
          /\ Val(s)[pos - 1] < last'
      BY <1>2, <1>3, <1>5, <2>1, <2>5
    <3>3. rec'.nums = s /\ recs' = recs /\ rec'.path = rec.path /\ rec'.tag = rec.tag
      BY <2>5 DEF s
    <3>4. s[pos].op = "-"
      BY <1>7 DEF x
    <3>5. s[pos' - 1].op = "-" /\ cont' = Val(s)[pos' - 1] /\ Val(s)[pos' - 2] < last'
      BY <3>1, <3>2, <3>4
    <3> QED BY <1>3, <3>1, <3>2, <3>3, <3>5 DEF Unfolded
  <2>7. cont' \in Nat
    BY <1>2, <1>5, <2>1
  <2> QED BY <1>1, <2>1, <2>2, <2>4, <2>6, <2>7
<1> QED BY <1>6, <1>7

(* So showing a line, from a range or from a number, is showing the next. *)
LEMMA LineShownKeeps ==
    ASSUME FormatInv, RangeLine \/ Number PROVE FormatInv'
<1>1. PICK n \in Nat : /\ IsNext(n) /\ ShowLine(n) /\ pos > 0 /\ pos' \in Nat /\ pos' > 0
                       /\ cont' \in Nat /\ Unfolded'
  <2>1. pos \in Nat /\ cont \in Nat
    BY DEF FormatInv, FTypes
  <2>2. CASE RangeLine
    BY <2>1, <2>2, RangeLineIs
  <2>3. CASE Number
    <3>1. PICK n \in Nat : /\ IsNext(n) /\ ShowLine(n)
                           /\ pos > 0 /\ pos' = pos + 1 /\ cont' \in Nat /\ Unfolded'
      BY <2>3, NumberShows
    <3>2. pos' \in Nat /\ pos' > 0
      BY <2>1, <3>1
    <3> QED BY <3>1, <3>2
  <2> QED BY <2>2, <2>3
<1>2. FTypes' /\ Turns' /\ Made' /\ Apart' /\ Kept' /\ Once'
  BY <1>1, ShownKept DEF IsNext
<1> QED BY <1>1, <1>2 DEF FormatInv

(* A range whose lines have been shown is left. *)
LEMMA RangeOverKeeps ==
    ASSUME FormatInv, RangeOver PROVE FormatInv'
<1> USE DEF RangeOver, pvars, wvars, ovars
<1>1. last \in Nat /\ cont \in Nat
  BY DEF FormatInv, FTypes
<1>2. FTypes' /\ Turns' /\ Made' /\ Apart'
  BY <1>1 DEF FormatInv, FTypes, Turns, Made, Apart, Waiting
<1>3. Unfolded'
  <2>1. last = Val(rec.nums)[pos - 1]
    <3>1. cont = Val(rec.nums)[pos - 1] /\ last <= cont
      BY DEF FormatInv, Unfolded
    <3> QED BY <1>1, <3>1
  <2> QED BY <2>1 DEF FormatInv, Unfolded
<1>4. \A e, l : /\ InRec(e, l)' <=> InRec(e, l)
                /\ InRecs(e, l)' <=> InRecs(e, l)
                /\ IsShown(e, l)' <=> IsShown(e, l)
                /\ ToCome(e, l)' <=> ToCome(e, l)
                /\ Waiting(e)' <=> Waiting(e)
  <2>1. pos # 0
    BY DEF FormatInv, FTypes
  <2> QED BY <2>1 DEF InRec, InRecs, IsShown, ToCome, Writing, Waiting
<1>5. Kept' /\ Once'
  <2>1. \A e : Lno(e)' = Lno(e)
    BY DEF Lno
  <2> QED BY <1>4, <2>1 DEF FormatInv, Kept, Once
<1> QED BY <1>2, <1>3, <1>5 DEF FormatInv

(* A record whose numbers have all been read has no line left to show. *)
LEMMA RecordEndKeeps ==
    ASSUME FormatInv, RecordEnd PROVE FormatInv'
<1> USE DEF RecordEnd, pvars, wvars, ovars
<1>1. /\ pos > 0 /\ toFlush = {} /\ path_hash = {} /\ rec.nums \in Seq(Item)
      /\ pos \in 1 .. (Len(rec.nums) + 1) /\ Len(rec.nums) \in Nat /\ last \in Nat
  BY ShowingIs
<1>2. FTypes' /\ Made' /\ Unfolded' /\ Apart'
  BY DEF FormatInv, FTypes, Made, Unfolded, Apart
<1>3. Turns'
  BY <1>1 DEF FormatInv, Turns, Waiting
<1>4. last = End(rec.nums)
  <2>1. pos - 1 = Len(rec.nums)
    BY <1>1
  <2>2. last = Val(rec.nums)[pos - 1]
    BY DEF FormatInv, Unfolded
  <2> QED BY <2>1, <2>2 DEF End
<1>5. \A l \in LinesOf(rec.nums) : ~(l > last)
  <2>1. End(rec.nums) \in Nat /\ LinesOf(rec.nums) \subseteq 1 .. End(rec.nums)
    BY <1>1, EndIs
  <2> QED BY <1>4, <2>1
<1>6. \A e, l : /\ ~InRec(e, l) /\ ~InRec(e, l)'
                /\ InRecs(e, l)' <=> InRecs(e, l)
                /\ IsShown(e, l)' <=> IsShown(e, l)
                /\ ~ToCome(e, l)' /\ ~ToCome(e, l)
                /\ Waiting(e)' <=> Waiting(e)
  <2>1. pos # 0
    BY <1>1
  <2> QED BY <1>5, <2>1 DEF InRec, InRecs, IsShown, ToCome, Writing, Waiting
<1>7. Kept' /\ Once'
  <2>1. \A e : Lno(e)' = Lno(e)
    BY DEF Lno
  <2> QED BY <1>6, <2>1 DEF FormatInv, Kept, Once
<1> QED BY <1>2, <1>3, <1>7 DEF FormatInv

(* Stuttering. *)
LEMMA StutterKeeps ==
    ASSUME FormatInv, UNCHANGED fvars PROVE FormatInv'
<1> USE DEF fvars, pvars, wvars, ovars
<1>1. FTypes' /\ Turns' /\ Made' /\ Unfolded' /\ Apart'
  BY DEF FormatInv, FTypes, Turns, Made, Unfolded, Apart, Waiting, LineAt
<1>2. Kept' /\ Once'
  BY DEF FormatInv, Kept, Once, InRec, InRecs, IsShown, ToCome, Writing, Waiting, Lno
<1> QED BY <1>1, <1>2 DEF FormatInv

(* At first every line waits. *)
LEMMA FormatInvInit ==
    ASSUME FormatInit PROVE FormatInv
<1> USE DEF FormatInit
<1>1. FTypes
  BY DEF FTypes, Image, Coded
<1>2. Turns /\ Made /\ Unfolded /\ Apart
  BY DEF Turns, Made, Unfolded, Apart
<1>3. Kept
  BY DEF Kept, Waiting, Entry
<1>4. Once
  BY DEF Once, IsShown
<1> QED BY <1>1, <1>2, <1>3, <1>4 DEF FormatInv

(* The invariant is inductive. *)
LEMMA FormatInvStep ==
    ASSUME FormatInv, [FormatNext]_fvars PROVE FormatInv'
<1>1. ASSUME NEW f \in toFlush, GtagsFlush(f) PROVE FormatInv'
  BY <1>1, GtagsFlushKeeps
<1>2. ASSUME NEW e \in path_hash, NextEntry(e) PROVE FormatInv'
  BY <1>2, NextEntryKeeps
<1>3. ASSUME NEW i \in left, SameLine(i) \/ LineFollows(i) \/ LineApart(i) PROVE FormatInv'
  BY <1>3, SameLineKeeps, LineFollowsKeeps, LineApartKeeps
<1>4. ASSUME EntryEnd PROVE FormatInv'
  BY <1>4, EntryEndKeeps
<1>5. ASSUME NEW q \in recs, ShowRecord(q) PROVE FormatInv'
  BY <1>5, ShowRecordKeeps
<1>6. ASSUME RangeLine \/ RangeOver \/ Number \/ RecordEnd PROVE FormatInv'
  BY <1>6, LineShownKeeps, RangeOverKeeps, RecordEndKeeps
<1>7. ASSUME UNCHANGED fvars PROVE FormatInv'
  BY <1>7, StutterKeeps
<1> QED BY <1>1, <1>2, <1>3, <1>4, <1>5, <1>6, <1>7 DEF FormatNext
-----------------------------------------------------------------------------
(* The variables keep their types: the record at hand is a sequence of     *)
(* numbers above zero, and what is shown belongs to the tags and files.    *)
THEOREM FormatTypes == FormatSpec => []FTypes
<1>1. FormatInit => FormatInv
  BY FormatInvInit
<1>2. FormatInv /\ [FormatNext]_fvars => FormatInv'
  BY FormatInvStep
<1>3. FormatInv => FTypes
  BY DEF FormatInv
<1> QED BY <1>1, <1>2, <1>3, PTL DEF FormatSpec

(* When all has been shown, it is the lines that were put. *)
LEMMA AllSurvive ==
    ASSUME FormatInv PROVE LinesSurvive
<1> SUFFICES ASSUME AllShown PROVE LinesSurvive
  BY DEF LinesSurvive
<1> DEFINE kept == UNION {{[tag |-> e[2], path |-> e[1], line |-> n] : n \in ToSet(table[e])} :
                            e \in Files \X Tags}
           got == [i \in 1 .. Len(shown) |->
                     [tag |-> shown[i].tag, path |-> shown[i].path, line |-> shown[i].line]]
<1>1. toFlush = {} /\ path_hash = {} /\ rec = NoRec /\ recs = {}
  BY DEF AllShown
<1>2. /\ shown \in Seq(Shown) /\ Len(shown) \in Nat /\ DOMAIN shown = 1 .. Len(shown)
      /\ \A i \in 1 .. Len(shown) : shown[i] \in Shown
  <2>1. shown \in Seq(Shown)
    BY DEF FormatInv, FTypes
  <2> QED BY <2>1
<1>3. \A e \in Entry : ToSet(table[e]) = Lno(e) /\ Lno(e) \subseteq Nat
  <2> SUFFICES ASSUME NEW e \in Entry PROVE ToSet(table[e]) = Lno(e) /\ Lno(e) \subseteq Nat
    OBVIOUS
  <2>1. table[e] \in Seq(Nat \ {0})
    BY FormatAssumption DEF FormatInv, FTypes, Entry
  <2> QED BY <2>1 DEF ToSet, Lno
<1>4. \A e \in Entry : \A l \in Nat : l \in Lno(e) <=> IsShown(e, l)
  BY <1>1 DEF FormatInv, Kept, InRec, InRecs, ToCome, Writing, Waiting
<1>5. ToSet(got) = {got[i] : i \in 1 .. Len(shown)} /\ Len(got) = Len(shown)
      /\ DOMAIN got = 1 .. Len(shown)
  BY <1>2 DEF ToSet
<1>6. ASSUME NEW i \in 1 .. Len(shown) PROVE got[i] \in kept
  <2> DEFINE e == <<shown[i].path, shown[i].tag>>
  <2>1. e \in Entry /\ shown[i].line \in Nat /\ e[1] = shown[i].path /\ e[2] = shown[i].tag
    BY <1>2 DEF Shown, Entry
  <2>2. IsShown(e, shown[i].line)
    BY <1>2, <2>1 DEF IsShown, Of
  <2>3. shown[i].line \in ToSet(table[e])
    BY <1>3, <1>4, <2>1, <2>2
  <2>4. got[i] = [tag |-> e[2], path |-> e[1], line |-> shown[i].line]
    BY <2>1
  <2> DEFINE K(d) == {[tag |-> d[2], path |-> d[1], line |-> n] : n \in ToSet(table[d])}
  <2>5. got[i] \in K(e)
    BY <2>3, <2>4
  <2>6. kept = UNION {K(d) : d \in Files \X Tags} /\ e \in Files \X Tags
    BY <2>1 DEF Entry
  <2> HIDE DEF e, got, kept, K
  <2> QED BY <2>5, <2>6
<1>7. ASSUME NEW k \in kept PROVE \E i \in 1 .. Len(shown) : got[i] = k
  <2>0. PICK e \in Entry : k \in {[tag |-> e[2], path |-> e[1], line |-> n] : n \in ToSet(table[e])}
    BY <1>7 DEF Entry
  <2>1. PICK n \in ToSet(table[e]) : k = [tag |-> e[2], path |-> e[1], line |-> n]
    BY <2>0
  <2>2. n \in Nat /\ n \in Lno(e)
    BY <1>3, <2>1
  <2>3. PICK i \in 1 .. Len(shown) : Of(shown[i], e) /\ shown[i].line = n
    BY <1>2, <1>4, <2>2 DEF IsShown
  <2> QED BY <2>1, <2>3 DEF Of
<1>8. \A i, j \in 1 .. Len(shown) : got[i] = got[j] => i = j
  <2> SUFFICES ASSUME NEW i \in 1 .. Len(shown), NEW j \in 1 .. Len(shown), got[i] = got[j]
               PROVE  i = j
    OBVIOUS
  <2>1. /\ got[i].tag = shown[i].tag /\ got[i].path = shown[i].path /\ got[i].line = shown[i].line
        /\ got[j].tag = shown[j].tag /\ got[j].path = shown[j].path /\ got[j].line = shown[j].line
    OBVIOUS
  <2> HIDE DEF got
  <2>2. /\ shown[i].tag = shown[j].tag /\ shown[i].path = shown[j].path
        /\ shown[i].line = shown[j].line
    BY <2>1
  <2> QED BY <1>2, <2>2 DEF FormatInv, Once
<1> HIDE DEF kept
<1>9. ToSet(got) = kept
  <2> HIDE DEF got
  <2>1. ToSet(got) \subseteq kept
    BY <1>5, <1>6
  <2>2. ASSUME NEW k \in kept PROVE k \in ToSet(got)
    <3>1. PICK i \in 1 .. Len(shown) : got[i] = k
      BY <1>7
    <3> QED BY <1>5, <3>1
  <2> QED BY <2>1, <2>2
<1>10. Cardinality(kept) = Len(shown)
  <2>1. got \in [1 .. Len(shown) -> kept]
    BY <1>6
  <2> HIDE DEF got
  <2>2. got \in Bijection(1 .. Len(shown), kept)
    BY <1>7, <1>8, <2>1, Fun_IsBij
  <2>3. ExistsBijection(1 .. Len(shown), kept)
    BY <2>2 DEF ExistsBijection
  <2> QED BY <1>2, <2>3, FS_CountingElements
<1> QED BY <1>1, <1>5, <1>9, <1>10 DEF LinesSurvive, kept

(* What gtags puts is what a search shows, each line of a tag in a file    *)
(* once, whatever ranges and splits into records lie between: for any      *)
(* tags, files, keys, tables of lines and length of a record.              *)
THEOREM LinesSurviveHolds == FormatSpec => []LinesSurvive
<1>1. FormatInit => FormatInv
  BY FormatInvInit
<1>2. FormatInv /\ [FormatNext]_fvars => FormatInv'
  BY FormatInvStep
<1>3. FormatInv => LinesSurvive
  BY AllSurvive
<1> QED BY <1>1, <1>2, <1>3, PTL DEF FormatSpec
-----------------------------------------------------------------------------
(* The images, when different tags have different keys and no file is      *)
(* missing.                                                                *)
OwnKeys == \A x, y \in Tags : KeyOf[x] = KeyOf[y] => x = y

(* Nothing is shown while flush_pool writes. *)
LEMMA WrittenImages ==
    ASSUME FormatInv, ImageInv, shown = <<>>, curpath = 0, pos = 0, pos' = 0,
           UNCHANGED <<table, lines, gone, curpath, cur_lineno, last_lineno, fp, src, shown>>
    PROVE  ImageInv'
<1>1. Source'
  BY DEF ImageInv, Source, Lno
<1>2. Behind'
  BY DEF Behind
<1>3. ImagesRight'
  <2>1. 1 .. Len(shown') = {}
    OBVIOUS
  <2> QED BY <2>1 DEF ImagesRight
<1> QED BY <1>1, <1>2, <1>3 DEF ImageInv

(* A record of the same file and key goes on behind the last; any other    *)
(* rewinds the file or opens another.                                      *)
LEMMA ShowRecordImages ==
    ASSUME FormatInv, ImageInv, NEW q \in recs, ShowRecord(q) PROVE ImageInv'
<1> USE DEF pvars, wvars
<1>1. /\ rec = NoRec /\ rec' = q /\ recs' = recs \ {q} /\ pos' = 1 /\ last' = 0
      /\ UNCHANGED <<table, lines, gone, src, shown>>
      /\ OpenSource(q) \/ ChangeTag(q) \/ KeepTag(q)
  BY DEF ShowRecord
<1>2. /\ q.path \in Files /\ q.tag \in Tags /\ First(q) \in Nat \ {0} /\ q.path # 0
      /\ lines[q.path] \in Nat
  <2>1. q.path \in Files /\ q.tag \in Tags /\ First(q) \in Nat \ {0}
    BY RecordIs DEF FormatInv
  <2> QED BY <2>1, FormatAssumption DEF FormatInv, FTypes
<1>3. pos = 0 /\ cur_lineno \in Nat /\ last_lineno \in Nat /\ gone = {}
  BY <1>1 DEF FormatInv, FTypes, Turns, ImageInv, Source
<1>4. ImagesRight'
  BY <1>1 DEF ImageInv, ImagesRight
<1>5. Lno(<<0, 0>>)' = Lno(<<0, 0>>) /\ \A e : Lno(e)' = Lno(e)
  BY <1>1 DEF Lno
<1>6. CASE OpenSource(q)
  <2>1. /\ curpath' = q.path /\ curtag' = Coded /\ fp' = "open"
        /\ cur_lineno' = 0 /\ last_lineno' = 0
    BY <1>3, <1>6 DEF OpenSource
  <2>2. Source'
    BY <1>1, <1>2, <1>3, <2>1 DEF Source
  <2>3. Behind'
    BY <1>1, <1>2, <2>1 DEF Behind
  <2> QED BY <1>4, <2>2, <2>3 DEF ImageInv
<1>7. CASE ChangeTag(q)
  <2>1. /\ q.path = curpath /\ curpath' = curpath /\ fp' = fp /\ last_lineno' = 0
        /\ curtag' = KeyOf[q.tag]
        /\ cur_lineno' = IF First(q) < last_lineno /\ fp = "open" THEN 0 ELSE cur_lineno
    BY <1>7 DEF ChangeTag, Rewound
  <2>2. last_lineno > 0
    BY <1>2, <1>3, <2>1 DEF ImageInv, Behind
  <2>3. fp = "open" => /\ curpath \in Files /\ cur_lineno <= lines[curpath]
                       /\ cur_lineno > 0 => src = <<curpath, cur_lineno>>
                       /\ cur_lineno = last_lineno
    BY <2>2 DEF ImageInv, Source
  <2>4. Source'
    <3>1. fp' = "open" => /\ curpath \in Files /\ cur_lineno' <= lines[curpath]
                          /\ cur_lineno' > 0 => src = <<curpath, cur_lineno'>>
      BY <1>2, <1>3, <2>1, <2>3
    <3>2. fp = "NULL" /\ curpath # 0 =>
            /\ curpath \in Files /\ src = NoLine
            /\ \E x \in Tags : \E l \in Lno(<<curpath, x>>) : l > lines[curpath]
      BY DEF ImageInv, Source
    <3> QED BY <1>1, <1>3, <1>5, <2>1, <3>1, <3>2 DEF Source
  <2>5. fp = "open" => cur_lineno' <= First(q)
    BY <1>2, <1>3, <2>1, <2>3
  <2>6. Behind'
    BY <1>1, <2>1, <2>5 DEF Behind, First
  <2> QED BY <1>4, <2>4, <2>6 DEF ImageInv
<1>8. CASE KeepTag(q)
  <2>1. /\ q.path = curpath /\ KeyOf[q.tag] = curtag
        /\ UNCHANGED <<curpath, curtag, fp, cur_lineno, last_lineno>>
    BY <1>8 DEF KeepTag
  <2>2. last_lineno > 0 /\ last_lineno < First(q)
    BY <1>2, <1>3, <2>1 DEF ImageInv, Behind
  <2>3. fp = "open" => cur_lineno <= First(q)
    BY <1>2, <1>3, <2>2 DEF ImageInv, Source
  <2>4. Source'
    BY <1>1, <1>5, <2>1 DEF ImageInv, Source
  <2>5. Behind'
    BY <1>1, <2>1, <2>3 DEF Behind, First
  <2> QED BY <1>4, <2>4, <2>5 DEF ImageInv
<1> QED BY <1>1, <1>6, <1>7, <1>8

(* The line that is shown is not before the one that has been read, so     *)
(* reading on reaches it, or the end of the file.                          *)
LEMMA LineShownImages ==
    ASSUME FormatInv, ImageInv, pos > 0, NEW n \in Nat, IsNext(n), ShowLine(n), pos' > 0
    PROVE  ImageInv'
<1> USE DEF pvars, wvars
<1> DEFINE new == [tag |-> rec.tag, path |-> rec.path, line |-> n, src |-> src']
<1>1. /\ shown' = Append(shown, new) /\ last_lineno' = n /\ last' = n
      /\ UNCHANGED <<table, lines, gone, curpath, curtag, rec, recs>>
  BY DEF ShowLine
<1>2. /\ rec \in Rec /\ rec.path \in Files /\ rec.tag \in Tags /\ WellFormed(rec.nums)
      /\ <<rec.path, rec.tag>> \in Entry /\ toFlush = {} /\ path_hash = {}
      /\ lines[rec.path] \in Nat /\ last \in Nat /\ rec # NoRec
  BY ShowingIs
<1>3. /\ curpath = rec.path /\ curtag \in {Coded, KeyOf[rec.tag]}
      /\ last > 0 => last_lineno = last
      /\ last = 0 /\ fp = "open" => cur_lineno <= First(rec)
  BY DEF ImageInv, Behind
<1>4. n \in LinesOf(rec.nums) /\ n > last /\ n # 0
  BY <1>2 DEF IsNext
<1>5. cur_lineno \in Nat /\ last_lineno \in Nat /\ fp \in {"open", "NULL"} /\ gone = {} /\ curpath # 0
  BY <1>2, <1>3, FormatAssumption DEF FormatInv, FTypes, ImageInv, Source
<1>6. n \in Lno(<<rec.path, rec.tag>>)
  <2>1. InRec(<<rec.path, rec.tag>>, n)
    BY <1>2, <1>4 DEF InRec, Of
  <2>2. ~Waiting(<<rec.path, rec.tag>>)
    BY <1>2 DEF Waiting
  <2> QED BY <1>2, <2>1, <2>2 DEF FormatInv, Kept
<1>7. fp = "open" => cur_lineno <= n
  <2>1. First(rec) \in Nat /\ First(rec) <= n
    BY <1>2, <1>4, FirstIs
  <2>2. fp = "open" /\ last_lineno > 0 => cur_lineno = last_lineno
    BY DEF ImageInv, Source
  <2> QED BY <1>2, <1>3, <1>4, <1>5, <2>1, <2>2
<1>8. fp = "open" => /\ cur_lineno <= lines[rec.path]
                     /\ cur_lineno > 0 => src = <<rec.path, cur_lineno>>
                     /\ last_lineno > 0 => cur_lineno = last_lineno
  BY <1>3 DEF ImageInv, Source
<1>9. fp = "NULL" => /\ src = NoLine
                     /\ \E x \in Tags : \E l \in Lno(<<rec.path, x>>) : l > lines[rec.path]
  BY <1>3, <1>5 DEF ImageInv, Source
<1>10. \/ /\ fp' = "open" /\ cur_lineno' = n /\ n <= lines[rec.path] /\ src' = <<rec.path, n>>
       \/ /\ fp' = "NULL" /\ src' = NoLine
          /\ \E x \in Tags : \E l \in Lno(<<rec.path, x>>) : l > lines[rec.path]
  <2>1. CASE ~Reads(n) /\ UNCHANGED <<fp, cur_lineno, src>>
    <3>1. CASE fp = "NULL"
      BY <1>9, <2>1, <3>1
    <3>2. CASE fp = "open"
      <4>1. last_lineno = n \/ cur_lineno >= n
        BY <1>5, <2>1, <3>2 DEF Reads
      <4>2. cur_lineno = n
        BY <1>4, <1>5, <1>7, <1>8, <3>2, <4>1
      <4> QED BY <1>4, <1>8, <2>1, <3>2, <4>2
    <3> QED BY <1>5, <3>1, <3>2
  <2>2. CASE /\ Reads(n) /\ n <= lines[rec.path]
             /\ src' = <<rec.path, n>> /\ cur_lineno' = n /\ UNCHANGED fp
    BY <2>2 DEF Reads
  <2>3. CASE /\ Reads(n) /\ n > lines[rec.path]
             /\ src' = NoLine /\ cur_lineno' = lines[rec.path] /\ fp' = "NULL"
    BY <1>2, <1>6, <2>3
  <2> QED BY <2>1, <2>2, <2>3 DEF ShowLine
<1>11. \A e : Lno(e)' = Lno(e)
  BY <1>1 DEF Lno
<1>12. Source'
  BY <1>1, <1>2, <1>3, <1>5, <1>10, <1>11 DEF Source
<1>13. Behind'
  BY <1>1, <1>3, <1>4 DEF Behind
<1>14. ImagesRight'
  <2>1. /\ shown \in Seq(Shown) /\ new.path = rec.path /\ new.line = n /\ new.src = src'
    BY DEF FormatInv, FTypes
  <2> HIDE DEF new
  <2>2. /\ Len(shown) \in Nat /\ Len(shown') = Len(shown) + 1
        /\ \A j \in 1 .. Len(shown) : shown'[j] = shown[j]
        /\ shown'[Len(shown) + 1] = new
    <3>1. \A S, x, y : x \in Seq(S) =>
              /\ Len(x) \in Nat /\ Len(Append(x, y)) = Len(x) + 1
              /\ \A j \in 1 .. Len(x) : Append(x, y)[j] = x[j]
              /\ Append(x, y)[Len(x) + 1] = y
      OBVIOUS
    <3> QED BY <1>1, <2>1, <3>1
  <2>3. \/ new.src = <<rec.path, n>>
        \/ new.src = NoLine /\ \E x \in Tags : \E l \in Lno(<<rec.path, x>>) : l > lines[rec.path]
    BY <1>10, <2>1
  <2>4. ASSUME NEW x \in Tags, NEW l \in Lno(<<rec.path, x>>), l > lines[rec.path]
        PROVE  \E t \in Tags : \E k \in ToSet(table[rec.path, t]) : ~(k <= lines[rec.path])
    <3>1. table[<<rec.path, x>>] \in Seq(Nat \ {0})
      BY <1>2, FormatAssumption DEF FormatInv, FTypes
    <3>2. l \in ToSet(table[<<rec.path, x>>]) /\ l \in Nat
      BY <3>1, <2>4 DEF Lno, ToSet
    <3>3. ~(l <= lines[rec.path])
      BY <1>2, <2>4, <3>2
    <3> QED BY <3>2, <3>3
  <2> SUFFICES ASSUME NEW j \in 1 .. Len(shown')
               PROVE  \/ shown'[j].src = <<shown'[j].path, shown'[j].line>>
                      \/ /\ shown'[j].src = NoLine
                         /\ ~(/\ shown'[j].path \notin gone
                              /\ \A x \in Tags : \A k \in ToSet(table[shown'[j].path, x]) :
                                    k <= lines[shown'[j].path])
    BY <1>1 DEF ImagesRight
  <2>5. CASE j = Len(shown) + 1
    BY <2>1, <2>2, <2>3, <2>4, <2>5
  <2>6. CASE j # Len(shown) + 1
    <3>1. j \in 1 .. Len(shown)
      BY <2>2, <2>6
    <3> QED BY <2>2, <3>1 DEF ImageInv, ImagesRight
  <2> QED BY <2>5, <2>6
<1> QED BY <1>12, <1>13, <1>14 DEF ImageInv

(* When a record ends, those left of its tag and file begin behind it. *)
LEMMA RecordEndImages ==
    ASSUME OwnKeys, FormatInv, ImageInv, RecordEnd PROVE ImageInv'
<1> USE DEF RecordEnd, pvars, wvars, ovars
<1>1. Source' /\ ImagesRight'
  BY DEF ImageInv, Source, ImagesRight, Lno
<1>2. /\ rec.nums \in Seq(Item) /\ pos \in 1 .. (Len(rec.nums) + 1) /\ Len(rec.nums) \in Nat
      /\ WellFormed(rec.nums) /\ rec.tag \in Tags
  BY ShowingIs
<1>3. last = End(rec.nums) /\ last > 0
  <2>1. pos - 1 = Len(rec.nums)
    BY <1>2
  <2>2. last = Val(rec.nums)[pos - 1]
    BY DEF FormatInv, Unfolded
  <2>3. last = End(rec.nums)
    BY <2>1, <2>2 DEF End
  <2> QED BY <1>2, <2>3, EndIs DEF WellFormed
<1>4. last_lineno = last /\ curpath = rec.path /\ curtag \in {Coded, KeyOf[rec.tag]}
  BY <1>3 DEF ImageInv, Behind
<1>5. ASSUME NEW r \in recs, r.path = curpath, KeyOf[r.tag] = curtag PROVE last_lineno < First(r)
  <2>1. r.tag \in Tags /\ KeyOf[r.tag] # Coded
    <3>1. r.tag \in Tags
      BY RecordIs DEF FormatInv
    <3> QED BY <3>1, FormatAssumption DEF Coded
  <2>2. r.tag = rec.tag
    BY <1>2, <1>4, <1>5, <2>1 DEF OwnKeys
  <2>3. Of(r, <<rec.path, rec.tag>>)
    BY <1>4, <1>5, <2>2 DEF Of
  <2> QED BY <1>3, <1>4, <2>3 DEF FormatInv, Unfolded
<1>6. Behind'
  BY <1>3, <1>4, <1>5 DEF Behind, First
<1> QED BY <1>1, <1>6 DEF ImageInv

(* ImageInv is inductive relative to FormatInv. *)
LEMMA ImageInvStep ==
    ASSUME OwnKeys, FormatInv, ImageInv, [FormatNext]_fvars PROVE ImageInv'
<1>1. ASSUME NEW f \in toFlush, GtagsFlush(f) PROVE ImageInv'
  <2>1. shown = <<>> /\ curpath = 0 /\ pos = 0
    BY <1>1 DEF FormatInv, Turns, GtagsFlush
  <2> QED BY <1>1, <2>1, WrittenImages DEF GtagsFlush, pvars, ovars
<1>2. ASSUME NEW e \in path_hash, NextEntry(e) PROVE ImageInv'
  <2>1. shown = <<>> /\ curpath = 0 /\ pos = 0
    BY <1>2 DEF FormatInv, Turns, NextEntry
  <2> QED BY <1>2, <2>1, WrittenImages DEF NextEntry, pvars, ovars
<1>3. ASSUME NEW i \in left, SameLine(i) \/ LineFollows(i) \/ LineApart(i) PROVE ImageInv'
  <2>1. AtLine(i)
    BY <1>3 DEF SameLine, LineFollows, LineApart
  <2>2. shown = <<>> /\ curpath = 0 /\ pos = 0
    BY <2>1, WritingIs DEF AtLine
  <2> QED BY <2>1, <2>2, WrittenImages DEF AtLine, pvars, ovars
<1>4. ASSUME EntryEnd PROVE ImageInv'
  <2>1. shown = <<>> /\ curpath = 0 /\ pos = 0
    BY <1>4, WritingIs DEF EntryEnd
  <2> QED BY <1>4, <2>1, WrittenImages DEF EntryEnd, pvars, ovars
<1>5. ASSUME NEW q \in recs, ShowRecord(q) PROVE ImageInv'
  BY <1>5, ShowRecordImages
<1>6. ASSUME RangeLine PROVE ImageInv'
  BY <1>6, RangeLineIs, LineShownImages
<1>7. ASSUME Number PROVE ImageInv'
  <2>1. PICK n \in Nat : IsNext(n) /\ ShowLine(n) /\ pos > 0 /\ pos' = pos + 1
    BY <1>7, NumberShows
  <2>2. pos' > 0
    BY <2>1 DEF FormatInv, FTypes
  <2> QED BY <2>1, <2>2, LineShownImages
<1>8. ASSUME RangeOver PROVE ImageInv'
  BY <1>8 DEF RangeOver, pvars, wvars, ovars, ImageInv, Source, Behind, ImagesRight, Lno, First
<1>9. ASSUME RecordEnd PROVE ImageInv'
  BY <1>9, RecordEndImages
<1>10. ASSUME UNCHANGED fvars PROVE ImageInv'
  BY <1>10 DEF fvars, pvars, wvars, ovars, ImageInv, Source, Behind, ImagesRight, Lno, First
<1> QED BY <1>1, <1>2, <1>3, <1>4, <1>5, <1>6, <1>7, <1>8, <1>9, <1>10 DEF FormatNext

(* At first no source file is open. *)
LEMMA ImageInvInit ==
    ASSUME ~MayVanish, FormatInit PROVE ImageInv
<1> USE DEF FormatInit
<1>1. Source
  BY DEF Source
<1>2. Behind
  BY DEF Behind
<1>3. ImagesRight
  <2>1. 1 .. Len(shown) = {}
    OBVIOUS
  <2> QED BY <2>1 DEF ImagesRight
<1> QED BY <1>1, <1>2, <1>3 DEF ImageInv

(* The image shown with a line is that line of that file, or nothing when  *)
(* the file has become shorter, for any tags, files, tables and lengths;   *)
(* if tags have keys of their own (no extractmethod) and no source file is *)
(* missing.  Without either the code does show wrong images.               *)
THEOREM ImagesRightHolds ==
    OwnKeys /\ ~MayVanish => (FormatSpec => []ImagesRight)
<1> SUFFICES ASSUME OwnKeys, ~MayVanish PROVE FormatSpec => []ImagesRight
  OBVIOUS
<1>1. FormatInit => FormatInv /\ ImageInv
  BY FormatInvInit, ImageInvInit
<1>2. FormatInv /\ ImageInv /\ [FormatNext]_fvars => (FormatInv /\ ImageInv)'
  BY FormatInvStep, ImageInvStep
<1>3. FormatInv /\ ImageInv => ImagesRight
  BY DEF ImageInv
<1> QED BY <1>1, <1>2, <1>3, PTL DEF FormatSpec
=============================================================================
