---------------------------- MODULE StoreProofs ----------------------------
(***************************************************************************)
(* Proofs about what keeps records.                                        *)
(*                                                                         *)
(* Mpool, for every number of pages, every size of the cache and every set *)
(* of contents: the cache and the file together always hold what the       *)
(* client stored, so Mpool implements PageStore, and the cache stays       *)
(* bounded.                                                                *)
(*                                                                         *)
(* SqlGpath, for any paths, any number of ids and every even commit        *)
(* threshold.  The records of a path are put in pairs, and an update       *)
(* starts to count at 0, so with an even threshold the count is even       *)
(* between two pairs and odd inside of one: a transaction ends behind a    *)
(* pair.  A creation starts to count at 1, but its table has no NEXTKEY    *)
(* before the close.                                                       *)
(***************************************************************************)
EXTENDS Mpool, SqlGpath, FiniteSetTheorems, TLAPS

(* What Cache, the part that mpool_new and mpool_get share, does: it takes *)
(* the buffer of a page v that is not pinned, or of none, and writes it    *)
(* when it is dirty.                                                       *)
LEMMA CacheStep ==
    ASSUME NEW p \in Pgno, Cache(p), MpoolTypeOK
    PROVE  \E v \in Pgno \cup {None} :
             /\ v = None \/ v \in cached \ pinned
             /\ cached' = (cached \ {v}) \cup {p}
             /\ curcache' \in Nat
             /\ disk' = [q \in Pgno |-> IF q = v /\ q \in dirty THEN buf[q] ELSE disk[q]]
             /\ dirty' = dirty \ {v}
             /\ pinned' = pinned \cup {p}
             /\ held' = held \cup {p}
<1>1. PICK v \in Pgno \cup {None} :
        /\ Victim(v)
        /\ cached' = (cached \ {v}) \cup {p}
        /\ curcache' = IF v = None THEN curcache + 1 ELSE curcache
        /\ disk' = Flushed(v)
        /\ dirty' = dirty \ {v}
        /\ pinned' = pinned \cup {p}
        /\ held' = held \cup {p}
  BY DEF Cache
<1>2. v = None \/ v \in cached \ pinned
  BY <1>1 DEF Victim
<1>3. disk' = [q \in Pgno |-> IF q = v /\ q \in dirty THEN buf[q] ELSE disk[q]]
  <2>1. disk' = Written({v} \cap dirty)  BY <1>1 DEF Flushed
  <2> QED  BY <2>1 DEF Written
<1>4. curcache' \in Nat
  BY <1>1 DEF MpoolTypeOK
<1> QED
  BY <1>1, <1>2, <1>3, <1>4

(* A page number that is not a page of the file, None above all.           *)
LEMMA NoneIsNoPage == None \notin Pgno /\ Pgno \subseteq Nat
  BY MpoolAssumption DEF None, Pgno

LEMMA InitCoherent == MpoolInit => MpoolTypeOK /\ Coherent
<1> SUFFICES ASSUME MpoolInit PROVE MpoolTypeOK /\ Coherent
  OBVIOUS
<1>1. MpoolTypeOK
  BY MpoolAssumption DEF MpoolInit, MpoolTypeOK
<1>2. Coherent
  BY MpoolAssumption DEF MpoolInit, Coherent, HeldStays, Pgno
<1> QED
  BY <1>1, <1>2

(* After the dirty pages were written, with no page in the hands of the    *)
(* client, the file holds exactly the pages below npages.                  *)
LEMMA WrittenIsComplete ==
    ASSUME MpoolTypeOK, Coherent, held = {}, disk' = Written(dirty)
    PROVE  /\ disk' \in [Pgno -> Val \cup {Absent}]
           /\ \A p \in Pgno : p < npages => disk'[p] \in Val
           /\ \A p \in Pgno : p >= npages => disk'[p] = Absent
           /\ \A p \in cached : disk'[p] = buf[p]
           /\ \A p \in Pgno \ cached : disk'[p] = disk[p]
<1>1. disk' = [p \in Pgno |-> IF p \in dirty THEN buf[p] ELSE disk[p]]
  BY DEF Written
<1>2. changed = {} /\ buf \in [Pgno -> Val] /\ disk \in [Pgno -> Val \cup {Absent}]
  BY DEF MpoolTypeOK
<1>3. \A p \in cached : disk'[p] = buf[p] /\ p \in Pgno
  BY <1>1, <1>2 DEF Coherent, MpoolTypeOK
<1>4. \A p \in Pgno \ cached : disk'[p] = disk[p]
  BY <1>1 DEF Coherent
<1>5. \A p \in Pgno : p < npages => disk'[p] \in Val
  BY <1>2, <1>3, <1>4 DEF Coherent
<1>6. \A p \in Pgno : p >= npages => disk'[p] = Absent
  <2> SUFFICES ASSUME NEW p \in Pgno, p >= npages PROVE p \notin dirty /\ disk[p] = Absent
    BY <1>1
  <2>1. p \in Nat /\ npages \in Nat  BY MpoolAssumption DEF Pgno, MpoolTypeOK
  <2> QED  BY <2>1 DEF Coherent
<1> QED
  BY <1>1, <1>2, <1>3, <1>4, <1>5, <1>6

(* mpool_open finds as many pages as the cache knew when it was closed.    *)
LEMMA ReopenKeepsSize ==
    ASSUME MpoolTypeOK, Coherent, Reopen
    PROVE  npages' = npages
<1>1. /\ \A p \in Pgno : p < npages => disk'[p] \in Val
      /\ \A p \in Pgno : p >= npages => disk'[p] = Absent
  BY WrittenIsComplete DEF Reopen
<1>2. npages \in 0 .. MaxPage /\ npages' \in 0 .. MaxPage
  BY DEF Reopen, MpoolTypeOK
<1>3. \A p \in Pgno : p < npages' <=> p < npages
  <2> SUFFICES ASSUME NEW p \in Pgno PROVE p \in PagesOf(disk') <=> p < npages
    BY DEF Reopen
  <2>1. CASE p < npages
    <3>1. disk'[p] # Absent /\ p >= p
      BY <1>1, <2>1, MpoolAssumption DEF Pgno
    <3> QED  BY <2>1, <3>1 DEF PagesOf
  <2>2. CASE ~(p < npages)
    <3>1. \A q \in Pgno : q >= p => disk'[q] = Absent
      BY <1>1, <1>2, <2>2 DEF Pgno
    <3> QED  BY <2>2, <3>1 DEF PagesOf
  <2> QED  BY <2>1, <2>2
<1> QED
  BY <1>2, <1>3, MpoolAssumption DEF Pgno

LEMMA StepCoherent ==
    ASSUME MpoolTypeOK, Coherent, [MpoolNext]_mpvars
    PROVE  MpoolTypeOK' /\ Coherent'
<1> USE MpoolAssumption
<1>1. CASE New
  <2>1. npages \in Pgno /\ npages < MaxPage
    BY <1>1 DEF New, MpoolTypeOK, Pgno
  <2>2. PICK v \in Pgno \cup {None} :
          /\ v = None \/ v \in cached \ pinned
          /\ cached' = (cached \ {v}) \cup {npages}
          /\ curcache' \in Nat
          /\ disk' = [q \in Pgno |-> IF q = v /\ q \in dirty THEN buf[q] ELSE disk[q]]
          /\ dirty' = dirty \ {v}
          /\ pinned' = pinned \cup {npages}
          /\ held' = held \cup {npages}
    BY <1>1, <2>1, CacheStep DEF New
  <2>3. PICK x \in Val : buf' = [buf EXCEPT ![npages] = x]
    BY <1>1 DEF New
  <2>4. changed' = changed \cup {npages} /\ npages' = npages + 1
    BY <1>1 DEF New
  <2>5. MpoolTypeOK'
    BY <2>1, <2>2, <2>3, <2>4 DEF MpoolTypeOK
  <2>6. HeldStays'
    BY <2>2, NoneIsNoPage DEF Coherent, HeldStays, MpoolTypeOK
  <2>7. (cached \cup dirty \subseteq {p \in Pgno : p < npages} /\ dirty \subseteq cached)'
    BY <2>1, <2>2, <2>4, NoneIsNoPage DEF Coherent, MpoolTypeOK, Pgno
  <2>8. (\A p \in Pgno : p >= npages => disk[p] = Absent)'
    BY <2>1, <2>2, <2>4 DEF Coherent, MpoolTypeOK, Pgno
  <2>9. (\A p \in cached \ (dirty \cup changed) : buf[p] = disk[p])'
    <3> SUFFICES ASSUME NEW p \in cached', p \notin dirty', p \notin changed'
                 PROVE  buf'[p] = disk'[p]
      OBVIOUS
    <3>1. p # npages /\ p # v /\ p \in cached /\ p \notin dirty /\ p \notin changed /\ p \in Pgno
      BY <2>1, <2>2, <2>4, NoneIsNoPage DEF MpoolTypeOK
    <3>2. buf'[p] = buf[p] /\ disk'[p] = disk[p]
      BY <2>1, <2>2, <2>3, <3>1 DEF MpoolTypeOK
    <3> QED  BY <3>1, <3>2 DEF Coherent
  <2>10. (\A p \in Pgno \ cached : p < npages => disk[p] \in Val)'
    <3> SUFFICES ASSUME NEW p \in Pgno, p \notin cached', p < npages'
                 PROVE  disk'[p] \in Val
      OBVIOUS
    <3>1. p # npages /\ p < npages
      BY <2>1, <2>2, <2>4, NoneIsNoPage DEF MpoolTypeOK, Pgno
    <3>2. CASE p = v
      BY <2>2, <3>1, <3>2, NoneIsNoPage DEF Coherent, HeldStays, MpoolTypeOK
    <3>3. CASE p # v
      BY <2>2, <3>1, <3>3 DEF Coherent
    <3> QED  BY <3>2, <3>3
  <2> QED
    BY <2>5, <2>6, <2>7, <2>8, <2>9, <2>10 DEF Coherent
<1>2. ASSUME NEW p \in Pgno, GetCached(p) PROVE MpoolTypeOK' /\ Coherent'
  BY <1>2 DEF GetCached, MpoolTypeOK, Coherent, HeldStays
<1>3. ASSUME NEW r \in Pgno, GetRead(r) PROVE MpoolTypeOK' /\ Coherent'
  <2>1. PICK v \in Pgno \cup {None} :
          /\ v = None \/ v \in cached \ pinned
          /\ cached' = (cached \ {v}) \cup {r}
          /\ curcache' \in Nat
          /\ disk' = [q \in Pgno |-> IF q = v /\ q \in dirty THEN buf[q] ELSE disk[q]]
          /\ dirty' = dirty \ {v}
          /\ pinned' = pinned \cup {r}
          /\ held' = held \cup {r}
    BY <1>3, CacheStep DEF GetRead
  <2>2. /\ buf' = [buf EXCEPT ![r] = disk[r]]
        /\ UNCHANGED <<npages, changed>>
        /\ r \notin cached /\ r < npages /\ disk[r] \in Val
    BY <1>3 DEF GetRead, MpoolTypeOK
  <2>3. MpoolTypeOK'
    BY <2>1, <2>2 DEF MpoolTypeOK
  <2>4. HeldStays'
    BY <2>1, NoneIsNoPage DEF Coherent, HeldStays, MpoolTypeOK
  <2>5. (cached \cup dirty \subseteq {p \in Pgno : p < npages} /\ dirty \subseteq cached)'
    BY <2>1, <2>2 DEF Coherent, MpoolTypeOK
  <2>6. (\A p \in Pgno : p >= npages => disk[p] = Absent)'
    <3> SUFFICES ASSUME NEW p \in Pgno, p >= npages PROVE disk'[p] = Absent
      BY <2>2
    <3>1. ~(p < npages)  BY DEF MpoolTypeOK, Pgno
    <3>2. p \notin dirty  BY <3>1 DEF Coherent
    <3> QED  BY <2>1, <3>2 DEF Coherent
  <2>7. (\A p \in cached \ (dirty \cup changed) : buf[p] = disk[p])'
    <3> SUFFICES ASSUME NEW p \in cached', p \notin dirty', p \notin changed'
                 PROVE  buf'[p] = disk'[p]
      OBVIOUS
    <3>1. CASE p = r
      <4>1. r \notin dirty  BY <2>2 DEF Coherent
      <4> QED  BY <2>1, <2>2, <3>1, <4>1 DEF MpoolTypeOK
    <3>2. CASE p # r
      <4>1. p \in cached /\ p # v /\ p \in Pgno /\ p \notin dirty /\ p \notin changed
        BY <2>1, <2>2, <3>2 DEF MpoolTypeOK
      <4> QED  BY <2>1, <2>2, <3>2, <4>1 DEF Coherent, MpoolTypeOK
    <3> QED  BY <3>1, <3>2
  <2>8. (\A p \in Pgno \ cached : p < npages => disk[p] \in Val)'
    <3> SUFFICES ASSUME NEW p \in Pgno, p \notin cached', p < npages
                 PROVE  disk'[p] \in Val
      BY <2>2
    <3>1. CASE p = v
      BY <2>1, <3>1, NoneIsNoPage DEF Coherent, HeldStays, MpoolTypeOK
    <3>2. CASE p # v
      BY <2>1, <3>2 DEF Coherent
    <3> QED  BY <3>1, <3>2
  <2> QED
    BY <2>3, <2>4, <2>5, <2>6, <2>7, <2>8 DEF Coherent
<1>4. ASSUME NEW r \in Pgno, Change(r) PROVE MpoolTypeOK' /\ Coherent'
  <2>1. MpoolTypeOK'
    BY <1>4 DEF Change, MpoolTypeOK
  <2>2. Coherent'
    BY <1>4 DEF Change, MpoolTypeOK, Coherent, HeldStays
  <2> QED  BY <2>1, <2>2
<1>5. ASSUME NEW r \in Pgno, Put(r) PROVE MpoolTypeOK' /\ Coherent'
  <2>1. PICK flag \in BOOLEAN :
          (r \in changed => flag) /\ dirty' = IF flag THEN dirty \cup {r} ELSE dirty
    BY <1>5 DEF Put, PutFlags
  <2>2. MpoolTypeOK'
    BY <1>5, <2>1 DEF Put, MpoolTypeOK
  <2>3. Coherent'
    BY <1>5, <2>1 DEF Put, MpoolTypeOK, Coherent, HeldStays
  <2> QED  BY <2>2, <2>3
<1>6. CASE Sync
  <2>1. /\ disk' \in [Pgno -> Val \cup {Absent}]
        /\ \A p \in Pgno : p < npages => disk'[p] \in Val
        /\ \A p \in Pgno : p >= npages => disk'[p] = Absent
        /\ \A p \in cached : disk'[p] = buf[p]
    BY <1>6, WrittenIsComplete DEF Sync
  <2> QED  BY <1>6, <2>1 DEF Sync, MpoolTypeOK, Coherent, HeldStays
<1>7. CASE Reopen
  <2>1. /\ disk' \in [Pgno -> Val \cup {Absent}]
        /\ \A p \in Pgno : p < npages => disk'[p] \in Val
        /\ \A p \in Pgno : p >= npages => disk'[p] = Absent
    BY <1>7, WrittenIsComplete DEF Reopen
  <2>2. npages' = npages
    BY <1>7, ReopenKeepsSize
  <2> QED  BY <1>7, <2>1, <2>2 DEF Reopen, MpoolTypeOK, Coherent, HeldStays
<1>8. CASE UNCHANGED mpvars
  BY <1>8 DEF mpvars, MpoolTypeOK, Coherent, HeldStays
<1> QED
  BY <1>1, <1>2, <1>3, <1>4, <1>5, <1>6, <1>7, <1>8 DEF MpoolNext

(* In every run the cache is coherent: what the client holds stays in its  *)
(* buffer, a clean buffer equals the file, and a page without a buffer has *)
(* been written to the file.                                               *)
THEOREM CoherentHolds == MpoolSpec => []MpoolTypeOK /\ []Coherent
<1>1. MpoolInit => MpoolTypeOK /\ Coherent  BY InitCoherent
<1>2. (MpoolTypeOK /\ Coherent) /\ [MpoolNext]_mpvars => (MpoolTypeOK /\ Coherent)'  BY StepCoherent
<1> QED  BY <1>1, <1>2, PTL DEF MpoolSpec
-----------------------------------------------------------------------------
(* An eviction and the loading of another page change no contents.         *)
LEMMA StepRefines ==
    ASSUME MpoolTypeOK, Coherent, MpoolTypeOK', Coherent', [MpoolNext]_mpvars
    PROVE  [Store!Next]_<<npages, PageContent>>
<1> USE MpoolAssumption
<1> SUFFICES Store!Extend \/ (\E p \in Pgno : Store!Store(p)) \/ UNCHANGED <<npages, PageContent>>
  BY DEF Store!Next, PageContent
<1>1. CASE New
  <2>1. npages \in Pgno /\ npages' = npages + 1
    BY <1>1 DEF New, MpoolTypeOK, Pgno
  <2>2. PICK v \in Pgno \cup {None} :
          /\ v = None \/ v \in cached \ pinned
          /\ cached' = (cached \ {v}) \cup {npages}
          /\ disk' = [q \in Pgno |-> IF q = v /\ q \in dirty THEN buf[q] ELSE disk[q]]
    BY <1>1, <2>1, CacheStep DEF New
  <2>3. PICK x \in Val : buf' = [buf EXCEPT ![npages] = x]
    BY <1>1 DEF New
  <2>4. \A p \in Pgno : PageContent'[p] = [PageContent EXCEPT ![npages] = x][p]
    <3> SUFFICES ASSUME NEW p \in Pgno
                 PROVE  PageContent'[p] = [PageContent EXCEPT ![npages] = x][p]
      OBVIOUS
    <3>1. CASE p = npages
      <4>1. PageContent'[p] = x
        BY <2>1, <2>2, <2>3, <3>1 DEF PageContent, MpoolTypeOK, Pgno
      <4> QED  BY <3>1, <4>1 DEF PageContent
    <3>2. CASE p > npages
      <4>1. PageContent'[p] = Absent /\ PageContent[p] = Absent
        BY <2>1, <3>2 DEF PageContent, MpoolTypeOK, Pgno
      <4> QED  BY <2>1, <3>2, <4>1 DEF PageContent, Pgno
    <3>3. CASE p < npages
      <4>1. p # npages /\ ~(p >= npages) /\ ~(p >= npages')
        BY <2>1, <3>3 DEF MpoolTypeOK, Pgno
      <4>2. PageContent[p] = IF p \in cached THEN buf[p] ELSE disk[p]
        BY <4>1 DEF PageContent
      <4>3. PageContent'[p] = IF p \in cached' THEN buf'[p] ELSE disk'[p]
        BY <4>1 DEF PageContent
      <4>4. buf'[p] = buf[p]  BY <2>1, <2>3, <4>1 DEF MpoolTypeOK
      <4>5. CASE p = v
        <5>1. p \in cached /\ p \notin changed /\ p \notin cached'
          BY <2>2, <4>1, <4>5, NoneIsNoPage DEF Coherent, HeldStays, MpoolTypeOK
        <5>2. disk'[p] = buf[p]
          BY <2>2, <4>5, <5>1 DEF Coherent
        <5> QED  BY <4>1, <4>2, <4>3, <5>1, <5>2 DEF PageContent
      <4>6. CASE p # v
        <5>1. (p \in cached' <=> p \in cached) /\ disk'[p] = disk[p]
          BY <2>2, <4>1, <4>6
        <5> QED  BY <4>1, <4>2, <4>3, <4>4, <5>1 DEF PageContent
      <4> QED  BY <4>5, <4>6
    <3> QED  BY <2>1, <3>1, <3>2, <3>3 DEF Pgno, MpoolTypeOK
  <2>5. PageContent' = [PageContent EXCEPT ![npages] = x]
    BY <2>4 DEF PageContent
  <2> QED  BY <2>1, <2>5 DEF Store!Extend, PageContent
<1>2. ASSUME NEW r \in Pgno, GetCached(r) PROVE UNCHANGED <<npages, PageContent>>
  BY <1>2 DEF GetCached, PageContent
<1>3. ASSUME NEW r \in Pgno, GetRead(r) PROVE UNCHANGED <<npages, PageContent>>
  <2>1. PICK v \in Pgno \cup {None} :
          /\ v = None \/ v \in cached \ pinned
          /\ cached' = (cached \ {v}) \cup {r}
          /\ disk' = [q \in Pgno |-> IF q = v /\ q \in dirty THEN buf[q] ELSE disk[q]]
    BY <1>3, CacheStep DEF GetRead
  <2>2. npages' = npages /\ r \notin cached /\ r < npages /\ buf' = [buf EXCEPT ![r] = disk[r]]
    BY <1>3 DEF GetRead
  <2>3. \A p \in Pgno : PageContent'[p] = PageContent[p]
    <3> SUFFICES ASSUME NEW p \in Pgno, ~(p >= npages)
                 PROVE  (IF p \in cached' THEN buf'[p] ELSE disk'[p])
                          = (IF p \in cached THEN buf[p] ELSE disk[p])
      BY <2>2 DEF PageContent
    <3>1. CASE p = r
      BY <2>1, <2>2, <3>1 DEF MpoolTypeOK
    <3>2. CASE p # r /\ p = v
      <4>1. p \in cached /\ p \notin changed
        BY <2>1, <3>2, NoneIsNoPage DEF Coherent, HeldStays, MpoolTypeOK
      <4>2. p \notin cached' /\ disk'[p] = buf[p]
        BY <2>1, <3>2, <4>1 DEF Coherent
      <4> QED  BY <4>1, <4>2
    <3>3. CASE p # r /\ p # v
      BY <2>1, <2>2, <3>3 DEF MpoolTypeOK
    <3> QED  BY <3>1, <3>2, <3>3
  <2> QED  BY <2>2, <2>3 DEF PageContent
<1>4. ASSUME NEW r \in Pgno, Change(r) PROVE Store!Store(r)
  <2>1. PICK x \in Val : buf' = [buf EXCEPT ![r] = x]
    BY <1>4 DEF Change
  <2>2. r \in cached /\ r < npages /\ UNCHANGED <<npages, cached, disk>>
    BY <1>4 DEF Change, Coherent, HeldStays
  <2>3. \A p \in Pgno : buf'[p] = IF p = r THEN x ELSE buf[p]
    BY <2>1 DEF MpoolTypeOK
  <2>4. ~(r >= npages)
    BY <2>2 DEF MpoolTypeOK, Pgno
  <2>5. \A p \in Pgno : PageContent'[p] = IF p = r THEN x ELSE PageContent[p]
    BY <2>2, <2>3, <2>4 DEF PageContent
  <2>6. PageContent' = [PageContent EXCEPT ![r] = x]
    <3>1. PageContent' = [p \in Pgno |-> PageContent'[p]] /\ DOMAIN PageContent = Pgno
      BY DEF PageContent
    <3> QED  BY <2>5, <3>1
  <2> QED  BY <2>2, <2>6 DEF Store!Store
<1>5. ASSUME NEW r \in Pgno, Put(r) PROVE UNCHANGED <<npages, PageContent>>
  BY <1>5 DEF Put, PageContent
<1>6. CASE Sync
  <2>1. \A p \in Pgno \ cached : disk'[p] = disk[p]
    BY <1>6, WrittenIsComplete DEF Sync
  <2> QED  BY <1>6, <2>1 DEF Sync, PageContent
<1>7. CASE Reopen
  <2>1. /\ \A p \in cached : disk'[p] = buf[p]
        /\ \A p \in Pgno \ cached : disk'[p] = disk[p]
    BY <1>7, WrittenIsComplete DEF Reopen
  <2>2. npages' = npages /\ cached' = {}
    BY <1>7, ReopenKeepsSize DEF Reopen
  <2> QED  BY <2>1, <2>2 DEF PageContent
<1>8. CASE UNCHANGED mpvars
  BY <1>8 DEF mpvars, PageContent
<1> QED
  BY <1>1, <1>2, <1>3, <1>4, <1>5, <1>6, <1>7, <1>8 DEF MpoolNext

(* Whatever is evicted, read again, synced or reopened, the btree code     *)
(* reads from a page what it last stored there: Mpool implements PageStore.*)
THEOREM PagesKeepContents == MpoolSpec => ImplementsStore
<1>1. MpoolInit => Store!Init
  BY MpoolAssumption DEF MpoolInit, Store!Init, Pgno, PageContent
<1>2. MpoolTypeOK /\ Coherent /\ MpoolTypeOK' /\ Coherent' /\ [MpoolNext]_mpvars
        => [Store!Next]_<<npages, PageContent>>
  BY StepRefines
<1> QED
  BY <1>1, <1>2, CoherentHolds, PTL DEF MpoolSpec, ImplementsStore, Store!Spec
-----------------------------------------------------------------------------
(* The queue s holds exactly the pages C, each once.                       *)
Lists(s, C) ==
    /\ s \in Seq(Pgno)
    /\ {s[i] : i \in 1 .. Len(s)} = C
    /\ \A i, j \in 1 .. Len(s) : s[i] = s[j] => i = j

(* TAILQ_INSERT_TAIL of a page that is not in the queue. *)
LEMMA ListsAppend ==
    ASSUME NEW s, NEW C, NEW p \in Pgno, Lists(s, C), p \notin C
    PROVE  Lists(Append(s, p), C \cup {p}) /\ Len(Append(s, p)) = Len(s) + 1
<1> DEFINE t == Append(s, p)
<1>1. /\ t \in Seq(Pgno) /\ Len(s) \in Nat /\ Len(t) = Len(s) + 1
      /\ \A i \in 1 .. Len(s) : t[i] = s[i]
      /\ t[Len(s) + 1] = p
  BY DEF Lists
<1>2. \A i \in 1 .. Len(t) : i \in 1 .. Len(s) \/ i = Len(s) + 1
  BY <1>1
<1>3. {t[i] : i \in 1 .. Len(t)} = C \cup {p}
  <2>1. ASSUME NEW x \in C PROVE \E i \in 1 .. Len(t) : t[i] = x
    <3>1. PICK i \in 1 .. Len(s) : s[i] = x  BY DEF Lists
    <3> QED  BY <1>1, <3>1
  <2>2. \E i \in 1 .. Len(t) : t[i] = p
    BY <1>1
  <2>3. ASSUME NEW i \in 1 .. Len(t) PROVE t[i] \in C \cup {p}
    BY <1>1, <1>2 DEF Lists
  <2> QED  BY <2>1, <2>2, <2>3
<1>4. ASSUME NEW i \in 1 .. Len(t), NEW j \in 1 .. Len(t), t[i] = t[j]
      PROVE  i = j
  <2>1. \A k \in 1 .. Len(s) : s[k] # p  BY DEF Lists
  <2> QED  BY <1>1, <1>2, <1>4, <2>1 DEF Lists
<1> HIDE DEF t
<1>5. Lists(t, C \cup {p}) /\ Len(t) = Len(s) + 1
  BY <1>1, <1>3, <1>4 DEF Lists
<1> QED  BY <1>5 DEF t

(* TAILQ_REMOVE of a page that is in the queue, or of none. *)
LEMMA ListsUnlinked ==
    ASSUME NEW C, NEW q, Lists(lru, C)
    PROVE  /\ q \notin C => Unlinked(q) = lru
           /\ q \in C => Lists(Unlinked(q), C \ {q}) /\ Len(Unlinked(q)) = Len(lru) - 1
<1>1. CASE q \notin C
  <2>1. ~ \E i \in 1 .. Len(lru) : lru[i] = q  BY <1>1 DEF Lists
  <2> QED  BY <1>1, <2>1 DEF Unlinked
<1>2. CASE q \in C
  <2> DEFINE k == CHOOSE i \in 1 .. Len(lru) : lru[i] = q
             t == [j \in 1 .. Len(lru) - 1 |-> lru[IF j < k THEN j ELSE j + 1]]
  <2>1. \E i \in 1 .. Len(lru) : lru[i] = q  BY <1>2 DEF Lists
  <2>2. k \in 1 .. Len(lru) /\ lru[k] = q  BY <2>1
  <2>3. Unlinked(q) = t  BY <2>1 DEF Unlinked
  <2> HIDE DEF k
  <2>4. Len(lru) \in Nat /\ \A i \in 1 .. Len(lru) : lru[i] \in Pgno  BY DEF Lists
  <2>5. Len(lru) - 1 \in Nat  BY <2>2, <2>4
  <2>6. t \in Seq(Pgno) /\ Len(t) = Len(lru) - 1
    <3>1. \A j \in 1 .. Len(lru) - 1 : (IF j < k THEN j ELSE j + 1) \in 1 .. Len(lru)
      BY <2>2, <2>4
    <3>2. t \in [1 .. Len(lru) - 1 -> Pgno]  BY <2>4, <3>1
    <3> QED  BY <2>5, <3>2
  <2>7. ASSUME NEW j \in 1 .. Len(t)
        PROVE  /\ t[j] = lru[IF j < k THEN j ELSE j + 1]
               /\ (IF j < k THEN j ELSE j + 1) \in 1 .. Len(lru) \ {k}
    BY <2>2, <2>4, <2>6
  <2> HIDE DEF t
  <2>8. {t[j] : j \in 1 .. Len(t)} = C \ {q}
    <3>1. ASSUME NEW j \in 1 .. Len(t) PROVE t[j] \in C \ {q}
      BY <2>2, <2>7 DEF Lists
    <3>2. ASSUME NEW x \in C \ {q} PROVE \E j \in 1 .. Len(t) : t[j] = x
      <4>1. PICK i \in 1 .. Len(lru) : lru[i] = x  BY DEF Lists
      <4>2. i # k  BY <2>2, <4>1
      <4>3. CASE i < k
        BY <2>2, <2>4, <2>6, <2>7, <4>1, <4>3
      <4>4. CASE i > k
        <5>1. i - 1 \in 1 .. Len(t) /\ ~(i - 1 < k)  BY <2>2, <2>4, <2>6, <4>4
        <5>2. t[i - 1] = lru[i - 1 + 1]  BY <2>7, <5>1
        <5> QED  BY <2>4, <4>1, <5>1, <5>2
      <4> QED  BY <2>2, <2>4, <4>2, <4>3, <4>4
    <3> QED  BY <3>1, <3>2
  <2>9. ASSUME NEW i \in 1 .. Len(t), NEW j \in 1 .. Len(t), t[i] = t[j]
        PROVE  i = j
    <3>1. (IF i < k THEN i ELSE i + 1) = (IF j < k THEN j ELSE j + 1)
      BY <2>7, <2>9 DEF Lists
    <3> QED  BY <2>2, <2>6, <3>1
  <2> QED  BY <1>2, <2>3, <2>6, <2>8, <2>9 DEF Lists
<1> QED  BY <1>1, <1>2

(* The invariant: as CacheBounded, with each page once in the queue.       *)
BInv ==
    /\ Lists(lru, cached)
    /\ Len(lru) = Cardinality(cached) /\ curcache = Cardinality(cached)
    /\ curcache <= MaxCache \/ curcache <= MaxPins

LEMMA PgnoFinite == IsFiniteSet(Pgno)
  BY FS_Interval, MpoolAssumption DEF Pgno

(* A buffer that comes into the cache: either one that is not pinned goes, *)
(* or there is room, or the client holds all of them and may hold one more.*)
LEMMA CacheBInv ==
    ASSUME MpoolTypeOK, HeldStays, BInv, NEW p \in Pgno, p \notin cached, Take, Cache(p)
    PROVE  BInv'
<1>1. PICK v \in Pgno \cup {None} :
        /\ Victim(v)
        /\ cached' = (cached \ {v}) \cup {p}
        /\ lru' = Append(Unlinked(v), p)
        /\ curcache' = IF v = None THEN curcache + 1 ELSE curcache
  BY DEF Cache
<1>2. /\ Lists(lru, cached) /\ Len(lru) = Cardinality(cached) /\ curcache = Cardinality(cached)
      /\ IsFiniteSet(cached) /\ Cardinality(cached) \in Nat
  BY PgnoFinite, FS_Subset, FS_CardinalityType DEF BInv, MpoolTypeOK
<1>3. CASE v = None
  <2>1. v \notin cached  BY <1>3, NoneIsNoPage DEF MpoolTypeOK
  <2>2. lru' = Append(lru, p) /\ cached' = cached \cup {p}
    BY <1>1, <1>2, <2>1, ListsUnlinked
  <2>3. Lists(lru', cached') /\ Len(lru') = Len(lru) + 1
    BY <1>2, <2>2, ListsAppend
  <2>4. Cardinality(cached') = Cardinality(cached) + 1
    BY <1>2, <2>2, FS_AddElement
  <2>5. curcache < MaxCache \/ curcache < MaxPins
    <3>1. CASE curcache < MaxCache
      BY <3>1
    <3>2. CASE cached \subseteq pinned
      <4>1. cached = held  BY <3>2 DEF HeldStays
      <4> QED  BY <1>2, <4>1 DEF Take
    <3>3. curcache < MaxCache \/ cached \subseteq pinned
      BY <1>1, <1>3, NoneIsNoPage DEF Victim, MpoolTypeOK
    <3> QED  BY <3>1, <3>2, <3>3
  <2>6. curcache' <= MaxCache \/ curcache' <= MaxPins
    BY <1>1, <1>2, <1>3, <2>5, MpoolAssumption
  <2> QED  BY <1>1, <1>2, <1>3, <2>3, <2>4, <2>6 DEF BInv
<1>4. CASE v # None
  <2>1. v \in cached  BY <1>1, <1>4 DEF Victim
  <2>2. Lists(Unlinked(v), cached \ {v}) /\ Len(Unlinked(v)) = Len(lru) - 1
    BY <1>2, <2>1, ListsUnlinked
  <2>3. Lists(lru', cached') /\ Len(lru') = Len(lru) - 1 + 1
    BY <1>1, <2>2, ListsAppend
  <2>4. Cardinality(cached') = Cardinality(cached)
    <3>1. IsFiniteSet(cached \ {v}) /\ Cardinality(cached \ {v}) = Cardinality(cached) - 1
      BY <1>2, <2>1, FS_RemoveElement
    <3>2. Cardinality((cached \ {v}) \cup {p}) = Cardinality(cached \ {v}) + 1
      BY <3>1, FS_AddElement
    <3> QED  BY <1>1, <1>2, <3>1, <3>2
  <2>5. curcache' = curcache  BY <1>1, <1>4
  <2> QED  BY <1>2, <2>3, <2>4, <2>5 DEF BInv
<1> QED
  BY <1>3, <1>4

LEMMA StepBInv ==
    ASSUME MpoolTypeOK, Coherent, BInv, [MpoolNext]_mpvars
    PROVE  BInv'
<1>1. CASE New
  <2>1. npages \in Pgno /\ npages \notin cached
    BY <1>1, MpoolAssumption DEF New, MpoolTypeOK, Coherent, Pgno
  <2> QED  BY <1>1, <2>1, CacheBInv DEF New, Coherent
<1>2. ASSUME NEW p \in Pgno, GetCached(p) PROVE BInv'
  <2>1. lru' = Append(Unlinked(p), p) /\ p \in cached /\ UNCHANGED <<cached, curcache>>
    BY <1>2 DEF GetCached
  <2>2. Lists(Unlinked(p), cached \ {p}) /\ Len(Unlinked(p)) = Len(lru) - 1
    BY <2>1, ListsUnlinked DEF BInv
  <2>3. Lists(lru', (cached \ {p}) \cup {p}) /\ Len(lru') = Len(lru) - 1 + 1
    BY <2>1, <2>2, ListsAppend
  <2>4. (cached \ {p}) \cup {p} = cached  BY <2>1
  <2>5. Len(lru) \in Nat  BY DEF BInv, Lists
  <2>6. Len(lru') = Len(lru)  BY <2>3, <2>5
  <2>7. Lists(lru', cached)  BY <2>3, <2>4, Zenon
  <2> QED  BY <2>1, <2>6, <2>7 DEF BInv
<1>3. ASSUME NEW p \in Pgno, GetRead(p) PROVE BInv'
  BY <1>3, CacheBInv DEF GetRead, Coherent
<1>4. ASSUME NEW p \in Pgno, Change(p) PROVE BInv'
  BY <1>4 DEF Change, BInv, Lists
<1>5. ASSUME NEW p \in Pgno, Put(p) PROVE BInv'
  BY <1>5 DEF Put, BInv, Lists
<1>6. CASE Sync
  BY <1>6 DEF Sync, BInv, Lists
<1>7. CASE Reopen
  <2>1. lru' = <<>> /\ cached' = {} /\ curcache' = 0
    BY <1>7 DEF Reopen
  <2> QED  BY <2>1, FS_EmptySet, MpoolAssumption DEF BInv, Lists
<1>8. CASE UNCHANGED mpvars
  BY <1>8 DEF mpvars, BInv, Lists
<1> QED
  BY <1>1, <1>2, <1>3, <1>4, <1>5, <1>6, <1>7, <1>8 DEF MpoolNext

(* In every run the queue and the hash table agree, curcache counts the    *)
(* buffers, and a full cache grows only while the client holds all of it.  *)
THEOREM CacheBoundedHolds == MpoolSpec => []CacheBounded
<1>1. MpoolInit => BInv
  BY FS_EmptySet, MpoolAssumption DEF MpoolInit, BInv, Lists
<1>2. MpoolTypeOK /\ Coherent /\ BInv /\ [MpoolNext]_mpvars => BInv'
  BY StepBInv
<1>3. BInv => CacheBounded
  BY DEF BInv, Lists, CacheBounded
<1> QED
  BY <1>1, <1>2, <1>3, CoherentHolds, PTL DEF MpoolSpec
-----------------------------------------------------------------------------
(* GPATH in a table of SQLite 3.                                           *)

(* The table relates paths and ids one to one. *)
Whole(t) ==
    /\ \A p \in SPath : t.fidOf[p] # 0 => t.pathOf[t.fidOf[p]] = p
    /\ \A f \in Id : t.pathOf[f] # NoSPath => t.fidOf[t.pathOf[f]] = f

(* It would, with the record f => p. *)
WholeBut(t, p, f) ==
    /\ t.fidOf[p] = f
    /\ \A q \in SPath \ {p} : t.fidOf[q] # 0 => t.pathOf[t.fidOf[q]] = q
    /\ \A g \in Id : t.pathOf[g] # NoSPath => t.pathOf[g] # p /\ t.fidOf[t.pathOf[g]] = g

Used(t, n) == \A f \in Id : t.pathOf[f] # NoSPath => f < n

Pairs ==
    /\ running = "no" => pending = NoSPath
    /\ running # "no" =>
          IF pending = NoSPath THEN Whole(working)
          ELSE nextkey - 1 \in Id /\ WholeBut(working, pending, nextkey - 1)
    /\ running = "create" => committed.next = 0 /\ working.next = 0
    /\ running = "update" =>
          /\ committed.next # 0 /\ working.next # 0
          /\ writecount % 2 = IF pending = NoSPath THEN 0 ELSE 1
    /\ committed.next # 0 => Whole(committed)

Above ==
    ~torn =>
        /\ running = "no" /\ committed.next # 0 => Used(committed, committed.next)
        /\ running = "update" /\ ~commits => Used(committed, committed.next)
        /\ running # "no" => Used(working, IF pending = NoSPath THEN nextkey ELSE nextkey - 1)

SInv == STypeOK /\ Pairs /\ Above
-----------------------------------------------------------------------------
(* What the writes make of a table, part by part.                          *)
LEMMA TableParts ==
    ASSUME NEW t \in Table
    PROVE  /\ t.fidOf \in [SPath -> Id \cup {0}] /\ t.pathOf \in [Id -> SPath \cup {NoSPath}]
           /\ t.next \in 0 .. MaxId + 1
  BY DEF Table

LEMMA FidWritten ==
    ASSUME NEW t \in Table, NEW p \in SPath, NEW f \in Id \cup {0}
    PROVE  LET u == [t EXCEPT !.fidOf[p] = f]
           IN  /\ u \in Table /\ u.pathOf = t.pathOf /\ u.next = t.next
               /\ u.fidOf = [t.fidOf EXCEPT ![p] = f]
  BY DEF Table

LEMMA PathWritten ==
    ASSUME NEW t \in Table, NEW f \in Id, NEW p \in SPath \cup {NoSPath}
    PROVE  LET u == [t EXCEPT !.pathOf[f] = p]
           IN  /\ u \in Table /\ u.fidOf = t.fidOf /\ u.next = t.next
               /\ u.pathOf = [t.pathOf EXCEPT ![f] = p]
  BY DEF Table

Deleted(t, p, f) == [t EXCEPT !.fidOf[p] = 0, !.pathOf[f] = NoSPath]

LEMMA BothDeleted ==
    ASSUME NEW t \in Table, NEW p \in SPath, NEW f \in Id
    PROVE  /\ Deleted(t, p, f) \in Table /\ Deleted(t, p, f).next = t.next
           /\ Deleted(t, p, f).fidOf = [t.fidOf EXCEPT ![p] = 0]
           /\ Deleted(t, p, f).pathOf = [t.pathOf EXCEPT ![f] = NoSPath]
  BY DEF Table, Deleted

LEMMA NextWritten ==
    ASSUME NEW t \in Table, NEW n \in 0 .. MaxId + 1
    PROVE  LET u == [t EXCEPT !.next = n]
           IN  /\ u \in Table /\ u.next = n
               /\ u.fidOf = t.fidOf /\ u.pathOf = t.pathOf
  BY DEF Table

LEMMA EmptyParts ==
    /\ EmptyTable \in Table /\ EmptyTable.next = 0
    /\ \A p \in SPath : EmptyTable.fidOf[p] = 0
    /\ \A f \in Id : EmptyTable.pathOf[f] = NoSPath
  BY SqlAssumption DEF EmptyTable, Table

LEMMA EmptyIsWhole == Whole(EmptyTable) /\ \A n \in Nat : Used(EmptyTable, n)
  BY EmptyParts DEF Whole, Used

(* The two records of a path.                                              *)
LEMMA PutFidHalf ==
    ASSUME NEW t \in Table, Whole(t), NEW p \in SPath, NEW f \in Id, t.fidOf[p] = 0
    PROVE  WholeBut([t EXCEPT !.fidOf[p] = f], p, f)
<1> DEFINE u == [t EXCEPT !.fidOf[p] = f]
<1>1. /\ u.pathOf = t.pathOf /\ u.fidOf = [t.fidOf EXCEPT ![p] = f]
      /\ t.fidOf \in [SPath -> Id \cup {0}] /\ t.pathOf \in [Id -> SPath \cup {NoSPath}]
  BY TableParts, FidWritten
<1> HIDE DEF u
<1>2. \A g \in Id : t.pathOf[g] # p
  <2> SUFFICES ASSUME NEW g \in Id, t.pathOf[g] = p PROVE FALSE  OBVIOUS
  <2>1. t.fidOf[p] = g  BY SqlAssumption DEF Whole
  <2> QED  BY <2>1 DEF Id
<1>3. \A g \in Id : u.pathOf[g] # NoSPath => u.pathOf[g] # p /\ u.fidOf[u.pathOf[g]] = g
  BY <1>1, <1>2 DEF Whole
<1>4. \A q \in SPath \ {p} : u.fidOf[q] # 0 => u.pathOf[u.fidOf[q]] = q
  BY <1>1 DEF Whole
<1>5. u.fidOf[p] = f  BY <1>1
<1>6. WholeBut(u, p, f)  BY <1>3, <1>4, <1>5 DEF WholeBut
<1> QED  BY <1>6 DEF u

LEMMA PutPathWhole ==
    ASSUME NEW t \in Table, NEW p \in SPath, NEW f \in Id, WholeBut(t, p, f),
           t.pathOf[f] = NoSPath
    PROVE  Whole([t EXCEPT !.pathOf[f] = p])
<1> DEFINE u == [t EXCEPT !.pathOf[f] = p]
<1>1. /\ u.fidOf = t.fidOf /\ u.pathOf = [t.pathOf EXCEPT ![f] = p]
      /\ t.fidOf \in [SPath -> Id \cup {0}] /\ t.pathOf \in [Id -> SPath \cup {NoSPath}]
  BY TableParts, PathWritten
<1> HIDE DEF u
<1>2. ASSUME NEW q \in SPath, u.fidOf[q] # 0 PROVE u.pathOf[u.fidOf[q]] = q
  <2>1. CASE q = p
    BY <2>1, <1>1 DEF WholeBut
  <2>2. CASE q # p
    <3>1. t.fidOf[q] \in Id /\ t.pathOf[t.fidOf[q]] = q
      BY <1>1, <1>2, <2>2 DEF WholeBut
    <3>2. t.fidOf[q] # f
      BY <3>1, SqlAssumption
    <3> QED  BY <1>1, <3>1, <3>2
  <2> QED  BY <2>1, <2>2
<1>3. ASSUME NEW g \in Id, u.pathOf[g] # NoSPath PROVE u.fidOf[u.pathOf[g]] = g
  BY <1>1, <1>3 DEF WholeBut
<1>4. Whole(u)  BY <1>2, <1>3 DEF Whole
<1> QED  BY <1>4 DEF u

LEMMA DeleteWhole ==
    ASSUME NEW t \in Table, Whole(t), NEW p \in SPath, t.fidOf[p] # 0
    PROVE  /\ t.fidOf[p] \in Id
           /\ Whole(Deleted(t, p, t.fidOf[p]))
<1> DEFINE f == t.fidOf[p]
           u == Deleted(t, p, f)
<1>0. t.fidOf \in [SPath -> Id \cup {0}] /\ t.pathOf \in [Id -> SPath \cup {NoSPath}]
  BY TableParts
<1>1. f \in Id  BY <1>0
<1>2. u.fidOf = [t.fidOf EXCEPT ![p] = 0] /\ u.pathOf = [t.pathOf EXCEPT ![f] = NoSPath]
  BY <1>1, BothDeleted
<1> HIDE DEF u
<1>3. t.pathOf[f] = p  BY DEF Whole
<1>4. ASSUME NEW q \in SPath, u.fidOf[q] # 0 PROVE u.pathOf[u.fidOf[q]] = q
  <2>1. q # p  BY <1>0, <1>2, <1>4
  <2>2. t.fidOf[q] \in Id /\ t.pathOf[t.fidOf[q]] = q  BY <1>0, <1>2, <1>4, <2>1 DEF Whole
  <2>3. t.fidOf[q] # f  BY <1>3, <2>1, <2>2
  <2> QED  BY <1>0, <1>2, <2>1, <2>2, <2>3
<1>5. ASSUME NEW g \in Id, u.pathOf[g] # NoSPath PROVE u.fidOf[u.pathOf[g]] = g
  <2>1. g # f /\ u.pathOf[g] = t.pathOf[g]  BY <1>0, <1>1, <1>2, <1>5
  <2>2. t.pathOf[g] \in SPath /\ t.fidOf[t.pathOf[g]] = g  BY <1>0, <1>5, <2>1 DEF Whole
  <2>3. t.pathOf[g] # p  BY <2>1, <2>2
  <2> QED  BY <1>0, <1>2, <2>1, <2>2, <2>3
<1>6. Whole(u)  BY <1>4, <1>5 DEF Whole
<1> QED  BY <1>1, <1>6 DEF u
-----------------------------------------------------------------------------
LEMMA InitSInv == SqlInit => SInv
<1> SUFFICES ASSUME SqlInit PROVE SInv
  OBVIOUS
<1>1. STypeOK
  <2>1. 1 \in 1 .. MaxId + 1 /\ 0 \in 0 .. Threshold + 1  BY SqlAssumption
  <2>2. committed \in Table /\ working \in Table  BY EmptyParts DEF SqlInit
  <2>3. commits \in BOOLEAN /\ torn \in BOOLEAN  BY DEF SqlInit
  <2> QED  BY <2>1, <2>2, <2>3 DEF SqlInit, STypeOK
<1>2. Pairs  BY EmptyParts DEF SqlInit, Pairs
<1>3. Above  BY EmptyParts DEF SqlInit, Above
<1> QED  BY <1>1, <1>2, <1>3 DEF SInv

(* The end of dbop3_put: where a transaction ends the count is odd.        *)
LEMMA PutRecordStep ==
    ASSUME STypeOK, NEW t \in Table, PutRecord(t)
    PROVE  /\ working' = t /\ committed' \in Table
           /\ writecount' \in 0 .. Threshold + 1 /\ commits' \in BOOLEAN
           /\ \/ /\ committed' = committed /\ commits' = commits
                 /\ writecount' = writecount + 1
              \/ /\ committed' = t /\ commits' = TRUE
                 /\ writecount' = 0 /\ writecount % 2 = 1
<1>1. CASE Commits
  <2>1. writecount = Threshold + 1  BY <1>1, SqlAssumption DEF Commits, STypeOK
  <2>2. writecount % 2 = 1  BY <2>1, SqlAssumption
  <2>3. commits' = TRUE  BY <1>1 DEF PutRecord
  <2>4. working' = t /\ committed' = t /\ writecount' = 0  BY <1>1 DEF PutRecord
  <2>5. 0 \in 0 .. Threshold + 1  BY SqlAssumption
  <2> QED  BY <2>2, <2>3, <2>4, <2>5
<1>2. CASE ~Commits
  <2>1. writecount + 1 \in 0 .. Threshold + 1  BY <1>2, SqlAssumption DEF Commits, STypeOK
  <2> QED  BY <1>2, <2>1 DEF PutRecord, STypeOK
<1> QED  BY <1>1, <1>2

LEMMA PutFidInv == ASSUME SInv, NEW p \in SPath, PutFid(p) PROVE SInv'
<1> DEFINE t == [working EXCEPT !.fidOf[p] = nextkey]
<1>1. /\ working \in Table /\ nextkey \in Id /\ Whole(working) /\ working.fidOf[p] = 0
      /\ STypeOK /\ Pairs /\ Above /\ running # "no" /\ pending = NoSPath
  BY DEF SInv, STypeOK, PutFid, Pairs
<1>2. t \in Table /\ t.pathOf = working.pathOf /\ t.next = working.next
  BY <1>1, FidWritten
<1>3. WholeBut(t, p, nextkey)  BY <1>1, PutFidHalf
<1>4. PutRecord(t)  BY DEF PutFid
<1> HIDE DEF t
<1>5. /\ working' = t /\ committed' \in Table
      /\ writecount' \in 0 .. Threshold + 1 /\ commits' \in BOOLEAN
      /\ \/ committed' = committed /\ commits' = commits /\ writecount' = writecount + 1
         \/ committed' = t /\ commits' = TRUE /\ writecount' = 0 /\ writecount % 2 = 1
  BY <1>1, <1>2, <1>4, PutRecordStep
<1>6. /\ nextkey' = nextkey + 1 /\ pending' = p /\ p # NoSPath
      /\ running' = running /\ torn' = torn /\ nextkey' - 1 = nextkey
  BY <1>1, SqlAssumption DEF PutFid, Id
<1>7. STypeOK'
  BY <1>1, <1>2, <1>5, <1>6, SqlAssumption DEF STypeOK, Id
<1>8. Pairs'
  <2>1. CASE running = "create"
    <3>1. committed'.next = 0  BY <1>1, <1>2, <1>5, <2>1 DEF Pairs
    <3>2. working'.next = 0  BY <1>1, <1>2, <1>5, <2>1 DEF Pairs
    <3> QED  BY <1>1, <1>3, <1>5, <1>6, <2>1, <3>1, <3>2 DEF Pairs
  <2>2. CASE running = "update"
    <3>1. writecount % 2 = 0  BY <1>1, <2>2 DEF Pairs
    <3>2. committed' = committed /\ writecount' = writecount + 1  BY <1>5, <3>1
    <3>3. writecount' % 2 = 1  BY <1>1, <3>1, <3>2, SqlAssumption DEF STypeOK
    <3>4. committed'.next # 0 /\ working'.next # 0 /\ Whole(committed')
      BY <1>1, <1>2, <1>5, <2>2, <3>2 DEF Pairs
    <3> QED  BY <1>1, <1>3, <1>5, <1>6, <2>2, <3>3, <3>4 DEF Pairs
  <2> QED  BY <1>1, <2>1, <2>2 DEF STypeOK
<1>9. Above'
  <2> SUFFICES ASSUME ~torn PROVE Above'  BY <1>6 DEF Above
  <2>1. Used(working', nextkey)  BY <1>1, <1>2, <1>5 DEF Above, Used
  <2>2. running = "update" /\ ~commits' => Used(committed', committed'.next)
    BY <1>1, <1>5 DEF Above
  <2> QED  BY <1>1, <1>6, <2>1, <2>2 DEF Above
<1> QED  BY <1>7, <1>8, <1>9 DEF SInv

LEMMA PutPathOfInv == ASSUME SInv, PutPathOf PROVE SInv'
<1> DEFINE f == nextkey - 1
           t == [working EXCEPT !.pathOf[f] = pending]
<1>1. /\ working \in Table /\ f \in Id /\ WholeBut(working, pending, f)
      /\ working.pathOf[f] = NoSPath /\ pending \in SPath
      /\ STypeOK /\ Pairs /\ Above /\ running # "no"
  BY DEF SInv, STypeOK, PutPathOf, Pairs
<1>2. t \in Table /\ t.next = working.next /\ t.pathOf = [working.pathOf EXCEPT ![f] = pending]
  BY <1>1, PathWritten
<1>3. Whole(t)  BY <1>1, PutPathWhole
<1>4. PutRecord(t)  BY DEF PutPathOf
<1> HIDE DEF t
<1>5. /\ working' = t /\ committed' \in Table
      /\ writecount' \in 0 .. Threshold + 1 /\ commits' \in BOOLEAN
      /\ \/ committed' = committed /\ commits' = commits /\ writecount' = writecount + 1
         \/ committed' = t /\ commits' = TRUE /\ writecount' = 0 /\ writecount % 2 = 1
  BY <1>1, <1>2, <1>4, PutRecordStep
<1>6. pending' = NoSPath /\ UNCHANGED <<running, nextkey, torn>> /\ pending # NoSPath
  BY DEF PutPathOf
<1>7. STypeOK'
  BY <1>1, <1>2, <1>5, <1>6 DEF STypeOK
<1>8. Pairs'
  <2>1. CASE running = "create"
    <3>1. committed'.next = 0  BY <1>1, <1>2, <1>5, <2>1 DEF Pairs
    <3>2. working'.next = 0  BY <1>1, <1>2, <1>5, <2>1 DEF Pairs
    <3> QED  BY <1>1, <1>3, <1>5, <1>6, <2>1, <3>1, <3>2 DEF Pairs
  <2>2. CASE running = "update"
    <3>1. writecount % 2 = 1 /\ committed.next # 0 /\ Whole(committed)
      BY <1>1, <1>6, <2>2 DEF Pairs
    <3>2. writecount' % 2 = 0
      <4>1. writecount \in Nat  BY <1>1, SqlAssumption DEF STypeOK
      <4>2. (writecount + 1) % 2 = 0 /\ 0 % 2 = 0  BY <3>1, <4>1
      <4> QED  BY <1>5, <4>2
    <3>3. Whole(committed')  BY <1>3, <1>5, <3>1
    <3>4. committed'.next # 0 /\ working'.next # 0
      BY <1>1, <1>2, <1>5, <2>2, <3>1 DEF Pairs
    <3> QED  BY <1>1, <1>3, <1>5, <1>6, <2>2, <3>2, <3>3, <3>4 DEF Pairs
  <2> QED  BY <1>1, <2>1, <2>2 DEF STypeOK
<1>9. Above'
  <2> SUFFICES ASSUME ~torn PROVE Above'  BY <1>6 DEF Above
  <2>1. Used(working', nextkey)
    <3>1. Used(working, f)  BY <1>1, <1>6 DEF Above
    <3>2. nextkey \in Nat /\ f < nextkey /\ \A g \in Id : g \in Nat
      BY <1>1, SqlAssumption DEF STypeOK, Id
    <3> QED  BY <1>1, <1>2, <1>5, <3>1, <3>2, TableParts DEF Used
  <2>2. running = "update" /\ ~commits' => Used(committed', committed'.next)
    BY <1>1, <1>5 DEF Above
  <2> QED  BY <1>1, <1>6, <2>1, <2>2 DEF Above
<1> QED  BY <1>7, <1>8, <1>9 DEF SInv

(* A run that stops leaves what was committed.                             *)
LEMMA StoppedInv == ASSUME SInv, running # "no", Stopped PROVE SInv'
<1>1. /\ running' = "no" /\ pending' = NoSPath
      /\ torn' = (torn \/ (running = "update" /\ commits))
      /\ UNCHANGED <<committed, working, nextkey, writecount, commits>>
  BY DEF Stopped
<1>2. STypeOK'
  <2>1. torn' \in BOOLEAN  BY <1>1
  <2> QED  BY <1>1, <2>1 DEF SInv, STypeOK
<1>3. Pairs'  BY <1>1 DEF SInv, Pairs
<1>4. Above'
  <2> SUFFICES ASSUME ~torn', committed.next # 0 PROVE Used(committed, committed.next)
    BY <1>1 DEF Above
  <2>1. ~torn /\ ~(running = "update" /\ commits)  BY <1>1
  <2>2. running # "create"  BY DEF SInv, Pairs
  <2>3. running = "update"  BY <2>2 DEF SInv, STypeOK
  <2> QED  BY <2>1, <2>3 DEF SInv, Above
<1> QED  BY <1>2, <1>3, <1>4 DEF SInv

LEMMA OpenCreateInv == ASSUME SInv, OpenCreate PROVE SInv'
<1>1. /\ committed' = EmptyTable /\ working' = EmptyTable
      /\ running' = "create" /\ nextkey' = 1 /\ pending' = NoSPath
      /\ writecount' = 1 /\ commits' = FALSE /\ torn' = FALSE
  BY DEF OpenCreate
<1>2. STypeOK'
  <2>1. 1 \in 1 .. MaxId + 1 /\ 1 \in 0 .. Threshold + 1  BY SqlAssumption
  <2>2. commits' \in BOOLEAN /\ torn' \in BOOLEAN  BY <1>1
  <2> QED  BY <1>1, <2>1, <2>2, EmptyParts DEF STypeOK
<1>3. Pairs'  BY <1>1, EmptyParts, EmptyIsWhole DEF Pairs
<1>4. Above'
  <2>1. Used(EmptyTable, 1)  BY EmptyIsWhole
  <2> QED  BY <1>1, <2>1 DEF Above
<1> QED  BY <1>2, <1>3, <1>4 DEF SInv

LEMMA OpenUpdateInv == ASSUME SInv, OpenUpdate PROVE SInv'
<1>1. /\ running = "no" /\ committed.next # 0 /\ working' = committed
      /\ running' = "update" /\ nextkey' = committed.next /\ pending' = NoSPath
      /\ writecount' = 0 /\ commits' = FALSE /\ UNCHANGED <<committed, torn>>
  BY DEF OpenUpdate
<1>2. STypeOK'
  <2>1. committed.next \in 1 .. MaxId + 1 /\ 0 \in 0 .. Threshold + 1
    BY <1>1, TableParts, SqlAssumption DEF SInv, STypeOK
  <2>2. commits' \in BOOLEAN  BY <1>1
  <2> QED  BY <1>1, <2>1, <2>2 DEF SInv, STypeOK
<1>3. Pairs'  BY <1>1 DEF SInv, Pairs
<1>4. Above'  BY <1>1 DEF SInv, Above
<1> QED  BY <1>2, <1>3, <1>4 DEF SInv

LEMMA DeletePathInv == ASSUME SInv, NEW p \in SPath, DeletePath(p) PROVE SInv'
<1> DEFINE f == working.fidOf[p]
           t == Deleted(working, p, f)
<1>1. /\ working \in Table /\ Whole(working) /\ f # 0 /\ running = "update"
      /\ pending = NoSPath /\ STypeOK /\ Pairs /\ Above
  BY DEF SInv, STypeOK, DeletePath, Pairs
<1>2. f \in Id /\ Whole(t)  BY <1>1, DeleteWhole
<1>4. working' = t /\ UNCHANGED <<committed, running, nextkey, pending, writecount, commits, torn>>
  BY DEF DeletePath, Deleted
<1> HIDE DEF f
<1>3. t \in Table /\ t.next = working.next /\ t.pathOf = [working.pathOf EXCEPT ![f] = NoSPath]
  <2>1. working \in Table /\ f \in Id
    BY <1>1, <1>2
  <2>2. t \in Table  BY <2>1, BothDeleted
  <2>3. t.next = working.next  BY <2>1 DEF Deleted, Table
  <2>4. t.pathOf = [working.pathOf EXCEPT ![f] = NoSPath]  BY <2>1 DEF Deleted, Table
  <2> QED  BY <2>2, <2>3, <2>4
<1> HIDE DEF t
<1>5. STypeOK'  BY <1>1, <1>3, <1>4 DEF STypeOK
<1>6. Pairs'  BY <1>1, <1>2, <1>3, <1>4 DEF Pairs
<1>7. Above'
  <2>1. \A n : Used(working, n) => Used(t, n)  BY <1>1, <1>2, <1>3, TableParts DEF Used
  <2> QED  BY <1>1, <1>4, <2>1 DEF Above
<1> QED  BY <1>5, <1>6, <1>7 DEF SInv

LEMMA CloseInv == ASSUME SInv, CloseGpath PROVE SInv'
<1> DEFINE t == AtClose
<1>1. /\ working \in Table /\ Whole(working) /\ running # "no" /\ pending = NoSPath
      /\ nextkey \in 1 .. MaxId + 1 /\ STypeOK /\ Pairs /\ Above
  BY DEF SInv, STypeOK, CloseGpath, Pairs
<1>2. nextkey \in 0 .. MaxId + 1 /\ nextkey # 0  BY <1>1, SqlAssumption
<1>3. t \in Table /\ t.next = nextkey /\ t.fidOf = working.fidOf /\ t.pathOf = working.pathOf
  BY <1>1, <1>2, NextWritten DEF AtClose
<1>4. /\ working' = t /\ committed' = t /\ running' = "no"
      /\ UNCHANGED <<nextkey, pending, writecount, commits, torn>>
  BY DEF CloseGpath
<1> HIDE DEF t
<1>5. Whole(t)  BY <1>1, <1>3 DEF Whole
<1>6. STypeOK'  BY <1>1, <1>3, <1>4 DEF STypeOK
<1>7. Pairs'  BY <1>1, <1>4, <1>5 DEF Pairs
<1>8. Above'
  <2>1. ~torn => Used(t, nextkey)  BY <1>1, <1>3 DEF Above, Used
  <2> QED  BY <1>3, <1>4, <2>1 DEF Above
<1> QED  BY <1>6, <1>7, <1>8 DEF SInv

LEMMA StepSInv == SInv /\ [SqlNext]_svars => SInv'
<1> SUFFICES ASSUME SInv, [SqlNext]_svars PROVE SInv'
  OBVIOUS
<1>1. CASE OpenCreate  BY <1>1, OpenCreateInv
<1>2. CASE OpenUpdate  BY <1>2, OpenUpdateInv
<1>3. CASE PutPathOf  BY <1>3, PutPathOfInv
<1>4. CASE PutDies  BY <1>4, StoppedInv DEF PutDies
<1>5. CASE CloseGpath  BY <1>5, CloseInv
<1>6. CASE Kill  BY <1>6, StoppedInv DEF Kill
<1>7. CASE \E p \in SPath : PutFid(p)  BY <1>7, PutFidInv
<1>8. CASE \E p \in SPath : DeletePath(p)  BY <1>8, DeletePathInv
<1>9. CASE UNCHANGED svars
  BY <1>9 DEF svars, SInv, STypeOK, Pairs, Above
<1> QED  BY <1>1, <1>2, <1>3, <1>4, <1>5, <1>6, <1>7, <1>8, <1>9 DEF SqlNext

LEMMA SInvAlways == SqlSpec => []SInv
  BY InitSInv, StepSInv, PTL DEF SqlSpec
-----------------------------------------------------------------------------
(* The types of the table and of the run that writes it.                   *)
THEOREM TypeCorrect == SqlSpec => []STypeOK
<1>1. SInv => STypeOK  BY DEF SInv
<1> QED  BY <1>1, SInvAlways, PTL

(* A GPATH that gpath_open accepts relates paths and ids one to one,       *)
(* wherever gtags was killed and wherever dbop3_put ended a transaction.   *)
THEOREM PairsWholeHolds == SqlSpec => []PairsWhole
<1>1. SInv => PairsWhole  BY DEF SInv, Pairs, Whole, PairsWhole
<1> QED  BY <1>1, SInvAlways, PTL

(* The ids in use are below NEXTKEY, and gtags does not die of a key that  *)
(* is taken, unless an update was stopped after the end of a transaction.  *)
THEOREM NextkeyAboveHolds == SqlSpec => []NextkeyAbove
<1>1. SInv => NextkeyAbove
  <2> SUFFICES ASSUME SInv PROVE NextkeyAbove
    OBVIOUS
  <2>1. running = "no" /\ committed.next # 0 /\ ~torn => Used(committed, committed.next)
    BY DEF SInv, Above
  <2>2. ASSUME pending # NoSPath, working.pathOf[nextkey - 1] # NoSPath PROVE torn
    <3>1. running # "no" /\ nextkey - 1 \in Id  BY <2>2 DEF SInv, Pairs
    <3>2. nextkey - 1 \in Nat /\ ~(nextkey - 1 < nextkey - 1)  BY <3>1, SqlAssumption DEF Id
    <3> QED  BY <2>2, <3>1, <3>2 DEF SInv, Above, Used
  <2> QED  BY <2>1, <2>2 DEF NextkeyAbove, Used
<1> QED  BY <1>1, SInvAlways, PTL
=============================================================================
