------------------------------- MODULE Mpool -------------------------------
(***************************************************************************)
(* The page cache of a libdb file (mpool.c) under the btree code, its only *)
(* client: a page is taken with mpool_new or mpool_get, which pin it,      *)
(* possibly changed in place, and given back with mpool_put.  A full cache *)
(* reuses the buffer of the page that was taken longest ago of those not   *)
(* pinned; dirty pages reach the file then or in mpool_sync.               *)
(*                                                                         *)
(* MPOOL_PINNED is a flag and no count, so the client must not take a page *)
(* twice: a mpool.c compiled with DEBUG aborts on it.                      *)
(***************************************************************************)
EXTENDS Naturals, Sequences, FiniteSets

CONSTANTS
    MaxPage,   \* bound on the pages of the file
    MaxCache,  \* maxcache
    MaxPins,   \* the pages that the client holds at once, at most
    Val,       \* what a page may contain
    Absent     \* what the file contains where no page was ever written

ASSUME MpoolAssumption ==
    /\ MaxPage \in Nat /\ MaxCache \in Nat /\ MaxPins \in Nat
    /\ Absent \notin Val

VARIABLES
    npages,    \* mp->npages
    lru,       \* the lru queue, as page numbers, and
    cached,    \* the hash table: the pages that have a buffer
    curcache,  \* mp->curcache
    buf,       \* the contents of the buffers
    pinned,    \* pages with MPOOL_PINNED
    dirty,     \* pages with MPOOL_DIRTY
    disk,      \* the file
    held,      \* the pages that the client has a pointer to, and
    changed    \* those of them that it changed

mpvars == <<npages, lru, cached, curcache, buf, pinned, dirty, disk, held, changed>>

Pgno == 0 .. MaxPage - 1
None == MaxPage                  \* no page

MpoolTypeOK ==
    /\ npages \in 0 .. MaxPage
    /\ cached \subseteq Pgno
    /\ curcache \in Nat
    /\ buf \in [Pgno -> Val]
    /\ pinned \subseteq Pgno /\ dirty \subseteq Pgno
    /\ disk \in [Pgno -> Val \cup {Absent}]
    /\ held \subseteq Pgno /\ changed \subseteq held

(* mpool_write *)
Written(pages) == [p \in Pgno |-> IF p \in pages THEN buf[p] ELSE disk[p]]

(* Variant of the next operator with a bug: a full cache goes on growing.  *)
VictimNever(v) == v = None

(* mpool_bkt: the page v whose buffer is reused, None for a new buffer.    *)
(* It is the first of the queue that is not pinned.                        *)
Victim(v) ==
    IF curcache < MaxCache \/ cached \subseteq pinned THEN v = None
    ELSE /\ v \in cached \ pinned
         /\ \E i \in 1 .. Len(lru) :
              lru[i] = v /\ \A j \in 1 .. i - 1 : lru[j] \in pinned

(* Variant of the next operator with a bug: a dirty page is dropped.       *)
FlushedNot(v) == Written({})

(* What an eviction leaves in the file. *)
Flushed(v) == Written({v} \cap dirty)

(* TAILQ_REMOVE: the queue without page q.                                 *)
Unlinked(q) ==
    IF \E i \in 1 .. Len(lru) : lru[i] = q
    THEN LET i == CHOOSE i \in 1 .. Len(lru) : lru[i] = q
         IN  [j \in 1 .. Len(lru) - 1 |-> lru[IF j < i THEN j ELSE j + 1]]
    ELSE lru

(* A buffer for page p, at the tail of the queue and pinned.               *)
Cache(p) ==
    \E v \in Pgno \cup {None} :
        /\ Victim(v)
        /\ cached' = (cached \ {v}) \cup {p}
        /\ lru' = Append(Unlinked(v), p)
        /\ curcache' = IF v = None THEN curcache + 1 ELSE curcache
        /\ disk' = Flushed(v)
        /\ dirty' = dirty \ {v}
        /\ pinned' = pinned \cup {p}
        /\ held' = held \cup {p}

Take == Cardinality(held) < MaxPins

(* mpool_new.  The client fills the page and gives it back dirty. *)
New ==
    /\ Take /\ npages < MaxPage
    /\ Cache(npages)
    /\ \E v \in Val : buf' = [buf EXCEPT ![npages] = v]
    /\ changed' = changed \cup {npages}
    /\ npages' = npages + 1

(* mpool_get of a page that is in the cache, *)
GetCached(p) ==
    /\ Take /\ p < npages /\ p \notin held
    /\ p \in cached
    /\ lru' = Append(Unlinked(p), p)
    /\ pinned' = pinned \cup {p}
    /\ held' = held \cup {p}
    /\ UNCHANGED <<npages, cached, curcache, buf, dirty, disk, changed>>

(* and of one that is not: it is read, which fails beyond the end of file. *)
GetRead(p) ==
    /\ Take /\ p < npages /\ p \notin held
    /\ p \notin cached /\ disk[p] # Absent
    /\ Cache(p)
    /\ buf' = [buf EXCEPT ![p] = disk[p]]
    /\ UNCHANGED <<npages, changed>>

(* The client stores into a page that it holds. *)
Change(p) ==
    /\ p \in held
    /\ \E v \in Val : buf' = [buf EXCEPT ![p] = v]
    /\ changed' = changed \cup {p}
    /\ UNCHANGED <<npages, lru, cached, curcache, pinned, dirty, disk, held>>

PutFlags(p, flag) == IF flag THEN dirty \cup {p} ELSE dirty

(* mpool_put.  The client passes MPOOL_DIRTY when it changed the page. *)
Put(p) ==
    /\ p \in held
    /\ \E flag \in BOOLEAN :
         /\ p \in changed => flag
         /\ dirty' = PutFlags(p, flag)
    /\ pinned' = pinned \ {p}
    /\ held' = held \ {p} /\ changed' = changed \ {p}
    /\ UNCHANGED <<npages, lru, cached, curcache, buf, disk>>

(* mpool_sync; __bt_sync has tossed the page pinned across calls. *)
Sync ==
    /\ held = {} /\ dirty # {}
    /\ disk' = Written(dirty) /\ dirty' = {}
    /\ UNCHANGED <<npages, lru, cached, curcache, buf, pinned, held, changed>>

(* The pages of the file, by its size (mpool_open).                        *)
PagesOf(f) == {p \in Pgno : \E q \in Pgno : q >= p /\ f[q] # Absent}

(* __bt_close, that is mpool_sync and mpool_close, and the next mpool_open *)
Reopen ==
    /\ held = {}
    /\ disk' = Written(dirty) /\ dirty' = {}
    /\ npages' \in 0 .. MaxPage /\ \A p \in Pgno : p < npages' <=> p \in PagesOf(disk')
    /\ lru' = <<>> /\ cached' = {} /\ curcache' = 0
    /\ UNCHANGED <<buf, pinned, held, changed>>

MpoolInit ==
    /\ npages = 0
    /\ lru = <<>> /\ cached = {} /\ curcache = 0
    /\ buf \in [Pgno -> Val]
    /\ pinned = {} /\ dirty = {}
    /\ disk = [p \in Pgno |-> Absent]
    /\ held = {} /\ changed = {}

MpoolNext ==
    \/ New \/ Sync \/ Reopen
    \/ \E p \in Pgno : GetCached(p) \/ GetRead(p) \/ Change(p) \/ Put(p)

MpoolSpec == MpoolInit /\ [][MpoolNext]_mpvars
-----------------------------------------------------------------------------
(* A page that the client holds keeps its buffer, and is pinned.           *)
HeldStays == held \subseteq cached /\ pinned = held

(* No page is only in the cache unless it will be written, and no page is  *)
(* nowhere: a buffer that neither is dirty nor will be given back dirty    *)
(* equals the file, and a page without a buffer has been written.          *)
Coherent ==
    /\ HeldStays
    /\ cached \cup dirty \subseteq {p \in Pgno : p < npages} /\ dirty \subseteq cached
    /\ \A p \in Pgno : p >= npages => disk[p] = Absent
    /\ \A p \in cached \ (dirty \cup changed) : buf[p] = disk[p]
    /\ \A p \in Pgno \ cached : p < npages => disk[p] \in Val

(* The queue and the hash table hold the same pages, each once, and the    *)
(* cache outgrows its maximum only by what the client holds.               *)
CacheBounded ==
    /\ {lru[i] : i \in 1 .. Len(lru)} = cached /\ Len(lru) = Cardinality(cached)
    /\ curcache = Cardinality(cached)
    /\ curcache <= MaxCache \/ curcache <= MaxPins

(* What a page contains, for the client.                                   *)
PageContent == [p \in Pgno |-> IF p >= npages THEN Absent
                           ELSE IF p \in cached THEN buf[p] ELSE disk[p]]

(* The btree code sees its pages hold what it stored, whichever of them    *)
(* are evicted, read again, written out or found after a reopening.        *)
Store == INSTANCE PageStore WITH size <- npages, content <- PageContent
ImplementsStore == Store!Spec
=============================================================================
