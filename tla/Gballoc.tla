-------------------------------- MODULE Gballoc --------------------------------
(***************************************************************************)
(* The memory accounting (gballoc.c): malloc, calloc, realloc and free that *)
(* keep a list of the allocations and the total of their sizes, called by  *)
(* several threads.                                                        *)
(*                                                                         *)
(* What a call does while it holds the lock is one step.  gballoc_free     *)
(* reads the head of the list before it takes the lock, so it has two      *)
(* steps.  The C allocator hands out any address that is free, for a block *)
(* as for an entry of the list, or fails.                                  *)
(*                                                                         *)
(* A walk may come upon an entry that was freed meanwhile.  The process     *)
(* may abort there, which ends the behaviour; otherwise it finds another   *)
(* pointer in the entry and goes on over the old link.                     *)
(***************************************************************************)
EXTENDS Naturals, FiniteSets, FiniteSetsExt

CONSTANTS
  Thread,
  Entry,    (* addresses of ALLOCATION records                               *)
  Block,    (* addresses of the blocks handed to the callers                 *)
  Sizes,    (* the sizes asked for                                           *)
  SizeMod,  (* size_t counts modulo this                                     *)
  MaxCalls, (* bound on the calls that allocate, resize, or clear the totals *)
  NULL      (* a null pointer, nobody, nothing                               *)

ASSUME GballocAssumption ==
  /\ IsFiniteSet(Entry) /\ IsFiniteSet(Block) /\ IsFiniteSet(Thread)
  /\ SizeMod \in Nat \ {0}
  /\ Sizes \subseteq 1 .. SizeMod - 1
  /\ MaxCalls \in Nat
  /\ NULL \notin Thread \cup Entry \cup Block

VARIABLES
  initialized,   (* gballocState is GBALLOC_STATE_INIT                       *)
  lock,          (* the thread that holds the lock for ever, or NULL         *)
  head,          (* the first entry                                          *)
  next, ptr, size, (* the fields of the entries                              *)
  totalSize, maxSize, allocations,
  freeing,       (* what a thread in gballoc_free holds: ptr and curr        *)
  (* The C heap and the callers:                                             *)
  entries,       (* the entries that are allocated                           *)
  blocks,        (* the blocks that are allocated                            *)
  held,          (* the blocks a caller may use, resize and free             *)
  calls,
  (* History, read by the properties only:                                   *)
  asked,         (* the size of a block as its owner asked for it, 0 if the  *)
                 (* block is not tracked                                     *)
  forgotten,     (* the sizes listed when the totals were last cleared       *)
  harm           (* what has gone wrong already: "stale" for a harmful stale *)
                 (* head, "outside" for a tracked block freed or resized     *)
                 (* while the module was not initialized                     *)

list == <<head, next, ptr, size>>
totals == <<totalSize, maxSize, allocations>>
heap == <<entries, blocks, held>>
gballocVars == <<initialized, lock, list, totals, freeing, heap, calls, asked,
          forgotten, harm>>

Idle == [ptr |-> NULL, curr |-> NULL]

GballocTypeOK ==
  /\ initialized \in BOOLEAN /\ lock \in Thread \cup {NULL}
  /\ head \in Entry \cup {NULL}
  /\ next \in [Entry -> Entry \cup {NULL}]
  /\ ptr \in [Entry -> Block \cup {NULL}]
  /\ size \in [Entry -> Sizes \cup {0}]
  /\ totalSize \in 0 .. SizeMod - 1 /\ maxSize \in 0 .. SizeMod - 1
  /\ allocations \in 0 .. MaxCalls
  /\ freeing \in [Thread -> [ptr : Block \cup {NULL}, curr : Entry \cup {NULL}]]
  /\ entries \subseteq Entry /\ blocks \subseteq Block /\ held \subseteq blocks
  /\ calls \in 0 .. MaxCalls
  /\ asked \in [Block -> Sizes \cup {0}]
  /\ forgotten \in Nat
  /\ harm \subseteq {"stale", "outside"}

GballocInit ==
  /\ initialized = FALSE /\ lock = NULL
  /\ head = NULL
  /\ next = [e \in Entry |-> NULL] /\ ptr = [e \in Entry |-> NULL]
  /\ size = [e \in Entry |-> 0]
  /\ totalSize = 0 /\ maxSize = 0 /\ allocations = 0
  /\ freeing = [t \in Thread |-> Idle]
  /\ entries = {} /\ blocks = {} /\ held = {}
  /\ calls = 0
  /\ asked = [b \in Block |-> 0]
  /\ forgotten = 0 /\ harm = {}

-------------------------------------------------------------------------------
(* The walk from entry c: the entry after n links.                          *)
Nth(c) == LET at[n \in 0 .. Cardinality(Entry)] ==
                IF n = 0 THEN c
                ELSE IF at[n - 1] = NULL THEN NULL ELSE next[at[n - 1]]
          IN at

(* The entries the walk visits, and whether it comes to an end.             *)
Trail(c) == {Nth(c)[n] : n \in 0 .. Cardinality(Entry)} \ {NULL}
Ends(c) == Nth(c)[Cardinality(Entry)] = NULL

(* A freed entry no longer shows the pointer it had.                        *)
Matches(e, b) == e \in entries /\ ptr[e] = b

(* How many links the walk from c follows to find b; there is such an n.    *)
Steps(c, b) ==
  CHOOSE n \in 0 .. Cardinality(Entry) :
    /\ Nth(c)[n] # NULL /\ Matches(Nth(c)[n], b)
    /\ \A m \in 0 .. n - 1 : ~Matches(Nth(c)[m], b)

Found(c, b) == \E e \in Trail(c) : Matches(e, b)

Visited(c, b) ==
  IF Found(c, b) THEN {Nth(c)[n] : n \in 0 .. Steps(c, b)} ELSE Trail(c)

SumOf(f, S) == FoldSet(LAMBDA x, s : f[x] + s, 0, S)

Listed(E) == SumOf(size, E)

Minus(a, b) == (a + SizeMod - b) % SizeMod

Tracked(b) == asked[b] # 0

(* The C heap is smaller than what size_t counts: it does not hold tracked  *)
(* blocks of a as their sizes at a time if those are SizeMod bytes together. *)
Fits(a) == SumOf(a, Block) < SizeMod

-------------------------------------------------------------------------------
(* totalSize, maxSize and g_allocations after an allocation of s bytes on   *)
(* top of a total of t.                                                     *)
Count(t, s) ==
  /\ totalSize' = (t + s) % SizeMod
  /\ maxSize' = IF maxSize < totalSize' THEN totalSize' ELSE maxSize
  /\ allocations' = allocations + 1

(* The total without what entry e is counted for.                           *)
(* Mutant: gballoc_realloc and gballoc_free forget to take it off.          *)
Without_Kept(e) == totalSize

Without(e) == Minus(totalSize, size[e])

(* What a new entry links: the list there was.                              *)
(* Mutant: head is set before next.                                         *)
Link_Self(e) == e

Link(e) == head

(* A new entry for block b goes to the head of the list.                    *)
Track(b, s) == \E e \in Entry \ entries :
  /\ next' = [next EXCEPT ![e] = Link(e)]
  /\ ptr' = [ptr EXCEPT ![e] = b]
  /\ size' = [size EXCEPT ![e] = s]
  /\ head' = e
  /\ entries' = entries \cup {e}
  /\ asked' = [asked EXCEPT ![b] = s]
  /\ Fits(asked')
  /\ Count(totalSize, s)

Running == calls < MaxCalls /\ calls' = calls + 1

(* The caller of malloc, calloc and of a realloc of NULL.  A call that gets *)
(* no lock, no entry or no block returns NULL and changes nothing.           *)
Allocate(s) ==
  /\ Running
  /\ initialized => lock = NULL
  /\ \E b \in Block \ blocks :
       /\ blocks' = blocks \cup {b} /\ held' = held \cup {b}
       /\ \/ initialized /\ Track(b, s)
          \/ ~initialized /\ UNCHANGED <<list, totals, entries, asked>>
  /\ UNCHANGED <<initialized, lock, freeing, forgotten, harm>>

Malloc(t) == freeing[t] = Idle /\ \E s \in Sizes : Allocate(s)

Calloc(t) ==
  /\ freeing[t] = Idle
  /\ \E nmemb \in Sizes, s \in Sizes : nmemb * s \in Sizes /\ Allocate(nmemb * s)

(* gballoc_realloc of a block that moves from b to c (or stays).            *)
Move(b, c) ==
  /\ blocks' = (blocks \ {b}) \cup {c}
  /\ held' = (held \ {b}) \cup {c}

ReallocTracked(t, b) ==
  /\ initialized /\ lock = NULL /\ Found(head, b)
  /\ \E s \in Sizes, c \in (Block \ blocks) \cup {b} :
       LET e == Nth(head)[Steps(head, b)] IN
       /\ ptr' = [ptr EXCEPT ![e] = c]
       /\ size' = [size EXCEPT ![e] = s]
       /\ Count(Without(e), s)
       /\ asked' = [asked EXCEPT ![b] = 0, ![c] = s]
       /\ Fits(asked')
       /\ Move(b, c)
  /\ harm' = harm \cup
       (IF Visited(head, b) \subseteq entries THEN {} ELSE {"stale"})
  /\ UNCHANGED <<lock, head, next>>

(* Not in the list: NULL, or a walk in a circle with the lock held.         *)
ReallocUnknown(t, b) ==
  /\ initialized /\ lock = NULL /\ ~Found(head, b)
  /\ lock' = IF Ends(head) THEN NULL ELSE t
  /\ UNCHANGED <<list, totals, blocks, held, asked, harm>>

ReallocOutside(t, b) ==
  /\ ~initialized
  /\ \E c \in (Block \ blocks) \cup {b} :
       /\ Move(b, c)
       /\ asked' = [asked EXCEPT ![b] = 0]
  /\ harm' = harm \cup (IF Tracked(b) THEN {"outside"} ELSE {})
  /\ UNCHANGED <<lock, list, totals>>

Realloc(t) ==
  /\ Running /\ freeing[t] = Idle
  /\ \E b \in held :
       ReallocTracked(t, b) \/ ReallocUnknown(t, b) \/ ReallocOutside(t, b)
  /\ UNCHANGED <<initialized, freeing, entries, forgotten>>

(* gballoc_free: reads head, before anything else.                          *)
Free(t) == \E b \in held :
  /\ freeing[t] = Idle /\ initialized
  /\ freeing' = [freeing EXCEPT ![t] = [ptr |-> b, curr |-> head]]
  /\ held' = held \ {b}
  /\ UNCHANGED <<initialized, lock, list, totals, entries, blocks, calls, asked,
                 forgotten, harm>>

(* Entry e, n links after curr, is unlinked: from the entry before it, or   *)
(* from head when it is the first of the walk, whatever head is by now.      *)
Unlink(c, n, e) ==
  IF n > 0
  THEN next' = [next EXCEPT ![Nth(c)[n - 1]] = next[e]] /\ UNCHANGED head
  ELSE head' = next[e] /\ UNCHANGED next

FreeFound(t) ==
  LET b == freeing[t].ptr
      c == freeing[t].curr
      n == Steps(c, b)
      e == Nth(c)[n]
  IN
  /\ Found(c, b)
  /\ blocks' = blocks \ {b} /\ entries' = entries \ {e}
  /\ totalSize' = Without(e)
  /\ Unlink(c, n, e)
  /\ ptr' = [ptr EXCEPT ![e] = NULL] /\ size' = [size EXCEPT ![e] = 0]
  /\ asked' = [asked EXCEPT ![b] = 0]
  /\ harm' = harm \cup
       (IF Visited(c, b) \subseteq entries /\ (n = 0 => c = head)
        THEN {} ELSE {"stale"})
  /\ lock' = NULL
  /\ freeing' = [freeing EXCEPT ![t] = Idle]
  /\ UNCHANGED <<maxSize, allocations>>

(* The pointer is not found: the block is leaked, or the walk never ends.   *)
FreeUnknown(t) ==
  LET c == freeing[t].curr IN
  /\ ~Found(c, freeing[t].ptr)
  /\ lock' = IF Ends(c) THEN NULL ELSE t
  /\ freeing' = IF Ends(c) THEN [freeing EXCEPT ![t] = Idle] ELSE freeing
  /\ harm' = harm \cup (IF Trail(c) \subseteq entries THEN {} ELSE {"stale"})
  /\ UNCHANGED <<list, totals, blocks, entries, asked>>

(* gballoc_free: the rest, with the lock.                                   *)
FreeLocked(t) ==
  /\ freeing[t] # Idle /\ lock = NULL
  /\ FreeFound(t) \/ FreeUnknown(t)
  /\ UNCHANGED <<initialized, held, calls, forgotten>>

(* The lock could not be taken: nothing is freed.                           *)
FreeNoLock(t) ==
  /\ freeing[t] # Idle /\ lock = NULL
  /\ freeing' = [freeing EXCEPT ![t] = Idle]
  /\ UNCHANGED <<initialized, lock, list, totals, heap, calls, asked, forgotten,
                 harm>>

(* gballoc_free while the module is not initialized: plain free.            *)
FreeOutside(t) == \E b \in held :
  /\ freeing[t] = Idle /\ ~initialized
  /\ blocks' = blocks \ {b} /\ held' = held \ {b}
  /\ asked' = [asked EXCEPT ![b] = 0]
  /\ harm' = harm \cup (IF Tracked(b) THEN {"outside"} ELSE {})
  /\ UNCHANGED <<initialized, lock, list, totals, entries, freeing, calls,
                 forgotten>>

ClearTotals ==
  /\ totalSize' = 0 /\ maxSize' = 0 /\ allocations' = 0
  /\ forgotten' = Listed(entries)

ResetMetrics ==
  /\ Running /\ initialized /\ lock = NULL
  /\ ClearTotals
  /\ UNCHANGED <<initialized, lock, list, freeing, heap, asked, harm>>

(* Nobody is inside the module when it is initialized or deinitialized.     *)
Quiet == \A t \in Thread : freeing[t] = Idle

(* gballoc_init clears the totals and leaves the list as it is.             *)
InitModule ==
  /\ Running /\ Quiet /\ lock = NULL /\ ~initialized
  /\ initialized' = TRUE
  /\ ClearTotals
  /\ UNCHANGED <<lock, list, freeing, heap, asked, harm>>

DeinitModule ==
  /\ Quiet /\ lock = NULL /\ initialized
  /\ initialized' = FALSE
  /\ UNCHANGED <<lock, list, totals, freeing, heap, calls, asked, forgotten, harm>>

GballocNext ==
  \/ \E t \in Thread :
       \/ Malloc(t) \/ Calloc(t) \/ Realloc(t)
       \/ Free(t) \/ FreeLocked(t) \/ FreeNoLock(t) \/ FreeOutside(t)
  \/ ResetMetrics \/ InitModule \/ DeinitModule

GballocSpec == GballocInit /\ [][GballocNext]_gballocVars

-------------------------------------------------------------------------------
(* The list is what the callers have: unless a stale head has done harm, the *)
(* walk from head ends (so no call keeps the lock for ever) and meets every *)
(* entry that is allocated and no other; and unless tracked blocks were     *)
(* freed outside, the blocks it finds are the tracked ones, each with the   *)
(* size asked for last.  gballoc_free                                       *)
(* may start from a head read long before: it must do no harm as long as    *)
(* that entry is still allocated and is not the one to unlink.              *)
ListIsExact ==
  "stale" \notin harm =>
    /\ lock = NULL /\ Ends(head) /\ Trail(head) = entries
    /\ "outside" \notin harm => \A b \in Block :
         IF Tracked(b)
         THEN Found(head, b) /\ size[Nth(head)[Steps(head, b)]] = asked[b]
         ELSE ~Found(head, b)

(* SRS_GBALLOC_01_033: gballoc_free ensures thread safety by using the lock; *)
(* so whoever calls what meanwhile, no thread keeps the lock for ever and   *)
(* the list is what is allocated.  The code breaks it: the walk starts from *)
(* a head read before the lock was taken.                                   *)
FreeIsThreadSafe == lock = NULL /\ Ends(head) /\ Trail(head) = entries

(* The totals agree with the list, although gballoc_resetMetrics and        *)
(* gballoc_init clear them and leave the list: what is listed is the total   *)
(* and what was listed when it was cleared, modulo the width of size_t (the *)
(* total wraps when entries of before are freed).  As long as nothing was   *)
(* forgotten, and no tracked block was freed outside, the total is exact    *)
(* and the maximum is one.                                                  *)
TotalIsExact ==
  "stale" \notin harm =>
    /\ (totalSize + forgotten) % SizeMod = Listed(entries) % SizeMod
    /\ "outside" \notin harm /\ forgotten = 0 =>
         totalSize = Listed(entries) /\ totalSize <= maxSize

================================================================================
