---------------------------- MODULE RuntimeProofs ----------------------------
(***************************************************************************)
(* What is proved of the C runtime, for any places, sizes and variables:   *)
(* blocks go back to their allocator and the collector's keep their tails  *)
(* (compiler_gc.c), and arrays stay in bounds and are the sequences the    *)
(* language promises (runtime.c).                                          *)
(***************************************************************************)
EXTENDS BridgeClient, ArrayRuntime, SequenceTheorems, WellFoundedInduction, TLAPS

Bodies == {Empty} \cup {Pointers(S) : S \in SUBSET Addrs}
Used == [owner : {"gc", "libc"}, room : 0..SizeMax, body : Bodies]
Heaps == [Addrs -> Used \cup {Free}]

BridgeTypeOK ==
    /\ blocks \in Heaps
    /\ held \in [Locals -> Addrs \cup {NULL}]
    /\ asked \in [Addrs -> 0..SizeMax]
    /\ misrouted \in BOOLEAN

(* A block has what it was asked for, and the tail if the collector has it *)
(* and it fits.                                                            *)
Tailed(h, size) ==
    \A a \in Addrs : h[a].owner = "gc" /\ size[a] <= SizeMax - SeedTail => h[a].room >= size[a] + SeedTail

BridgeInv == BridgeTypeOK /\ RoutedHome /\ Tailed(blocks, asked)

(* What an operation that was asked for `size' may do to the heap h.       *)
Proper(o, h, size) ==
    /\ o.heap \in Heaps /\ o.addr \in Addrs \cup {NULL} /\ o.routed
    /\ \A a \in Addrs \ {o.addr} : o.heap[a] \in {h[a], Free}
    /\ o.addr # NULL /\ o.heap[o.addr].owner = "gc" /\ size <= SizeMax - SeedTail
            => o.heap[o.addr].room >= size + SeedTail

LEMMA FreeIsNotUsed == Free \notin Used /\ Free.owner = "none"
  BY DEF Free, Used

LEMMA PaddedFits ==
  ASSUME NEW size \in 0..SizeMax
  PROVE  /\ Padded(size) \in 0..SizeMax
         /\ size <= SizeMax - SeedTail => Padded(size) >= size + SeedTail
  BY HeapAssumption, TailAssumption DEF Padded

(* Room for the request, or for the tail too if the collector is asked.    *)
HasTail(owner, room, size) == owner = "gc" /\ size <= SizeMax - SeedTail => room >= size + SeedTail

LEMMA BlockUsed ==
  ASSUME NEW owner \in {"gc", "libc"}, NEW room \in 0..SizeMax, NEW body \in Bodies
  PROVE  /\ Block(owner, room, body) \in Used
         /\ Block(owner, room, body).owner = owner
         /\ Block(owner, room, body).room = room
  BY DEF Block, Used

(* A block of an allocator's, or none, is what allocating gives.           *)
LEMMA AllocateProper ==
  ASSUME NEW h \in Heaps, NEW owner \in {"gc", "libc"}, NEW room \in 0..SizeMax, NEW size \in 0..SizeMax,
         HasTail(owner, room, size), NEW o \in Allocate(h, owner, room)
  PROVE  Proper(o, h, size)
<1>1. CASE o = Failed(h)
  BY <1>1, HeapAssumption DEF Failed, Outcome, Proper
<1>2. CASE \E a \in Vacant(h) : o = Outcome([h EXCEPT ![a] = Block(owner, room, Empty)], a, TRUE)
  <2>1. PICK a \in Vacant(h) : o = Outcome([h EXCEPT ![a] = Block(owner, room, Empty)], a, TRUE)
    BY <1>2
  <2>2. a \in Addrs /\ a # NULL
    BY <2>1, HeapAssumption DEF Vacant
  <2>3. Block(owner, room, Empty) \in Used /\ Block(owner, room, Empty).owner = owner
            /\ Block(owner, room, Empty).room = room
    BY BlockUsed DEF Bodies
  <2>4. o.heap = [h EXCEPT ![a] = Block(owner, room, Empty)] /\ o.addr = a /\ o.routed
    BY <2>1 DEF Outcome
  <2>5. o.heap \in Heaps /\ o.heap[a] = Block(owner, room, Empty)
    BY <2>2, <2>3, <2>4 DEF Heaps
  <2>6. \A b \in Addrs \ {a} : o.heap[b] = h[b]
    BY <2>4 DEF Heaps
  <2> QED BY <2>2, <2>3, <2>4, <2>5, <2>6 DEF Proper, HasTail
<1> QED BY <1>1, <1>2 DEF Allocate

(* A block that is given back to its own allocator.                        *)
LEMMA ReleaseProper ==
  ASSUME NEW h \in Heaps, NEW a \in Addrs, NEW size \in 0..SizeMax
  PROVE  Proper(Release(h, h[a].owner, a), h, size)
<1> DEFINE o == Release(h, h[a].owner, a)
<1>1. o.heap = [h EXCEPT ![a] = Free] /\ o.addr = NULL /\ o.routed
  BY DEF Release, Outcome
<1>2. o.heap \in Heaps /\ \A b \in Addrs : o.heap[b] \in {h[b], Free}
  BY <1>1 DEF Heaps
<1> QED BY <1>1, <1>2, HeapAssumption DEF Proper

(* A block that is resized by its own allocator.                           *)
LEMMA ResizeProper ==
  ASSUME NEW h \in Heaps, NEW a \in Addrs, h[a] # Free, NEW room \in 0..SizeMax, NEW size \in 0..SizeMax,
         HasTail(h[a].owner, room, size), NEW o \in Resize(h, h[a].owner, a, room)
  PROVE  Proper(o, h, size)
<1> DEFINE grown == Block(h[a].owner, room, h[a].body)
<1>1. h[a] \in Used
  BY DEF Heaps
<1>2. grown \in Used /\ grown.owner = h[a].owner /\ grown.room = room
  <2>1. h[a].owner \in {"gc", "libc"} /\ h[a].body \in Bodies
    BY <1>1 DEF Used
  <2> QED BY <2>1, BlockUsed
<1>3. a # NULL
  BY HeapAssumption
<1>4. CASE o = Outcome([h EXCEPT ![a] = grown], a, TRUE)
  <2>1. o.heap = [h EXCEPT ![a] = grown] /\ o.addr = a /\ o.routed
    BY <1>4 DEF Outcome
  <2>2. o.heap \in Heaps /\ o.heap[a] = grown /\ \A b \in Addrs \ {a} : o.heap[b] = h[b]
    BY <1>2, <2>1 DEF Heaps
  <2> HIDE DEF grown
  <2> QED BY <1>2, <1>3, <2>1, <2>2 DEF Proper, HasTail
<1>5. CASE o = Outcome(h, NULL, TRUE)
  BY <1>5 DEF Outcome, Proper
<1>6. CASE \E b \in Vacant(h) : o = Outcome([h EXCEPT ![a] = Free, ![b] = grown], b, TRUE)
  <2>1. PICK b \in Vacant(h) : o = Outcome([h EXCEPT ![a] = Free, ![b] = grown], b, TRUE)
    BY <1>6
  <2>2. b \in Addrs /\ b # a /\ b # NULL
    BY <2>1, HeapAssumption DEF Vacant
  <2>3. o.heap = [h EXCEPT ![a] = Free, ![b] = grown] /\ o.addr = b /\ o.routed
    BY <2>1 DEF Outcome
  <2>4. o.heap \in Heaps /\ o.heap[b] = grown /\ \A c \in Addrs \ {b} : o.heap[c] \in {h[c], Free}
    BY <1>2, <2>2, <2>3 DEF Heaps
  <2> HIDE DEF grown
  <2> QED BY <1>2, <2>2, <2>3, <2>4 DEF Proper, HasTail
<1>7. o \in {Outcome([h EXCEPT ![a] = grown], a, TRUE), Outcome(h, NULL, TRUE)}
              \cup {Outcome([h EXCEPT ![a] = Free, ![b] = grown], b, TRUE) : b \in Vacant(h)}
  BY DEF Resize
<1> QED BY <1>4, <1>5, <1>6, <1>7

-----------------------------------------------------------------------------
(* The bridge.                                                             *)
LEMMA MallocProper ==
  ASSUME NEW h \in Heaps, NEW size \in 0..SizeMax, NEW o \in wrap_malloc(h, size)
  PROVE  Proper(o, h, size)
<1>1. Padded(size) \in 0..SizeMax /\ HasTail("gc", Padded(size), size)
  BY PaddedFits DEF HasTail
<1>2. o \in Allocate(h, "gc", Padded(size))
  BY DEF wrap_malloc
<1> QED BY <1>1, <1>2, AllocateProper

LEMMA CallocProper ==
  ASSUME NEW h \in Heaps, NEW size \in 0..SizeMax, NEW o \in Allocate(h, "libc", size)
  PROVE  Proper(o, h, size)
<1>1. HasTail("libc", size, size)
  BY DEF HasTail
<1> QED BY <1>1, AllocateProper

LEMMA FreeProper ==
  ASSUME NEW h \in Heaps, NEW a \in Addrs, h[a] # Free, NEW size \in 0..SizeMax
  PROVE  Proper(wrap_free(h, a), h, size) /\ wrap_free(h, a).addr = NULL
<1>1. h[a].owner \in {"gc", "libc"}
  BY DEF Heaps, Used
<1>2. wrap_free(h, a) = Release(h, h[a].owner, a)
  BY <1>1, HeapAssumption DEF wrap_free, FromCollector
<1>3. Release(h, h[a].owner, a).addr = NULL
  BY DEF Release, Outcome
<1> QED BY <1>2, <1>3, ReleaseProper

LEMMA ReallocProper ==
  ASSUME NEW h \in Heaps, NEW a \in Addrs, h[a] # Free, NEW size \in 0..SizeMax,
         NEW o \in wrap_realloc(h, a, size)
  PROVE  Proper(o, h, size)
<1>1. h[a].owner \in {"gc", "libc"} /\ a # NULL
  BY HeapAssumption DEF Heaps, Used
<1>2. CASE size = 0
  <2>1. o = Release(h, h[a].owner, a)
    BY <1>1, <1>2 DEF wrap_realloc, FromCollector, Reallocate
  <2> QED BY <2>1, ReleaseProper
<1>3. CASE size # 0 /\ h[a].owner = "gc"
  <2>1. Padded(size) \in 0..SizeMax /\ HasTail("gc", Padded(size), size)
    BY PaddedFits DEF HasTail
  <2>2. Padded(size) # 0
    BY <1>3, HeapAssumption, TailAssumption DEF Padded
  <2>3. o \in Resize(h, h[a].owner, a, Padded(size))
    BY <1>1, <1>3, <2>2 DEF wrap_realloc, FromCollector, Reallocate
  <2> QED BY <1>3, <2>1, <2>3, ResizeProper
<1>4. CASE size # 0 /\ h[a].owner = "libc"
  <2>1. HasTail(h[a].owner, size, size)
    BY <1>4 DEF HasTail
  <2>2. o \in Resize(h, h[a].owner, a, size)
    BY <1>1, <1>4 DEF wrap_realloc, FromCollector, Reallocate
  <2> QED BY <2>1, <2>2, ResizeProper
<1> QED BY <1>1, <1>2, <1>3, <1>4

-----------------------------------------------------------------------------
(* An operation that is proper, and recorded, keeps the invariant.         *)
LEMMA ProperKeeps ==
  ASSUME BridgeInv, NEW size \in 0..SizeMax, NEW o, Proper(o, blocks, size),
         blocks' = o.heap, asked' = Requested(o, size), misrouted' = (misrouted \/ ~o.routed),
         held' \in [Locals -> Addrs \cup {NULL}]
  PROVE  BridgeInv'
<1>1. o.heap \in Heaps /\ o.addr \in Addrs \cup {NULL} /\ o.routed
  BY DEF Proper
<1>2. asked' \in [Addrs -> 0..SizeMax]
  BY <1>1, HeapAssumption DEF Requested, BridgeInv, BridgeTypeOK
<1>3. misrouted' = FALSE
  BY <1>1 DEF BridgeInv, RoutedHome, BridgeTypeOK
<1>4. ASSUME NEW a \in Addrs, blocks'[a].owner = "gc", asked'[a] <= SizeMax - SeedTail
      PROVE  blocks'[a].room >= asked'[a] + SeedTail
  <2>1. CASE a = o.addr
    <3>1. asked'[a] = size
      BY <2>1, HeapAssumption DEF Requested, BridgeInv, BridgeTypeOK
    <3> QED BY <1>4, <2>1, <3>1, HeapAssumption DEF Proper
  <2>2. CASE a # o.addr
    <3>1. blocks'[a] = blocks[a]
      BY <1>4, <2>2, FreeIsNotUsed DEF Proper
    <3>2. asked'[a] = asked[a]
      BY <2>2 DEF Requested, BridgeInv, BridgeTypeOK
    <3> QED BY <1>4, <3>1, <3>2 DEF BridgeInv, Tailed
  <2> QED BY <2>1, <2>2
<1> QED BY <1>1, <1>2, <1>3, <1>4 DEF BridgeInv, BridgeTypeOK, RoutedHome, Tailed

(* Blocks that are as before but for what they hold, or are gone.          *)
LEMMA UnresizedKeeps ==
  ASSUME BridgeInv, blocks' \in Heaps, held' \in [Locals -> Addrs \cup {NULL}], UNCHANGED <<asked, misrouted>>,
         \A a \in Addrs : \/ blocks'[a] = Free
                          \/ blocks'[a].owner = blocks[a].owner /\ blocks'[a].room = blocks[a].room
  PROVE  BridgeInv'
<1>1. ASSUME NEW a \in Addrs, blocks'[a].owner = "gc", asked'[a] <= SizeMax - SeedTail
      PROVE  blocks'[a].room >= asked'[a] + SeedTail
  BY <1>1, FreeIsNotUsed DEF BridgeInv, Tailed
<1> QED BY <1>1 DEF BridgeInv, BridgeTypeOK, RoutedHome, Tailed

LEMMA BridgeInitInv == BridgeInit => BridgeInv
<1> SUFFICES ASSUME BridgeInit PROVE BridgeInv
  OBVIOUS
<1>1. BridgeTypeOK
  <2>1. blocks \in Heaps
    BY DEF BridgeInit, Heaps
  <2>2. asked \in [Addrs -> 0..SizeMax]
    BY HeapAssumption DEF BridgeInit
  <2> QED BY <2>1, <2>2 DEF BridgeInit, BridgeTypeOK
<1>2. Tailed(blocks, asked)
  BY FreeIsNotUsed DEF BridgeInit, Tailed
<1> QED BY <1>1, <1>2 DEF BridgeInit, BridgeInv, RoutedHome

LEMMA ObtainKeeps ==
  ASSUME BridgeInv, NEW v \in Locals, NEW size \in 0..SizeMax, NEW outcomes, Obtain(v, outcomes, size),
         \A o \in outcomes : Proper(o, blocks, size)
  PROVE  BridgeInv'
<1>1. PICK o \in outcomes :
        /\ blocks' = o.heap /\ held' = [held EXCEPT ![v] = o.addr]
        /\ asked' = Requested(o, size) /\ misrouted' = (misrouted \/ ~o.routed)
  BY DEF Obtain
<1>2. Proper(o, blocks, size) /\ o.addr \in Addrs \cup {NULL}
  BY DEF Proper
<1>3. held' \in [Locals -> Addrs \cup {NULL}]
  BY <1>1, <1>2 DEF BridgeInv, BridgeTypeOK
<1> QED BY <1>1, <1>2, <1>3, ProperKeeps

LEMMA ReallocKeeps ==
  ASSUME BridgeInv, NEW v \in Locals, NEW size \in 0..SizeMax, Realloc(v, size)
  PROVE  BridgeInv'
<1>1. held[v] \in Addrs /\ blocks[held[v]] # Free
  BY DEF Realloc, Present
<1>2. PICK o \in wrap_realloc(blocks, held[v], size) :
        /\ blocks' = o.heap
        /\ held' = [held EXCEPT ![v] = IF o.addr = NULL /\ size # 0 THEN @ ELSE o.addr]
        /\ asked' = Requested(o, size) /\ misrouted' = (misrouted \/ ~o.routed)
  BY DEF Realloc
<1>3. blocks \in Heaps
  BY DEF BridgeInv, BridgeTypeOK
<1>4. Proper(o, blocks, size)
  BY <1>1, <1>2, <1>3, ReallocProper
<1>5. held' \in [Locals -> Addrs \cup {NULL}]
  BY <1>2, <1>4 DEF BridgeInv, BridgeTypeOK, Proper
<1> QED BY <1>2, <1>4, <1>5, ProperKeeps

LEMMA FreeKeeps ==
  ASSUME BridgeInv, NEW v \in Locals, FreeBlock(v)
  PROVE  BridgeInv'
<1> DEFINE o == wrap_free(blocks, held[v])
<1>1. held[v] \in Addrs /\ blocks[held[v]] # Free /\ blocks \in Heaps /\ 0 \in 0..SizeMax
  BY HeapAssumption DEF FreeBlock, Present, BridgeInv, BridgeTypeOK
<1>2. Proper(o, blocks, 0) /\ o.addr = NULL
  BY <1>1, FreeProper
<1>3. blocks' = o.heap /\ misrouted' = (misrouted \/ ~o.routed) /\ asked' = asked
        /\ held' = [held EXCEPT ![v] = NULL]
  BY DEF FreeBlock
<1>4. held' \in [Locals -> Addrs \cup {NULL}]
  BY <1>3 DEF BridgeInv, BridgeTypeOK
<1>5. asked' = Requested(o, 0)
  BY <1>2, <1>3 DEF Requested
<1> HIDE DEF o
<1> QED BY <1>1, <1>2, <1>3, <1>4, <1>5, ProperKeeps

(* What a block points to has a place.                                     *)
LEMMA TargetsAreBlocks ==
  ASSUME NEW a \in Addrs, blocks[a] \in Used
  PROVE  Targets(a) \subseteq Addrs
<1> SUFFICES ASSUME blocks[a].body.kind = "pointers" PROVE blocks[a].body.to \subseteq Addrs
  BY DEF Targets
<1>1. blocks[a].body \in Bodies
  BY DEF Used
<1>2. blocks[a].body # Empty
  BY DEF Empty
<1>3. PICK S \in SUBSET Addrs : blocks[a].body = Pointers(S)
  BY <1>1, <1>2 DEF Bodies
<1> QED BY <1>3 DEF Pointers

LEMMA StoreKeeps ==
  ASSUME BridgeInv, NEW v \in Locals, NEW w \in Locals, StorePointer(v, w)
  PROVE  BridgeInv'
<1> DEFINE a == held[v]
           body == Pointers(Targets(a) \cup {held[w]})
<1>1. a \in Addrs /\ held[w] \in Addrs /\ blocks[a] \in Used /\ blocks \in Heaps
  BY DEF StorePointer, Present, BridgeInv, BridgeTypeOK, Heaps
<1>2. Targets(a) \subseteq Addrs
  BY <1>1, TargetsAreBlocks
<1>3. body \in Bodies
  BY <1>1, <1>2 DEF Bodies
<1>4. blocks' = [blocks EXCEPT ![a].body = body] /\ held' = [held EXCEPT ![w] = NULL]
        /\ UNCHANGED <<asked, misrouted>>
  BY DEF StorePointer
<1> HIDE DEF body, a
<1>5. [blocks[a] EXCEPT !.body = body] \in Used
        /\ [blocks[a] EXCEPT !.body = body].owner = blocks[a].owner
        /\ [blocks[a] EXCEPT !.body = body].room = blocks[a].room
  BY <1>1, <1>3 DEF Used
<1>6. blocks' = [blocks EXCEPT ![a] = [blocks[a] EXCEPT !.body = body]]
  BY <1>4
<1>7. blocks' \in Heaps /\ \A b \in Addrs :
        blocks'[b].owner = blocks[b].owner /\ blocks'[b].room = blocks[b].room
  BY <1>1, <1>5, <1>6 DEF Heaps
<1>8. held' \in [Locals -> Addrs \cup {NULL}]
  BY <1>4 DEF BridgeInv, BridgeTypeOK
<1> QED BY <1>4, <1>7, <1>8, UnresizedKeeps

LEMMA ReadKeeps ==
  ASSUME BridgeInv, NEW v \in Locals, NEW w \in Locals, ReadPointer(v, w)
  PROVE  BridgeInv'
<1>1. held[v] \in Addrs /\ blocks[held[v]] \in Used /\ blocks \in Heaps
  BY DEF ReadPointer, Present, BridgeInv, BridgeTypeOK, Heaps
<1>2. Targets(held[v]) \subseteq Addrs
  BY <1>1, TargetsAreBlocks
<1>3. held' \in [Locals -> Addrs \cup {NULL}]
  BY <1>2 DEF ReadPointer, BridgeInv, BridgeTypeOK
<1> QED BY <1>1, <1>3, UnresizedKeeps DEF ReadPointer

LEMMA CollectKeeps ==
  ASSUME BridgeInv, Collect
  PROVE  BridgeInv'
<1> DEFINE lost == GcBlocks \ Found(GcBlocks)
<1>1. blocks' = [a \in Addrs |-> IF a \in lost THEN Free ELSE blocks[a]] /\ UNCHANGED <<held, asked, misrouted>>
  BY DEF Collect
<1> HIDE DEF lost
<1>2. blocks' \in Heaps /\ \A a \in Addrs : blocks'[a] \in {Free, blocks[a]}
  BY <1>1 DEF BridgeInv, BridgeTypeOK, Heaps
<1>3. held' \in [Locals -> Addrs \cup {NULL}]
  BY <1>1 DEF BridgeInv, BridgeTypeOK
<1> QED BY <1>1, <1>2, <1>3, UnresizedKeeps

LEMMA BridgeStep == BridgeInv /\ [BridgeNext]_bridgeVars => BridgeInv'
<1> SUFFICES ASSUME BridgeInv, [BridgeNext]_bridgeVars PROVE BridgeInv'
  OBVIOUS
<1>1. blocks \in Heaps
  BY DEF BridgeInv, BridgeTypeOK
<1>2. Requests \subseteq 0..SizeMax /\ 0 \in 0..SizeMax
  BY RequestsAssumption, HeapAssumption
<1>3. ASSUME NEW v \in Locals, NEW size \in Requests, Malloc(v, size) PROVE BridgeInv'
  BY <1>1, <1>2, <1>3, MallocProper, ObtainKeeps DEF Malloc
<1>4. ASSUME NEW v \in Locals, NEW size \in Requests, Calloc(v, size) PROVE BridgeInv'
  BY <1>1, <1>2, <1>4, CallocProper, ObtainKeeps DEF Calloc
<1>5. ASSUME NEW v \in Locals, NEW size \in Requests \cup {0}, Realloc(v, size) PROVE BridgeInv'
  BY <1>2, <1>5, ReallocKeeps
<1>6. ASSUME NEW v \in Locals, FreeBlock(v) PROVE BridgeInv'
  BY <1>6, FreeKeeps
<1>7. ASSUME NEW v \in Locals, NEW w \in Locals, StorePointer(v, w) PROVE BridgeInv'
  BY <1>7, StoreKeeps
<1>8. ASSUME NEW v \in Locals, NEW w \in Locals, ReadPointer(v, w) PROVE BridgeInv'
  BY <1>8, ReadKeeps
<1>9. CASE Collect
  BY <1>9, CollectKeeps
<1>10. CASE UNCHANGED bridgeVars
  BY <1>10 DEF bridgeVars, BridgeInv, BridgeTypeOK, RoutedHome, Tailed
<1> QED BY <1>3, <1>4, <1>5, <1>6, <1>7, <1>8, <1>9, <1>10 DEF BridgeNext

LEMMA BridgeAlways == BridgeSpec => []BridgeInv
  BY BridgeInitInv, BridgeStep, PTL DEF BridgeSpec

(* free and realloc hand every block back to the allocator it came from,   *)
(* for any history of blocks of both (wrap_free, wrap_realloc).            *)
THEOREM BlocksRoutedHome == BridgeSpec => []RoutedHome
<1>1. BridgeInv => RoutedHome
  BY DEF BridgeInv
<1> QED BY <1>1, BridgeAlways, PTL

(* Whatever sizes are asked for, and however a block has grown, shrunk and *)
(* moved, one of the collector's has the seed compiler's spare bytes.      *)
THEOREM BlocksKeepTheirTails == BridgeSpec => []TailKept
<1>1. BridgeInv => TailKept
  BY DEF BridgeInv, Tailed, TailKept, GcBlocks
<1> QED BY <1>1, BridgeAlways, PTL

-----------------------------------------------------------------------------
(* Induction over the natural numbers, for a set of them.                  *)
LEMMA Least ==
    ASSUME NEW S \in SUBSET Nat, S # {}
    PROVE  \E m \in S : \A n \in S : m <= n
<1>1. PICK m \in S : \A n \in S : <<n, m>> \notin OpToRel(<, Nat)
  BY NatLessThanWellFounded, WFMin
<1>2. \A n \in S : ~(n < m)  BY <1>1 DEF OpToRel
<1> QED  BY <1>2

LEMMA Upwards ==
    ASSUME NEW S \in SUBSET Nat, 0 \in S, \A n \in S : n + 1 \in S
    PROVE  S = Nat
<1> SUFFICES ASSUME Nat \ S # {} PROVE FALSE
  OBVIOUS
<1>1. PICK m \in Nat \ S : \A n \in Nat \ S : m <= n  BY Least
<1>2. m # 0 /\ m - 1 \in Nat  OBVIOUS
<1>3. m - 1 \in S  BY <1>1, <1>2
<1> QED  BY <1>2, <1>3

-----------------------------------------------------------------------------
(* Doubling.  The loop of vix_array_grown_capacity ends, at a capacity that *)
(* is enough and that an int can hold.                                     *)
Grows(d, needed, c) ==
    IF c >= needed THEN c
    ELSE IF c > IntMax \div 2 THEN needed ELSE d[2 * c]
Doubles(d, needed, low) ==
    d = [c \in low..IntMax |-> d[c]] /\ \A c \in low..IntMax : d[c] = Grows(d, needed, c)

LEMMA DoublingIsDefined ==
    ASSUME NEW needed \in 1..IntMax
    PROVE  Doubled(needed) = [c \in 0..IntMax |-> Grows(Doubled(needed), needed, c)]
<1>0. IntMax \in Nat  BY ArrayAssumption
<1> DEFINE Reached == {m \in Nat : m <= IntMax => \E d : Doubles(d, needed, IntMax + 1 - m)}
<1>1. 0 \in Reached
  <2> DEFINE none == [c \in (IntMax + 1)..IntMax |-> 0]
  <2>1. (IntMax + 1)..IntMax = {}  BY <1>0
  <2>2. Doubles(none, needed, IntMax + 1)  BY <2>1 DEF Doubles
  <2> QED  BY <2>2, <1>0
<1>2. ASSUME NEW m \in Reached PROVE m + 1 \in Reached
  <2> SUFFICES ASSUME m + 1 <= IntMax PROVE \E d : Doubles(d, needed, IntMax - m)
    BY <1>0
  <2>1. PICK d : Doubles(d, needed, IntMax + 1 - m)  BY <1>0
  <2> DEFINE low == IntMax - m
             e == [c \in low..IntMax |-> IF c = low THEN Grows(d, needed, c) ELSE d[c]]
  <2>2. low \in 1..IntMax  BY <1>0
  <2>3. \A c \in low..IntMax : c # low => c \in (IntMax + 1 - m)..IntMax  BY <1>0
  <2>4. \A c \in low..IntMax : ~(c > IntMax \div 2) => 2 * c \in low..IntMax /\ 2 * c # low
    BY <1>0, <2>2
  <2>5. ASSUME NEW c \in low..IntMax PROVE e[c] = Grows(e, needed, c)
    <3>1. Grows(e, needed, c) = Grows(d, needed, c)  BY <2>4 DEF Grows
    <3>2. c # low => d[c] = Grows(d, needed, c)  BY <2>1, <2>3 DEF Doubles
    <3> QED  BY <3>1, <3>2
  <2>6. Doubles(e, needed, low)
    <3> HIDE DEF low
    <3> QED  BY <2>5 DEF Doubles
  <2> QED  BY <2>6
<1>3. Reached = Nat
  <2> HIDE DEF Reached
  <2>1. Reached \in SUBSET Nat  BY DEF Reached
  <2> QED  BY <1>1, <1>2, <2>1, Upwards
<1>4. PICK d : Doubles(d, needed, 1)
  <2>1. IntMax \in Reached  BY <1>0, <1>3
  <2> QED  BY <1>0, <2>1
<1> DEFINE e == [c \in 0..IntMax |-> IF c = 0 THEN 0 ELSE d[c]]
<1>5. ASSUME NEW c \in 0..IntMax PROVE e[c] = Grows(e, needed, c)
  <2>1. CASE c = 0
    <3>1. ~(c >= needed) /\ ~(c > IntMax \div 2) /\ 2 * c = 0  BY <1>0, <2>1
    <3> QED  BY <2>1, <3>1, <1>0 DEF Grows
  <2>2. CASE c # 0
    <3>1. c \in 1..IntMax /\ (~(c > IntMax \div 2) => 2 * c \in 1..IntMax)  BY <1>0, <2>2
    <3>2. Grows(e, needed, c) = Grows(d, needed, c)  BY <3>1, <1>0 DEF Grows
    <3> QED  BY <1>4, <2>2, <3>1, <3>2 DEF Doubles
  <2> QED  BY <2>1, <2>2
<1>6. e = [c \in 0..IntMax |-> Grows(e, needed, c)]
  <2>1. e = [c \in 0..IntMax |-> e[c]]  OBVIOUS
  <2> HIDE DEF e
  <2> QED  BY <1>5, <2>1
<1> HIDE DEF e
<1>7. \E f : f = [c \in 0..IntMax |-> Grows(f, needed, c)]  BY <1>6
<1>8. Doubled(needed) = CHOOSE f : f = [c \in 0..IntMax |-> Grows(f, needed, c)]  BY DEF Doubled, Grows
<1> QED  BY <1>7, <1>8

LEMMA CapacityIsEnough ==
    ASSUME NEW old \in 0..IntMax, NEW needed \in 1..IntMax
    PROVE  grown_capacity(old, needed) \in needed..IntMax
<1>0. IntMax \in Nat /\ InitialCapacity \in 1..IntMax  BY ArrayAssumption
<1>1. PICK d : d = Doubled(needed)  OBVIOUS
<1>2. \A c \in 0..IntMax : d[c] = Grows(d, needed, c)  BY <1>1, DoublingIsDefined
<1> DEFINE Enough == {m \in Nat : \A c \in 1..IntMax : c >= IntMax - m => d[c] \in needed..IntMax}
<1>3. 0 \in Enough
  <2>1. ASSUME NEW c \in 1..IntMax, c >= IntMax PROVE d[c] \in needed..IntMax
    <3>1. c = IntMax  BY <1>0, <2>1
    <3> QED  BY <1>0, <1>2, <3>1 DEF Grows
  <2> QED  BY <1>0, <2>1
<1>4. ASSUME NEW m \in Enough PROVE m + 1 \in Enough
  <2>1. ASSUME NEW c \in 1..IntMax, c >= IntMax - (m + 1) PROVE d[c] \in needed..IntMax
    <3>1. d[c] = Grows(d, needed, c)  BY <1>0, <1>2
    <3>2. CASE ~(c >= needed) /\ ~(c > IntMax \div 2)
      <4>1. 2 * c \in 1..IntMax /\ 2 * c >= IntMax - m  BY <1>0, <2>1, <3>2
      <4> QED  BY <3>1, <3>2, <4>1 DEF Grows
    <3> QED  BY <1>0, <3>1, <3>2 DEF Grows
  <2> QED  BY <1>0, <2>1
<1>5. Enough = Nat
  <2>1. Enough \in SUBSET Nat  OBVIOUS
  <2> HIDE DEF Enough
  <2> QED  BY <1>3, <1>4, <2>1, Upwards
<1>6. ASSUME NEW c \in 1..IntMax PROVE d[c] \in needed..IntMax
  <2>1. IntMax \in Enough  BY <1>0, <1>5
  <2>2. c >= IntMax - IntMax  BY <1>0
  <2> QED  BY <1>0, <2>1, <2>2
<1>7. (IF old < InitialCapacity THEN InitialCapacity ELSE old) \in 1..IntMax  BY <1>0
<1> QED  BY <1>1, <1>6, <1>7 DEF grown_capacity

(* A size that fits is computed without wrapping around.                   *)
LEMMA BytesOfFitting ==
    ASSUME NEW count \in Nat \ {0}, NEW size \in Nat, Fits(count, size)
    PROVE  Bytes(count, size) = HeaderSize + count * size /\ Bytes(count, size) \in 1..SizeMax
<1>1. SizeMax \in Nat /\ HeaderSize \in 1..SizeMax  BY HeapAssumption, ArrayAssumption
<1>2. PICK room \in Nat : room = SizeMax - HeaderSize  BY <1>1
<1>3. PICK q \in Nat : q = room \div count  BY <1>2
<1>4. count * q <= room  BY <1>3
<1>5. size <= q  BY <1>2, <1>3 DEF Fits
<1>6. count * size <= count * q /\ count * size \in Nat  BY <1>5
<1>7. HeaderSize + count * size \in 1..SizeMax  BY <1>1, <1>2, <1>4, <1>6
<1>8. PICK n \in 1..SizeMax : n = HeaderSize + count * size  BY <1>7
<1>9. n % (SizeMax + 1) = n  BY <1>1, <1>8
<1> QED  BY <1>8, <1>9 DEF Bytes
-----------------------------------------------------------------------------
(* What an operation does to the heap h: no block but arr's and the one it *)
(* returns is touched, and that one is arr's or was free.                  *)
Owners == {"gc", "libc"}
Local(o, h, arr) ==
    /\ o = Outcome(o.heap, o.addr, o.routed) /\ o.heap = [a \in Addrs |-> o.heap[a]]
    /\ \A a \in Addrs \ {arr, o.addr} : o.heap[a] = h[a]
    /\ o.addr # NULL => o.addr \in Addrs /\ (o.addr = arr \/ h[o.addr] = Free)
HasRoom(o, size) ==
    o.addr # NULL => \E owner \in Owners, room \in Nat :
                        room >= size /\ \E body : o.heap[o.addr] = Block(owner, room, body)

LEMMA FailedIsLocal ==
    ASSUME NEW h, h = [a \in Addrs |-> h[a]], NEW arr, NEW size, NEW routed
    PROVE  Local(Outcome(h, NULL, routed), h, arr) /\ HasRoom(Outcome(h, NULL, routed), size)
BY DEF Local, HasRoom, Outcome

LEMMA AllocateIsLocal ==
    ASSUME NEW h, h = [a \in Addrs |-> h[a]], NEW owner \in Owners, NEW room \in Nat, NEW size \in Nat,
           room >= size, NEW arr, NEW o \in Allocate(h, owner, room)
    PROVE  Local(o, h, arr) /\ HasRoom(o, size)
<1>1. CASE o = Failed(h)  BY <1>1, FailedIsLocal DEF Failed
<1>2. ASSUME NEW a \in Vacant(h), o = Outcome([h EXCEPT ![a] = Block(owner, room, Empty)], a, TRUE)
      PROVE  Local(o, h, arr) /\ HasRoom(o, size)
  <2>1. a \in Addrs /\ h[a] = Free  BY DEF Vacant
  <2>2. o.heap = [h EXCEPT ![a] = Block(owner, room, Empty)] /\ o.addr = a /\ o.routed = TRUE
    BY <1>2 DEF Outcome
  <2>3. /\ o.heap = [b \in Addrs |-> o.heap[b]] /\ o.heap[a] = Block(owner, room, Empty)
        /\ \A b \in Addrs \ {a} : o.heap[b] = h[b]
    BY <2>1, <2>2
  <2>4. Local(o, h, arr)  BY <1>2, <2>1, <2>2, <2>3 DEF Local
  <2>5. HasRoom(o, size)  BY <2>2, <2>3 DEF HasRoom
  <2> QED  BY <2>4, <2>5
<1> QED  BY <1>1, <1>2 DEF Allocate

LEMMA ResizeIsLocal ==
    ASSUME NEW h, h = [a \in Addrs |-> h[a]], NEW owner, NEW room \in Nat, NEW size \in Nat,
           room >= size, NEW arr \in Addrs, h[arr].owner \in Owners, NEW o \in Resize(h, owner, arr, room)
    PROVE  Local(o, h, arr) /\ HasRoom(o, size)
<1>1. PICK routed : routed = (h[arr].owner = owner)  OBVIOUS
<1>a. PICK kept \in Owners : kept = h[arr].owner  OBVIOUS
<1>b. PICK body : body = h[arr].body  OBVIOUS
<1>2. PICK grown : grown = Block(kept, room, body)  OBVIOUS
<1>3. CASE o = Outcome(h, NULL, routed)  BY <1>3, FailedIsLocal
<1>4. CASE o = Outcome([h EXCEPT ![arr] = grown], arr, routed)
  <2>1. o.heap = [h EXCEPT ![arr] = grown] /\ o.addr = arr /\ o.routed = routed  BY <1>4 DEF Outcome
  <2>2. /\ o.heap = [b \in Addrs |-> o.heap[b]] /\ o.heap[arr] = grown
        /\ \A b \in Addrs \ {arr} : o.heap[b] = h[b]
    BY <2>1
  <2>3. Local(o, h, arr)  BY <1>4, <2>1, <2>2 DEF Local
  <2>4. HasRoom(o, size)
    <3>1. o.heap[o.addr] = Block(kept, room, body)  BY <1>2, <2>1, <2>2
    <3> QED  BY <3>1 DEF HasRoom
  <2> QED  BY <2>3, <2>4
<1>5. ASSUME NEW a \in Vacant(h), o = Outcome([h EXCEPT ![arr] = Free, ![a] = grown], a, routed)
      PROVE  Local(o, h, arr) /\ HasRoom(o, size)
  <2>1. a \in Addrs /\ h[a] = Free  BY DEF Vacant
  <2>2. o.heap = [h EXCEPT ![arr] = Free, ![a] = grown] /\ o.addr = a /\ o.routed = routed
    BY <1>5 DEF Outcome
  <2>3. /\ o.heap = [b \in Addrs |-> o.heap[b]] /\ o.heap[a] = grown
        /\ \A b \in Addrs \ {arr, a} : o.heap[b] = h[b]
    BY <2>1, <2>2
  <2>4. Local(o, h, arr)  BY <1>5, <2>1, <2>2, <2>3 DEF Local
  <2>5. HasRoom(o, size)
    <3>1. o.heap[o.addr] = Block(kept, room, body)  BY <1>2, <2>2, <2>3
    <3> QED  BY <3>1 DEF HasRoom
  <2> QED  BY <2>4, <2>5
<1> QED  BY <1>1, <1>a, <1>b, <1>2, <1>3, <1>4, <1>5 DEF Resize

(* malloc and realloc, in the compiler's process and in the user's.        *)
Owned(h, arr) == arr # NULL => arr \in Addrs /\ h[arr].owner \in Owners

LEMMA PaddedIsEnough ==
    ASSUME NEW size \in 1..SizeMax
    PROVE  Padded(size) \in Nat \ {0} /\ Padded(size) >= size /\ size # 0
BY HeapAssumption, TailAssumption DEF Padded

LEMMA mallocIsLocal ==
    ASSUME NEW h, h = [a \in Addrs |-> h[a]], NEW size \in 1..SizeMax, NEW arr, NEW lib,
           NEW o \in malloc(lib, h, size)
    PROVE  Local(o, h, arr) /\ HasRoom(o, size)
<1>1. size \in Nat  BY HeapAssumption
<1>2. CASE lib
  BY <1>1, <1>2, PaddedIsEnough, AllocateIsLocal DEF malloc, wrap_malloc, Owners
<1>3. CASE ~lib
  BY <1>1, <1>3, AllocateIsLocal DEF malloc, Owners
<1> QED  BY <1>2, <1>3

LEMMA reallocIsLocal ==
    ASSUME NEW h, h = [a \in Addrs |-> h[a]], NEW size \in 1..SizeMax, NEW arr, Owned(h, arr),
           NEW lib, NEW o \in realloc(lib, h, arr, size)
    PROVE  Local(o, h, arr) /\ HasRoom(o, size)
<1>1. size \in Nat /\ size # 0  BY HeapAssumption
<1>2. ASSUME NEW owner \in Owners, NEW room \in Nat \ {0}, room >= size, o \in Reallocate(h, owner, arr, room)
      PROVE  Local(o, h, arr) /\ HasRoom(o, size)
  <2>1. CASE arr = NULL  BY <1>1, <1>2, <2>1, AllocateIsLocal DEF Reallocate
  <2>2. CASE arr # NULL
    BY <1>1, <1>2, <2>2, ResizeIsLocal DEF Reallocate, Owned
  <2> QED  BY <2>1, <2>2
<1>3. size \in Nat \ {0} /\ Padded(size) \in Nat \ {0} /\ size >= size /\ Padded(size) >= size
  BY <1>1, PaddedIsEnough
<1>4. \E owner \in Owners, room \in {size, Padded(size)} : o \in Reallocate(h, owner, arr, room)
  BY <1>1 DEF realloc, wrap_realloc, Owners
<1> QED  BY <1>2, <1>3, <1>4

-----------------------------------------------------------------------------
(* A block with an array in it, and an operation that returns one.         *)
IsArray(b, size) ==
    /\ b.owner \in Owners /\ b.room \in Nat
    /\ b = Block(b.owner, b.room, Array(b.body.len, b.body.capacity, b.body.data))
    /\ b.body.len \in 0..IntMax /\ b.body.capacity \in 1..IntMax /\ b.body.data \in Seq(Values)
    /\ b.body.len = Len(b.body.data) /\ b.body.len <= b.body.capacity
    /\ HeaderSize + b.body.capacity * size <= b.room
Sound(h, arr, size) == arr # NULL => arr \in Addrs /\ IsArray(h[arr], size)

Holds(h, arr, data) == Elements(h, arr) = data

LEMMA ArraysAreTyped ==
    ASSUME NEW h, NEW arr \in Addrs \cup {NULL}, NEW size, Sound(h, arr, size)
    PROVE  /\ \E data \in Seq(Values) : Holds(h, arr, data) /\ Len(data) = array_len(h, arr)
           /\ array_len(h, arr) \in 0..IntMax /\ array_capacity(h, arr) \in 0..IntMax
           /\ array_len(h, arr) <= array_capacity(h, arr) /\ Owned(h, arr)
<1>1. CASE arr = NULL
  <2>1. <<>> \in Seq(Values) /\ Len(<<>>) = 0 /\ 0 \in 0..IntMax  BY ArrayAssumption
  <2>2. Elements(h, arr) = <<>> /\ array_len(h, arr) = 0 /\ array_capacity(h, arr) = 0
    BY <1>1 DEF Elements, array_len, array_capacity
  <2>3. \E data \in Seq(Values) : Holds(h, arr, data) /\ Len(data) = array_len(h, arr)
    BY <2>1, <2>2 DEF Holds
  <2>4. array_len(h, arr) \in 0..IntMax /\ array_capacity(h, arr) \in 0..IntMax  BY <2>1, <2>2
  <2>5. array_len(h, arr) <= array_capacity(h, arr)  BY <2>2
  <2>6. Owned(h, arr)  BY <1>1 DEF Owned
  <2> QED  BY <2>3, <2>4, <2>5, <2>6
<1>2. CASE arr # NULL
  BY <1>2, ArrayAssumption DEF Sound, IsArray, Holds, Elements, array_len, array_capacity, Owned
<1> QED  BY <1>1, <1>2

LEMMA WithArrayIsSound ==
    ASSUME NEW h, NEW arr, NEW size \in Nat, NEW len \in 0..IntMax, NEW capacity \in 1..IntMax, len <= capacity,
           NEW data \in Seq(Values), Len(data) = len,
           NEW room, room = HeaderSize + capacity * size, NEW o, Local(o, h, arr), HasRoom(o, room),
           NEW r, r = WithArray(o, len, capacity, data)
    PROVE  /\ Local(r, h, arr)
           /\ r.addr # NULL => /\ IsArray(r.heap[r.addr], size) /\ Holds(r.heap, r.addr, data)
                               /\ array_capacity(r.heap, r.addr) = capacity
<1>1. r = WithArray(o, len, capacity, data)  OBVIOUS
<1>2. CASE o.addr = NULL  BY <1>1, <1>2 DEF WithArray
<1>3. CASE o.addr # NULL
  <2>0. PICK owner \in Owners, given \in Nat :
            /\ given >= HeaderSize + capacity * size
            /\ \E body : o.heap[o.addr] = Block(owner, given, body)
    BY <1>3 DEF HasRoom
  <2>1. PICK body : given >= HeaderSize + capacity * size /\ o.heap[o.addr] = Block(owner, given, body)
    BY <2>0
  <2>2. PICK array : array = Array(len, capacity, data)  OBVIOUS
  <2>3. o.addr \in Addrs /\ (o.addr = arr \/ h[o.addr] = Free)  BY <1>3 DEF Local
  <2>4. o = Outcome(o.heap, o.addr, o.routed) /\ o.heap = [a \in Addrs |-> o.heap[a]]  BY DEF Local
  <2>5. PICK g : g = [o.heap EXCEPT ![o.addr].body = array]  OBVIOUS
  <2>6. r = Outcome(g, o.addr, o.routed)  BY <1>1, <1>3, <2>2, <2>4, <2>5 DEF WithArray, Outcome
  <2>7. r.heap = g /\ r.addr = o.addr /\ r.routed = o.routed  BY <2>6 DEF Outcome
  <2>8. g = [a \in Addrs |-> g[a]] /\ \A a \in Addrs \ {o.addr} : g[a] = o.heap[a]  BY <2>4, <2>5
  <2>9. g[o.addr] = [Block(owner, given, body) EXCEPT !.body = array]  BY <2>1, <2>3, <2>4, <2>5
  <2>10. g[o.addr] = Block(owner, given, array)  BY <2>9 DEF Block
  <2>11. \A a \in Addrs \ {arr, o.addr} : g[a] = h[a]  BY <2>8 DEF Local
  <2>12. Local(r, h, arr)  BY <2>3, <2>6, <2>7, <2>8, <2>11 DEF Local
  <2>13. /\ g[o.addr].owner = owner /\ g[o.addr].room = given /\ g[o.addr].body = array
         /\ array.len = len /\ array.capacity = capacity /\ array.data = data
    BY <2>2, <2>10 DEF Block, Array
  <2>14. IsArray(g[o.addr], size)  BY <2>1, <2>2, <2>10, <2>13, ArrayAssumption DEF IsArray
  <2>15. Holds(g, o.addr, data) /\ array_capacity(g, o.addr) = capacity
    BY <1>3, <2>13 DEF Holds, Elements, array_capacity
  <2> QED  BY <1>1, <2>7, <2>12, <2>14, <2>15
<1> QED  BY <1>2, <1>3

(* A push gives room for the old elements and one more, and puts it there. *)
LEMMA RoomForOneMore ==
    ASSUME NEW h, h = [a \in Addrs |-> h[a]], NEW arr \in Addrs \cup {NULL}, NEW size \in ElemSizes,
           Sound(h, arr, size), array_len(h, arr) # IntMax, NEW lib,
           NEW o \in reserve_for_push(lib, h, arr, size), NEW data, Holds(h, arr, data)
    PROVE  /\ Local(o, h, arr)
           /\ o.addr # NULL => /\ IsArray(o.heap[o.addr], size) /\ Holds(o.heap, o.addr, data)
                               /\ array_capacity(o.heap, o.addr) > array_len(h, arr)
<1>0. size \in Nat /\ IntMax \in Nat  BY ArrayAssumption
<1>1. PICK old \in 0..IntMax : old = array_len(h, arr)  BY ArraysAreTyped
<1>2. PICK cap \in 0..IntMax : cap = array_capacity(h, arr)  BY ArraysAreTyped
<1>3. data \in Seq(Values) /\ Len(data) = old  BY <1>1, ArraysAreTyped DEF Holds
<1>4. PICK capacity : capacity = grown_capacity(cap, old + 1)  OBVIOUS
<1>5. old + 1 \in 1..IntMax  BY <1>0, <1>1
<1>6. capacity \in (old + 1)..IntMax  BY <1>4, <1>5, CapacityIsEnough
<1>7. CASE cap >= old + 1 /\ o = Outcome(h, arr, TRUE)
  <2>1. arr # NULL  BY <1>0, <1>2, <1>7 DEF array_capacity
  <2>2. o.heap = h /\ o.addr = arr /\ o.routed = TRUE  BY <1>7 DEF Outcome
  <2>3. Local(o, h, arr)  BY <1>7, <2>1, <2>2 DEF Local
  <2>4. IsArray(o.heap[o.addr], size)  BY <2>1, <2>2 DEF Sound
  <2>5. array_capacity(o.heap, o.addr) = cap  BY <1>2, <2>2
  <2>6. cap > old  BY <1>0, <1>7
  <2> QED  BY <1>1, <2>2, <2>3, <2>4, <2>5, <2>6
<1>8. CASE o = Failed(h)  BY <1>8, FailedIsLocal DEF Failed, Outcome
<1>9. ASSUME Fits(capacity, size), NEW r \in realloc(lib, h, arr, Bytes(capacity, size)),
             o = WithArray(r, old, capacity, data)
      PROVE  /\ Local(o, h, arr)
             /\ o.addr # NULL => /\ IsArray(o.heap[o.addr], size) /\ Holds(o.heap, o.addr, data)
                                 /\ array_capacity(o.heap, o.addr) > old
  <2>1. capacity \in 1..IntMax /\ capacity \in Nat \ {0} /\ old < capacity /\ old <= capacity
    BY <1>0, <1>6
  <2>2. Bytes(capacity, size) = HeaderSize + capacity * size /\ Bytes(capacity, size) \in 1..SizeMax
    BY <1>0, <1>9, <2>1, BytesOfFitting
  <2>3. PICK bytes \in 1..SizeMax : bytes = Bytes(capacity, size)  BY <2>2
  <2>4. r \in realloc(lib, h, arr, bytes)  BY <1>9, <2>3
  <2>5. Owned(h, arr)  BY ArraysAreTyped
  <2>6. Local(r, h, arr) /\ HasRoom(r, bytes)  BY <2>4, <2>5, reallocIsLocal
  <2> QED  BY <1>0, <1>3, <1>9, <2>1, <2>2, <2>3, <2>6, WithArrayIsSound
<1>10. Elements(h, arr) = data  BY DEF Holds
<1>11. \/ cap >= old + 1 /\ o = Outcome(h, arr, TRUE)
       \/ o = Failed(h)
       \/ Fits(capacity, size) /\ \E r \in realloc(lib, h, arr, Bytes(capacity, size)) :
                                     o = WithArray(r, old, capacity, Elements(h, arr))
  BY <1>1, <1>2, <1>4 DEF reserve_for_push
<1> QED  BY <1>1, <1>7, <1>8, <1>9, <1>10, <1>11

LEMMA PushAppends ==
    ASSUME NEW h, h = [a \in Addrs |-> h[a]], NEW arr \in Addrs \cup {NULL}, NEW size \in ElemSizes,
           Sound(h, arr, size), NEW x \in Values, NEW lib, NEW o \in push_raw(lib, h, arr, x, size),
           NEW data, Holds(h, arr, data)
    PROVE  /\ Local(o, h, arr)
           /\ o.addr # NULL => /\ IsArray(o.heap[o.addr], size)
                               /\ Holds(o.heap, o.addr, Append(data, x))
                               /\ Len(data) < IntMax
<1>0. size \in Nat /\ IntMax \in Nat  BY ArrayAssumption
<1>1. PICK len \in 0..IntMax : len = array_len(h, arr)  BY ArraysAreTyped
<1>2. data \in Seq(Values) /\ Len(data) = len  BY <1>1, ArraysAreTyped DEF Holds
<1>3. CASE o = Failed(h)  BY <1>3, FailedIsLocal DEF Failed, Outcome
<1>4. ASSUME len # IntMax, NEW r \in reserve_for_push(lib, h, arr, size),
             o = WithArray(r, len + 1, array_capacity(r.heap, r.addr), Append(data, x))
      PROVE  /\ Local(o, h, arr)
             /\ o.addr # NULL => IsArray(o.heap[o.addr], size) /\ Holds(o.heap, o.addr, Append(data, x))
  <2>1. /\ Local(r, h, arr)
        /\ r.addr # NULL => IsArray(r.heap[r.addr], size) /\ array_capacity(r.heap, r.addr) > len
    BY <1>1, <1>4, RoomForOneMore
  <2>2. CASE r.addr = NULL  BY <1>4, <2>1, <2>2 DEF WithArray
  <2>3. CASE r.addr # NULL
    <3>1. PICK b : b = r.heap[r.addr]  OBVIOUS
    <3>2. PICK capacity \in 1..IntMax : capacity = b.body.capacity  BY <2>1, <2>3, <3>1 DEF IsArray
    <3>3. array_capacity(r.heap, r.addr) = capacity  BY <2>3, <3>1, <3>2 DEF array_capacity
    <3>4. PICK room : room = HeaderSize + capacity * size /\ HasRoom(r, room)
      BY <2>1, <2>3, <3>1, <3>2 DEF HasRoom, IsArray
    <3>5. PICK longer \in 0..IntMax : longer = len + 1 /\ longer <= capacity  BY <1>0, <1>4, <2>1, <2>3, <3>3
    <3>6. PICK more \in Seq(Values) : more = Append(data, x) /\ Len(more) = longer
      BY <1>2, <3>5, AppendProperties
    <3>7. o = WithArray(r, longer, capacity, more)  BY <1>4, <3>3, <3>5, <3>6
    <3>8. Local(r, h, arr)  BY <2>1
    <3>9. longer <= capacity  BY <3>5
    <3>10. Len(more) = longer  BY <3>6
    <3>11. /\ Local(o, h, arr)
           /\ o.addr # NULL => /\ IsArray(o.heap[o.addr], size) /\ Holds(o.heap, o.addr, more)
                               /\ array_capacity(o.heap, o.addr) = capacity
      BY <1>0, <3>4, <3>7, <3>8, <3>9, <3>10, WithArrayIsSound
    <3> QED  BY <3>6, <3>11
  <2> QED  BY <2>2, <2>3
<1>5. \/ o = Failed(h)
      \/ len # IntMax /\ \E r \in reserve_for_push(lib, h, arr, size) :
                             o = WithArray(r, len + 1, array_capacity(r.heap, r.addr), Append(data, x))
  BY <1>1 DEF push_raw, Holds
<1>6. len # IntMax => len < IntMax  BY <1>0
<1>7. CASE o # Failed(h)
  <2>1. len # IntMax /\ Len(data) = len  BY <1>2, <1>5, <1>7
  <2>2. Len(data) < IntMax  BY <1>6, <2>1
  <2> QED  BY <1>2, <1>4, <1>5, <1>7, <2>2
<1> QED  BY <1>3, <1>7

(* A slice is a copy at a place of its own.                                *)
CopiesFrom(o, data, start, end, size) ==
    o.addr # NULL =>
        \E first, last \in 0..Len(data) :
            /\ first < last /\ IsArray(o.heap[o.addr], size)
            /\ Holds(o.heap, o.addr, SubSeq(data, first + 1, last))
            /\ \A i \in 1..Len(data) : start < i /\ i <= end <=> first < i /\ i <= last

LEMMA SliceCopies ==
    ASSUME NEW h, h = [a \in Addrs |-> h[a]], NEW arr \in Addrs \cup {NULL}, NEW size \in ElemSizes,
           Sound(h, arr, size), NEW start \in Int, NEW end \in Int, NEW lib,
           NEW o \in slice_bytes(lib, h, arr, start, end, size), NEW data, Holds(h, arr, data)
    PROVE  Local(o, h, NULL) /\ CopiesFrom(o, data, start, end, size)
<1>0. size \in Nat /\ IntMax \in Nat  BY ArrayAssumption
<1>1. PICK len \in 0..IntMax : len = array_len(h, arr)  BY ArraysAreTyped
<1>2. data \in Seq(Values) /\ Len(data) = len  BY <1>1, ArraysAreTyped DEF Holds
<1>3. PICK from \in Nat : from = IF start < 0 THEN 0 ELSE start  OBVIOUS
<1>4. PICK first \in 0..len : first = Clamp(from, 0, len)  BY DEF Clamp
<1>5. PICK last \in 0..len : last = Clamp(IF end < from THEN from ELSE end, 0, len)  BY DEF Clamp
<1>6. first <= last  BY <1>3, <1>4, <1>5 DEF Clamp
<1>7. CASE o = Failed(h)
  <2>1. o.addr = NULL  BY <1>7 DEF Failed, Outcome
  <2> QED  BY <1>7, <2>1, FailedIsLocal DEF Failed, CopiesFrom
<1>8. ASSUME arr # NULL, last - first # 0, Fits(last - first, size),
             NEW r \in malloc(lib, h, Bytes(last - first, size)),
             o = WithArray(r, last - first, last - first, SubSeq(data, first + 1, last))
      PROVE  /\ Local(o, h, NULL)
             /\ o.addr # NULL =>
                  /\ first < last /\ IsArray(o.heap[o.addr], size)
                  /\ Holds(o.heap, o.addr, SubSeq(data, first + 1, last))
                  /\ \A i \in 1..len : start < i /\ i <= end <=> first < i /\ i <= last
  <2>1. PICK count \in 1..IntMax : count = last - first  BY <1>0, <1>6, <1>8
  <2>2. first < last /\ count \in Nat \ {0} /\ count \in 0..IntMax /\ count <= count  BY <1>0, <1>6, <2>1
  <2>3. Bytes(count, size) = HeaderSize + count * size /\ Bytes(count, size) \in 1..SizeMax
    BY <1>0, <1>8, <2>1, <2>2, BytesOfFitting
  <2>4. PICK bytes \in 1..SizeMax : bytes = Bytes(count, size)  BY <2>3
  <2>5. r \in malloc(lib, h, bytes)  BY <1>8, <2>1, <2>4
  <2>6. Local(r, h, NULL) /\ HasRoom(r, bytes)  BY <2>5, mallocIsLocal
  <2>7. bytes = HeaderSize + count * size /\ HasRoom(r, bytes)  BY <2>3, <2>4, <2>6
  <2>8. PICK part \in Seq(Values) : part = SubSeq(data, first + 1, last) /\ Len(part) = count
    <3>1. PICK low \in Int : low = first + 1  BY <1>0
    <3>2. last \in Int /\ \A i \in low..last : i \in 1..len  BY <1>0, <3>1
    <3>3. \A i \in low..last : data[i] \in Values  BY <1>2, <3>2, ElementOfSeq
    <3>4. low <= last /\ last - low + 1 = count  BY <1>0, <2>1, <2>2, <3>1
    <3>5. /\ SubSeq(data, low, last) \in Seq(Values)
          /\ Len(SubSeq(data, low, last)) = IF low <= last THEN last - low + 1 ELSE 0
      BY <3>2, <3>3, SubSeqProperties
    <3>6. Len(SubSeq(data, low, last)) = count  BY <3>4, <3>5
    <3> QED  BY <3>1, <3>5, <3>6
  <2>9. o = WithArray(r, count, count, part)  BY <1>8, <2>1, <2>8
  <2>10. ASSUME NEW i \in 1..len PROVE start < i /\ i <= end <=> first < i /\ i <= last
    BY <1>3, <1>4, <1>5, <2>2 DEF Clamp
  <2>11. /\ Local(o, h, NULL)
         /\ o.addr # NULL => IsArray(o.heap[o.addr], size) /\ Holds(o.heap, o.addr, part)
    <3>1. Local(r, h, NULL)  BY <2>6
    <3>2. count \in 0..IntMax /\ count \in 1..IntMax /\ count <= count  BY <2>2
    <3>3. Len(part) = count  BY <2>8
    <3> QED  BY <1>0, <2>7, <2>9, <3>1, <3>2, <3>3, WithArrayIsSound
  <2> QED  BY <2>2, <2>8, <2>10, <2>11
<1>9. o = Failed(h) \/ (/\ arr # NULL /\ last - first # 0 /\ Fits(last - first, size)
                        /\ \E r \in malloc(lib, h, Bytes(last - first, size)) :
                              o = WithArray(r, last - first, last - first, SubSeq(data, first + 1, last)))
  BY <1>1, <1>3, <1>4, <1>5 DEF slice_bytes, Holds
<1>10. CASE o # Failed(h)
  <2>1. Local(o, h, NULL)  BY <1>8, <1>9, <1>10
  <2>2. o.addr # NULL =>
          /\ first < last /\ IsArray(o.heap[o.addr], size)
          /\ Holds(o.heap, o.addr, SubSeq(data, first + 1, last))
          /\ \A i \in 1..len : start < i /\ i <= end <=> first < i /\ i <= last
    BY <1>8, <1>9, <1>10
  <2> QED  BY <1>2, <2>1, <2>2 DEF CopiesFrom
<1> QED  BY <1>7, <1>10

-----------------------------------------------------------------------------
(* What holds of the program's arrays: every variable has a block of its   *)
(* own, and there are no other blocks.                                     *)
ArrayType ==
    /\ heap = [a \in Addrs |-> heap[a]] /\ arrays \in [Vars -> Addrs \cup {NULL}]
    /\ elem \in ElemSizes
OwnBlocks == \A v, w \in Vars : v # w /\ arrays[v] # NULL => arrays[v] # arrays[w]
SoundArrays == \A v \in Vars : Sound(heap, arrays[v], elem)
ArrayInv == ArrayType /\ OwnBlocks /\ SoundArrays

LEMMA BlocksAreNotFree ==
    ASSUME NEW b, NEW size, IsArray(b, size) PROVE b # Free
<1>1. b.owner \in Owners  BY DEF IsArray
<1>2. Free.owner \notin Owners  BY DEF Free, Owners
<1> QED  BY <1>1, <1>2

(* The arrays of the variables.                                            *)
Contents == [v \in Vars |-> Elements(heap, arrays[v])]

(* A variable gets an array and the others keep theirs.                    *)
LEMMA BindKeepsApart ==
    ASSUME ArrayInv, NEW v \in Vars, NEW arr \in {arrays[v], NULL}, NEW o, Local(o, heap, arr),
           o.addr # NULL => IsArray(o.heap[o.addr], elem), Bind(v, o),
           NEW data, Holds(o.heap, o.addr, data)
    PROVE  ArrayInv' /\ Contents' = [Contents EXCEPT ![v] = data]
<1>1. /\ arrays \in [Vars -> Addrs \cup {NULL}] /\ o.addr \in Addrs \cup {NULL}
      /\ arrays' = [arrays EXCEPT ![v] = o.addr] /\ elem' = elem /\ elem \in ElemSizes
      /\ heap' = [a \in Addrs |-> IF \E w \in Vars : arrays'[w] = a THEN o.heap[a] ELSE Free]
  BY DEF ArrayInv, ArrayType, Bind, Local
<1>2. ArrayType'
  BY <1>1 DEF ArrayType
<1>3. arrays'[v] = o.addr /\ \A w \in Vars \ {v} : arrays'[w] = arrays[w]  BY <1>1
<1>4. \A w \in Vars : arrays'[w] # NULL => arrays'[w] \in Addrs /\ heap'[arrays'[w]] = o.heap[arrays'[w]]
  BY <1>1
<1>5. ASSUME NEW w \in Vars \ {v}, arrays[w] # NULL
      PROVE  arrays[w] # o.addr /\ arrays[w] # arr /\ o.heap[arrays[w]] = heap[arrays[w]]
  <2>1. arrays[w] \in Addrs /\ heap[arrays[w]] # Free
    BY <1>5, BlocksAreNotFree DEF ArrayInv, SoundArrays, Sound
  <2>2. arrays[w] # arr  BY <1>5 DEF ArrayInv, OwnBlocks
  <2>3. arrays[w] # o.addr  BY <1>5, <2>1, <2>2 DEF Local
  <2> QED  BY <2>1, <2>2, <2>3 DEF Local
<1>6. OwnBlocks'
  <2> SUFFICES ASSUME NEW u \in Vars, NEW w \in Vars, u # w, arrays'[u] # NULL PROVE arrays'[u] # arrays'[w]
    BY DEF OwnBlocks
  <2>1. CASE u = v
    <3>1. arrays'[u] = o.addr /\ arrays'[w] = arrays[w]  BY <1>3, <2>1
    <3> QED  BY <1>5, <2>1, <3>1
  <2>2. CASE u # v /\ w = v
    <3>1. arrays'[w] = o.addr /\ arrays'[u] = arrays[u]  BY <1>3, <2>2
    <3> QED  BY <1>5, <2>2, <3>1
  <2>3. CASE u # v /\ w # v
    <3>1. arrays'[u] = arrays[u] /\ arrays'[w] = arrays[w]  BY <1>3, <2>3
    <3> QED  BY <3>1 DEF ArrayInv, OwnBlocks
  <2> QED  BY <2>1, <2>2, <2>3
<1>7. ASSUME NEW w \in Vars \ {v}, arrays[w] # NULL PROVE heap'[arrays'[w]] = heap[arrays[w]]
  BY <1>3, <1>4, <1>5, <1>7
<1>8. arrays'[v] # NULL => heap'[arrays'[v]] = o.heap[o.addr]  BY <1>3, <1>4
<1>9. SoundArrays'
  <2> SUFFICES ASSUME NEW w \in Vars PROVE Sound(heap', arrays'[w], elem')
    BY DEF SoundArrays
  <2>1. CASE w = v  BY <1>1, <1>3, <1>4, <1>8, <2>1 DEF Sound
  <2>2. CASE w # v
    <3>1. arrays'[w] = arrays[w] /\ Sound(heap, arrays[w], elem)
      BY <1>3, <2>2 DEF ArrayInv, SoundArrays
    <3> QED  BY <1>1, <1>7, <2>2, <3>1 DEF Sound
  <2> QED  BY <2>1, <2>2
<1>10. Elements(heap', arrays'[v]) = data  BY <1>3, <1>8 DEF Elements, Holds
<1>11. ASSUME NEW w \in Vars \ {v} PROVE Elements(heap', arrays'[w]) = Elements(heap, arrays[w])
  BY <1>3, <1>7 DEF Elements
<1>12. Contents' = [w \in Vars |-> Elements(heap', arrays'[w])]  BY DEF Contents
<1>13. Contents' = [Contents EXCEPT ![v] = data]
  BY <1>10, <1>11, <1>12 DEF Contents
<1> QED  BY <1>2, <1>6, <1>9, <1>13 DEF ArrayInv

LEMMA NothingIsEmpty == ASSUME NEW o, o.addr = NULL PROVE Holds(o.heap, o.addr, <<>>)
BY DEF Holds, Elements

LEMMA PushKeepsApart ==
    ASSUME ArrayInv, NEW v \in Vars, NEW x \in Values, Push(v, x)
    PROVE  /\ ArrayInv'
           /\ \/ Len(Contents[v]) < IntMax /\ Contents' = [Contents EXCEPT ![v] = Append(Contents[v], x)]
              \/ Contents' = [Contents EXCEPT ![v] = <<>>]
<1>1. PICK o \in push_raw(bridged, heap, arrays[v], x, elem) : Bind(v, o)  BY DEF Push
<1>2. PICK arr \in Addrs \cup {NULL} : arr = arrays[v]  BY DEF ArrayInv, ArrayType
<1>3. heap = [a \in Addrs |-> heap[a]] /\ elem \in ElemSizes /\ Sound(heap, arr, elem)
  BY <1>2 DEF ArrayInv, ArrayType, SoundArrays
<1>4. PICK data : Holds(heap, arr, data)  BY DEF Holds
<1>5. /\ Local(o, heap, arr)
      /\ o.addr # NULL => /\ IsArray(o.heap[o.addr], elem)
                          /\ Holds(o.heap, o.addr, Append(data, x)) /\ Len(data) < IntMax
  BY <1>1, <1>2, <1>3, <1>4, PushAppends
<1>6. PICK content : Holds(o.heap, o.addr, content)  BY DEF Holds
<1>7. ArrayInv' /\ Contents' = [Contents EXCEPT ![v] = content]
  BY <1>1, <1>2, <1>5, <1>6, BindKeepsApart
<1>8. Contents[v] = data  BY <1>2, <1>4 DEF Contents, Holds
<1>9. CASE o.addr = NULL
  <2>1. content = <<>>  BY <1>6, <1>9, NothingIsEmpty DEF Holds
  <2> QED  BY <1>7, <2>1
<1>10. CASE o.addr # NULL
  <2>1. content = Append(data, x)  BY <1>5, <1>6, <1>10 DEF Holds
  <2> QED  BY <1>5, <1>7, <1>8, <1>10, <2>1
<1> QED  BY <1>9, <1>10

LEMMA MoveKeepsApart ==
    ASSUME ArrayInv, NEW v \in Vars, NEW w \in Vars, Move(v, w)
    PROVE  /\ ArrayInv'
           /\ v # w /\ Contents' = [Contents EXCEPT ![w] = Contents[v], ![v] = <<>>]
<1>1. /\ v # w /\ arrays \in [Vars -> Addrs \cup {NULL}] /\ elem' = elem /\ elem \in ElemSizes
      /\ arrays' = [arrays EXCEPT ![w] = arrays[v], ![v] = NULL]
      /\ heap' = [a \in Addrs |-> IF a = arrays[w] THEN Free ELSE heap[a]]
  BY DEF ArrayInv, ArrayType, Move
<1>2. ArrayType'  BY <1>1 DEF ArrayType
<1>3. arrays'[v] = NULL /\ arrays'[w] = arrays[v] /\ \A u \in Vars \ {v, w} : arrays'[u] = arrays[u]
  BY <1>1
<1>4. \A u \in Vars \ {w} : arrays[u] # NULL => arrays[u] \in Addrs /\ heap'[arrays[u]] = heap[arrays[u]]
  BY <1>1 DEF ArrayInv, OwnBlocks
<1>5. OwnBlocks'
  <2> SUFFICES ASSUME NEW t \in Vars, NEW u \in Vars, t # u, arrays'[t] # NULL PROVE arrays'[t] # arrays'[u]
    BY DEF OwnBlocks
  <2>1. \E p \in Vars : arrays'[t] = arrays[p] /\ p = IF t = w THEN v ELSE t  BY <1>3
  <2>2. arrays'[u] = NULL \/ \E p \in Vars : arrays'[u] = arrays[p] /\ p = IF u = w THEN v ELSE u  BY <1>3
  <2>3. t # v  BY <1>3
  <2>4. u # v \/ arrays'[u] = NULL  BY <1>3
  <2> QED  BY <2>1, <2>2, <2>3, <2>4 DEF ArrayInv, OwnBlocks
<1>6. SoundArrays'
  <2> SUFFICES ASSUME NEW u \in Vars PROVE Sound(heap', arrays'[u], elem')
    BY DEF SoundArrays
  <2>1. CASE u = v  BY <1>3, <2>1 DEF Sound
  <2>2. CASE u # v
    <3>1. PICK p \in Vars \ {w} : arrays'[u] = arrays[p]  BY <1>1, <1>3, <2>2
    <3>2. Sound(heap, arrays[p], elem)  BY DEF ArrayInv, SoundArrays
    <3> QED  BY <1>1, <1>4, <3>1, <3>2 DEF Sound
  <2> QED  BY <2>1, <2>2
<1>7. Contents' = [u \in Vars |-> Elements(heap', arrays'[u])]  BY DEF Contents
<1>8. Elements(heap', arrays'[v]) = <<>>  BY <1>3 DEF Elements
<1>9. \A u \in Vars \ {w} : Elements(heap', arrays[u]) = Elements(heap, arrays[u])  BY <1>4 DEF Elements
<1>10. Contents' = [Contents EXCEPT ![w] = Contents[v], ![v] = <<>>]
  BY <1>1, <1>3, <1>7, <1>8, <1>9 DEF Contents
<1> QED  BY <1>1, <1>2, <1>5, <1>6, <1>10 DEF ArrayInv

(* The elements of s between two ends, as DynArrays has them.              *)
Part(s, start, end) ==
    LET from == IF start < 0 THEN 0 ELSE start
        wanted == {i \in DOMAIN s : start < i /\ i <= end}
    IN  [k \in {i - from : i \in wanted} |-> s[k + from]]

LEMMA PartIsSubSeq ==
    ASSUME NEW s \in Seq(Values), NEW start \in Int, NEW end \in Int,
           NEW first \in 0..Len(s), NEW last \in 0..Len(s), first < last,
           \A i \in 1..Len(s) : start < i /\ i <= end <=> first < i /\ i <= last
    PROVE  SubSeq(s, first + 1, last) = Part(s, start, end)
<1>1. PICK len \in Nat : len = Len(s) /\ DOMAIN s = 1..len  BY LenProperties
<1>2. first + 1 \in 1..len /\ last \in 1..len  BY <1>1
<1>3. start <= first /\ last <= end  BY <1>1, <1>2
<1>4. first # 0 => start = first
  <2>1. first # 0 => first \in 1..len  BY <1>1
  <2>2. first # 0 => ~(start < first /\ first <= end)  BY <1>1, <2>1
  <2> QED  BY <1>1, <1>3, <2>2
<1>5. (IF start < 0 THEN 0 ELSE start) = first  BY <1>1, <1>3, <1>4
<1>6. PICK wanted : wanted = {i \in DOMAIN s : start < i /\ i <= end}  OBVIOUS
<1>7. wanted = (first + 1)..last
  <2>1. wanted = {i \in 1..len : first < i /\ i <= last}  BY <1>1, <1>6
  <2> QED  BY <1>1, <2>1
<1>8. {i - first : i \in wanted} = 1..(last - first)
  <2>1. \A k \in 1..(last - first) : k + first \in wanted /\ (k + first) - first = k  BY <1>1, <1>7
  <2>2. \A i \in wanted : i - first \in 1..(last - first)  BY <1>1, <1>7
  <2> QED  BY <2>1, <2>2
<1>9. Part(s, start, end) = [k \in 1..(last - first) |-> s[k + first]]  BY <1>5, <1>6, <1>8 DEF Part
<1> QED  BY <1>1, <1>9

LEMMA SliceKeepsApart ==
    ASSUME ArrayInv, NEW v \in Vars, NEW w \in Vars, NEW start \in Bounds, NEW end \in Bounds,
           Slice(v, w, start, end)
    PROVE  /\ ArrayInv'
           /\ \/ Contents' = [Contents EXCEPT ![w] = Part(Contents[v], start, end)]
              \/ Contents' = [Contents EXCEPT ![w] = <<>>]
<1>1. PICK o \in slice_bytes(bridged, heap, arrays[v], start, end, elem) : Bind(w, o)  BY DEF Slice
<1>2. PICK arr \in Addrs \cup {NULL} : arr = arrays[v]  BY DEF ArrayInv, ArrayType
<1>3. heap = [a \in Addrs |-> heap[a]] /\ elem \in ElemSizes /\ Sound(heap, arr, elem)
  BY <1>2 DEF ArrayInv, ArrayType, SoundArrays
<1>4. PICK data \in Seq(Values) : Holds(heap, arr, data)  BY <1>3, ArraysAreTyped
<1>5. start \in Int /\ end \in Int  BY ArrayAssumption
<1>6. Local(o, heap, NULL) /\ CopiesFrom(o, data, start, end, elem)
  BY <1>1, <1>2, <1>3, <1>4, <1>5, SliceCopies
<1>7. PICK content : Holds(o.heap, o.addr, content)  BY DEF Holds
<1>8. CASE o.addr = NULL
  <2>1. content = <<>>  BY <1>7, <1>8, NothingIsEmpty DEF Holds
  <2> QED  BY <1>1, <1>6, <1>7, <1>8, <2>1, BindKeepsApart
<1>9. CASE o.addr # NULL
  <2>1. PICK first \in 0..Len(data), last \in 0..Len(data) :
            /\ first < last /\ IsArray(o.heap[o.addr], elem)
            /\ Holds(o.heap, o.addr, SubSeq(data, first + 1, last))
            /\ \A i \in 1..Len(data) : start < i /\ i <= end <=> first < i /\ i <= last
    BY <1>6, <1>9 DEF CopiesFrom
  <2>2. SubSeq(data, first + 1, last) = Part(data, start, end)  BY <1>5, <2>1, PartIsSubSeq
  <2>3. content = Part(data, start, end)  BY <1>7, <2>1, <2>2 DEF Holds
  <2>4. Contents[v] = data  BY <1>2, <1>4 DEF Contents, Holds
  <2> QED  BY <1>1, <1>6, <1>7, <2>1, <2>3, <2>4, BindKeepsApart
<1> QED  BY <1>8, <1>9

-----------------------------------------------------------------------------
LEMMA ArraysStart == ASSUME ArrayInit PROVE ArrayInv /\ Contents = [v \in Vars |-> <<>>]
BY DEF ArrayInit, ArrayInv, ArrayType, OwnBlocks, SoundArrays, Sound, Contents, Elements

LEMMA ArraysRest == ASSUME ArrayInv, UNCHANGED arrayVars PROVE ArrayInv' /\ Contents' = Contents
BY DEF arrayVars, ArrayInv, ArrayType, OwnBlocks, SoundArrays, Contents

LEMMA ArraysStep ==
    ASSUME ArrayInv, [ArrayNext]_arrayVars
    PROVE  ArrayInv'
<1>1. CASE UNCHANGED arrayVars  BY <1>1, ArraysRest
<1>2. CASE ArrayNext
  BY <1>2, PushKeepsApart, MoveKeepsApart, SliceKeepsApart DEF ArrayNext
<1> QED  BY <1>1, <1>2

LEMMA ArraysInBounds == ASSUME ArrayInv PROVE InBounds
<1> SUFFICES ASSUME NEW v \in Vars, arrays[v] # NULL
             PROVE  /\ heap[arrays[v]] # Free
                    /\ LET b == heap[arrays[v]]
                       IN  /\ b.body.len = Len(b.body.data) /\ b.body.len <= b.body.capacity
                           /\ HeaderSize + b.body.capacity * elem <= b.room
  BY DEF InBounds
<1>1. IsArray(heap[arrays[v]], elem)  BY DEF ArrayInv, SoundArrays, Sound
<1> QED  BY <1>1, BlocksAreNotFree DEF IsArray

(* In every array a variable has, the length is that of the data and no    *)
(* more than the capacity, and the block has room for it: however large    *)
(* int and size_t are, whatever the sizes of the elements, and whichever   *)
(* allocator answers (src/src/runtime.c, push_raw and slice_bytes).        *)
THEOREM ArraysStayInBounds == ArraySpec => []InBounds
<1>1. ArrayInit => ArrayInv  BY ArraysStart
<1>2. ArrayInv /\ [ArrayNext]_arrayVars => ArrayInv'  BY ArraysStep
<1>3. ArrayInv => InBounds  BY ArraysInBounds
<1> QED  BY <1>1, <1>2, <1>3, PTL DEF ArraySpec

(* The arrays implement the sequences of DynArrays: a push appends or, with *)
(* no memory left, empties; a slice is a copy; nothing is shared.           *)
THEOREM ArraysAreSequences == ArraySpec => ImplementsArrays
<1>1. ArrayInit => Abstract!Init  BY ArraysStart DEF Abstract!Init, Contents
<1>2. ASSUME ArrayInv, [ArrayNext]_arrayVars PROVE [Abstract!Next]_Contents
  <2>1. CASE UNCHANGED arrayVars  BY <1>2, <2>1, ArraysRest
  <2>2. ASSUME NEW v \in Vars, NEW x \in Values, Push(v, x) PROVE Abstract!Push(v, x)
    BY <1>2, <2>2, PushKeepsApart DEF Abstract!Push, Contents
  <2>3. ASSUME NEW v \in Vars, NEW w \in Vars, Move(v, w) PROVE Abstract!Move(v, w)
    BY <1>2, <2>3, MoveKeepsApart DEF Abstract!Move, Contents
  <2>4. ASSUME NEW v \in Vars, NEW w \in Vars, NEW start \in Bounds, NEW end \in Bounds, Slice(v, w, start, end)
        PROVE  Abstract!Slice(v, w, start, end)
    <3>1. \/ Contents' = [Contents EXCEPT ![w] = Part(Contents[v], start, end)]
          \/ Contents' = [Contents EXCEPT ![w] = <<>>]
      BY <1>2, <2>4, SliceKeepsApart
    <3> QED  BY <3>1 DEF Abstract!Slice, Contents, Part
  <2> QED  BY <1>2, <2>1, <2>2, <2>3, <2>4 DEF ArrayNext, Abstract!Next
<1>3. ArrayInit => ArrayInv  BY ArraysStart
<1>4. ArrayInv /\ [ArrayNext]_arrayVars => ArrayInv'  BY ArraysStep
<1> QED  BY <1>1, <1>2, <1>3, <1>4, PTL DEF ArraySpec, ImplementsArrays, Abstract!Spec, Contents
=============================================================================
