---------------------------- MODULE BridgeClient ----------------------------
(***************************************************************************)
(* The C code of the compiler as a client of the allocators: local         *)
(* variables that hold blocks, and blocks that hold pointers to others, as *)
(* the lines of vix_mir_opt_scalar (src/src/helper.c:483) hold their       *)
(* texts.                                                                  *)
(***************************************************************************)
EXTENDS GcBridge, FiniteSets

CONSTANTS Locals,             \* its variables
          Requests            \* the sizes it asks for

ASSUME RequestsAssumption == Requests \subseteq 1..SizeMax

VARIABLES blocks,     \* the blocks at their addresses
          held,       \* the block each variable points to
          asked,      \* the size each block was asked for
          misrouted   \* a block was handed to the allocator it does not come from

bridgeVars == <<blocks, held, asked, misrouted>>

Pointers(body) == [kind |-> "pointers", to |-> body]
Targets(a) == IF blocks[a] # Free /\ blocks[a].body.kind = "pointers" THEN blocks[a].body.to ELSE {}

BridgeInit ==
    /\ blocks = [a \in Addrs |-> Free] /\ held = [v \in Locals |-> NULL]
    /\ asked = [a \in Addrs |-> 0] /\ misrouted = FALSE

Requested(o, size) == IF o.addr = NULL THEN asked ELSE [asked EXCEPT ![o.addr] = size]

Obtain(v, outcomes, size) ==
    \E o \in outcomes :
        /\ blocks' = o.heap /\ held' = [held EXCEPT ![v] = o.addr]
        /\ asked' = Requested(o, size) /\ misrouted' = (misrouted \/ ~o.routed)

Malloc(v, size) == held[v] = NULL /\ Obtain(v, wrap_malloc(blocks, size), size)
Calloc(v, size) == held[v] = NULL /\ Obtain(v, Allocate(blocks, "libc", size), size)

(* The code gives a block away only when nothing else points to it, and    *)
(* only uses blocks that are there.                                        *)
Present(v) == held[v] \in Addrs /\ blocks[held[v]] # Free
Sole(v) ==
    /\ \A w \in Locals \ {v} : held[w] # held[v]
    /\ \A a \in Addrs : held[v] \notin Targets(a)

(* A realloc that fails leaves the block to the variable.                  *)
Realloc(v, size) ==
    /\ Present(v) /\ Sole(v)
    /\ \E o \in wrap_realloc(blocks, held[v], size) :
        /\ blocks' = o.heap
        /\ held' = [held EXCEPT ![v] = IF o.addr = NULL /\ size # 0 THEN @ ELSE o.addr]
        /\ asked' = Requested(o, size) /\ misrouted' = (misrouted \/ ~o.routed)

FreeBlock(v) ==
    /\ Present(v) /\ Sole(v)
    /\ LET o == wrap_free(blocks, held[v])
       IN  blocks' = o.heap /\ misrouted' = (misrouted \/ ~o.routed)
    /\ held' = [held EXCEPT ![v] = NULL] /\ UNCHANGED asked

(* v's block comes to hold a pointer to w's, which w itself gives up.      *)
StorePointer(v, w) ==
    /\ v # w /\ Present(v) /\ Present(w) /\ held[v] # held[w]
    /\ blocks' = [blocks EXCEPT ![held[v]].body = Pointers(Targets(held[v]) \cup {held[w]})]
    /\ held' = [held EXCEPT ![w] = NULL] /\ UNCHANGED <<asked, misrouted>>

ReadPointer(v, w) ==
    /\ v # w /\ Present(v) /\ held[w] = NULL
    /\ \E a \in Targets(held[v]) : held' = [held EXCEPT ![w] = a]
    /\ UNCHANGED <<blocks, asked, misrouted>>

(* The collector looks for pointers on the stack and in its own blocks,    *)
(* not in the C library's, and frees what it has not come upon, in use or  *)
(* not: the lines' texts are reached from a block of calloc alone.         *)
Step(known, scanned) == known \cup UNION {Targets(a) : a \in known \cap scanned}
Found(scanned) ==
    LET hops[n \in Nat] == IF n = 0 THEN {held[v] : v \in Locals} \cap Addrs
                           ELSE Step(hops[n - 1], scanned) \cap Addrs
    IN  hops[Cardinality(Addrs)]
GcBlocks == {a \in Addrs : blocks[a].owner = "gc"}

Collect ==
    /\ blocks' = [a \in Addrs |-> IF a \in GcBlocks \ Found(GcBlocks) THEN Free ELSE blocks[a]]
    /\ blocks' # blocks
    /\ UNCHANGED <<held, asked, misrouted>>

BridgeNext ==
    \/ \E v \in Locals, size \in Requests :
          Malloc(v, size) \/ Calloc(v, size) \/ Realloc(v, size) \/ Realloc(v, 0)
    \/ \E v \in Locals : FreeBlock(v)
    \/ \E v, w \in Locals : StorePointer(v, w) \/ ReadPointer(v, w)
    \/ Collect

BridgeSpec == BridgeInit /\ [][BridgeNext]_bridgeVars

-----------------------------------------------------------------------------
(* A block goes back to the allocator it came from, by free and by realloc *)
(* alike, whatever its history; the other allocator would corrupt its own  *)
(* books.                                                                  *)
RoutedHome == ~misrouted

(* Every buffer of the collector has the bytes the seed compiler may write *)
(* past its end, also when it has been grown or shrunk since.              *)
TailKept ==
    \A a \in GcBlocks : asked[a] <= SizeMax - SeedTail => blocks[a].room >= asked[a] + SeedTail
=============================================================================
