------------------------------ MODULE GcBridge ------------------------------
(***************************************************************************)
(* src/src/compiler_gc.c: in the compiler's own process malloc, realloc    *)
(* and free are wrapped at link time and lead to the Boehm collector;      *)
(* calloc and strdup are not wrapped and lead to the C library.            *)
(*                                                                         *)
(* First the two allocators, seen from their callers.  Neither is part of  *)
(* the repository; what is stated here is what src/src/runtime.c and       *)
(* compiler_gc.c rely on.  An operation gives the set of its outcomes: the *)
(* heap after it, the address returned, and whether every block was handed *)
(* to the allocator it came from.                                          *)
(***************************************************************************)
EXTENDS Integers

CONSTANTS Addrs,     \* the places a block can have
          NULL,
          SizeMax,   \* the largest size_t
          SeedTail   \* the bytes the seed compiler may write past a buffer, 3 in the code

ASSUME HeapAssumption == NULL \notin Addrs /\ SizeMax \in Nat
ASSUME TailAssumption == SeedTail \in 0..SizeMax

Free == [owner |-> "none"]
Block(owner, room, body) == [owner |-> owner, room |-> room, body |-> body]
Vacant(h) == {a \in Addrs : h[a] = Free}

Outcome(h, a, routed) == [heap |-> h, addr |-> a, routed |-> routed]
Failed(h) == Outcome(h, NULL, TRUE)

(* A new block has no content yet; any request may fail.                   *)
Empty == [kind |-> "empty"]
Allocate(h, owner, size) ==
    {Outcome([h EXCEPT ![a] = Block(owner, size, Empty)], a, TRUE) : a \in Vacant(h)} \cup {Failed(h)}

Release(h, owner, a) == Outcome([h EXCEPT ![a] = Free], NULL, h[a].owner = owner)

(* A block keeps its content where it is, or takes it along to another     *)
(* place; where there is no room it stays as it is.                        *)
Resize(h, owner, a, size) ==
    LET routed == h[a].owner = owner
        grown == Block(h[a].owner, size, h[a].body)
    IN  {Outcome([h EXCEPT ![a] = grown], a, routed), Outcome(h, NULL, routed)}
        \cup {Outcome([h EXCEPT ![a] = Free, ![b] = grown], b, routed) : b \in Vacant(h)}

(* realloc(NULL, n) allocates and realloc(p, 0) releases.                  *)
Reallocate(h, owner, a, size) ==
    IF a = NULL THEN Allocate(h, owner, size)
    ELSE IF size = 0 THEN {Release(h, owner, a)} ELSE Resize(h, owner, a, size)
-----------------------------------------------------------------------------
(* No tail where the size would wrap around.                               *)
Padded(size) == IF size <= SizeMax - SeedTail THEN size + SeedTail ELSE size

FromCollector(h, a) == h[a].owner = "gc"

wrap_malloc(h, size) == Allocate(h, "gc", Padded(size))

\* Mutant of wrap_realloc: a block grows without the tail.
wrap_reallocWrong(h, a, size) ==
    IF a # NULL /\ ~FromCollector(h, a) THEN Reallocate(h, "libc", a, size)
    ELSE Reallocate(h, "gc", a, size)

wrap_realloc(h, a, size) ==
    IF a # NULL /\ ~FromCollector(h, a) THEN Reallocate(h, "libc", a, size)
    ELSE Reallocate(h, "gc", a, IF size = 0 THEN 0 ELSE Padded(size))

\* Mutant of wrap_free: every block goes to the collector.
wrap_freeWrong(h, a) == IF a = NULL THEN Failed(h) ELSE Release(h, "gc", a)

wrap_free(h, a) ==
    IF a = NULL THEN Failed(h)
    ELSE IF FromCollector(h, a) THEN Release(h, "gc", a)
    ELSE Release(h, "libc", a)
=============================================================================
