---------------------------- MODULE ArrayRuntime ----------------------------
(***************************************************************************)
(* src/src/runtime.c: growing arrays.  An array is the address of its data *)
(* or NULL; its length and capacity stand in front of the data, and a push *)
(* may move it, so that generated code stores the address it returns       *)
(* (src/src/codegen.vix:819).  Sizes are counted in units, the widths of   *)
(* int and size_t are the constants IntMax and SizeMax.                    *)
(***************************************************************************)
EXTENDS GcBridge, Sequences

CONSTANTS Vars, Values,
          HeaderSize, InitialCapacity,   \* VIX_ARRAY_HEADER_BYTES, VIX_ARRAY_INITIAL_CAPACITY
          IntMax,
          ElemSizes,                     \* the sizes the program's elements may have
          Bounds                         \* the starts and ends it slices with

ASSUME ArrayAssumption ==
    /\ HeaderSize \in 1..SizeMax /\ IntMax \in Nat /\ InitialCapacity \in 1..IntMax
    /\ ElemSizes \subseteq Nat \ {0} /\ Bounds \subseteq Int

Array(len, capacity, data) == [kind |-> "array", len |-> len, capacity |-> capacity, data |-> data]

array_len(h, arr) == IF arr = NULL THEN 0 ELSE h[arr].body.len
array_capacity(h, arr) == IF arr = NULL THEN 0 ELSE h[arr].body.capacity
Elements(h, arr) == IF arr = NULL THEN <<>> ELSE h[arr].body.data

Doubled(needed) ==
    LET doubled[capacity \in 0..IntMax] ==
            IF capacity >= needed THEN capacity
            ELSE IF capacity > IntMax \div 2 THEN needed ELSE doubled[2 * capacity]
    IN  doubled

grown_capacity(old, needed) ==
    Doubled(needed)[IF old < InitialCapacity THEN InitialCapacity ELSE old]

(* The user's program is linked with the C library, the compiler's process *)
(* with the bridge.                                                        *)
malloc(bridged, h, size) == IF bridged THEN wrap_malloc(h, size) ELSE Allocate(h, "libc", size)
realloc(bridged, h, a, size) ==
    IF bridged THEN wrap_realloc(h, a, size) ELSE Reallocate(h, "libc", a, size)

(* The size of a block; size_t wraps around.                               *)
Fits(count, elem) == elem <= (SizeMax - HeaderSize) \div count
Bytes(count, elem) == (HeaderSize + count * elem) % (SizeMax + 1)

WithArray(o, len, capacity, data) ==
    IF o.addr = NULL THEN o
    ELSE [o EXCEPT !.heap = [@ EXCEPT ![o.addr].body = Array(len, capacity, data)]]

\* Mutant of reserve_for_push: room for the old length is taken to be enough.
reserve_for_pushWrong(bridged, h, arr, elem) ==
    LET old == array_len(h, arr)
        capacity == grown_capacity(array_capacity(h, arr), old + 1)
    IN  IF arr # NULL /\ array_capacity(h, arr) >= old THEN {Outcome(h, arr, TRUE)}
        ELSE IF ~Fits(capacity, elem) THEN {Failed(h)}
        ELSE {WithArray(o, old, capacity, Elements(h, arr)) :
                 o \in realloc(bridged, h, arr, Bytes(capacity, elem))}

reserve_for_push(bridged, h, arr, elem) ==
    LET old == array_len(h, arr)
        capacity == grown_capacity(array_capacity(h, arr), old + 1)
    IN  IF array_capacity(h, arr) >= old + 1 THEN {Outcome(h, arr, TRUE)}
        ELSE IF ~Fits(capacity, elem) THEN {Failed(h)}
        ELSE {WithArray(o, old, capacity, Elements(h, arr)) :
                 o \in realloc(bridged, h, arr, Bytes(capacity, elem))}

\* Mutant of push_raw: the new length is not written.
push_rawWrong(bridged, h, arr, x, elem) ==
    IF array_len(h, arr) = IntMax THEN {Failed(h)}
    ELSE {WithArray(o, array_len(h, arr), array_capacity(o.heap, o.addr), Append(Elements(h, arr), x)) :
             o \in reserve_for_push(bridged, h, arr, elem)}

(* The value goes behind the last element.                                 *)
push_raw(bridged, h, arr, x, elem) ==
    IF array_len(h, arr) = IntMax THEN {Failed(h)}
    ELSE {WithArray(o, array_len(h, arr) + 1, array_capacity(o.heap, o.addr), Append(Elements(h, arr), x)) :
             o \in reserve_for_push(bridged, h, arr, elem)}

Clamp(i, low, high) == IF i < low THEN low ELSE IF i > high THEN high ELSE i

\* Mutant of slice_bytes: the slice shares the array's data.
slice_bytesWrong(bridged, h, arr, start, end, elem) == {Outcome(h, arr, TRUE)}

(* An empty slice is NULL, like an array nothing was pushed to.            *)
slice_bytes(bridged, h, arr, start, end, elem) ==
    LET length == array_len(h, arr)
        from == IF start < 0 THEN 0 ELSE start
        first == Clamp(from, 0, length)
        last == Clamp(IF end < from THEN from ELSE end, 0, length)
        count == last - first
    IN  IF arr = NULL \/ count = 0 \/ ~Fits(count, elem) THEN {Failed(h)}
        ELSE {WithArray(o, count, count, SubSeq(Elements(h, arr), first + 1, last)) :
                 o \in malloc(bridged, h, Bytes(count, elem))}

-----------------------------------------------------------------------------
(* A program with array variables.  Arrays are moved, not copied, and      *)
(* never freed.  A block that no variable points to is out of the          *)
(* program's sight and forgotten, so that its place can be used again.     *)
VARIABLES heap,
          arrays,    \* the address in each variable
          elem,      \* the size of the elements
          bridged

arrayVars == <<heap, arrays, elem, bridged>>

ArrayInit ==
    /\ heap = [a \in Addrs |-> Free] /\ arrays = [v \in Vars |-> NULL]
    /\ elem \in ElemSizes /\ bridged \in BOOLEAN

Bind(v, o) ==
    /\ arrays' = [arrays EXCEPT ![v] = o.addr]
    /\ heap' = [a \in Addrs |-> IF \E w \in Vars : arrays'[w] = a THEN o.heap[a] ELSE Free]
    /\ UNCHANGED <<elem, bridged>>

Push(v, x) == \E o \in push_raw(bridged, heap, arrays[v], x, elem) : Bind(v, o)

Move(v, w) ==
    /\ v # w
    /\ arrays' = [arrays EXCEPT ![w] = arrays[v], ![v] = NULL]
    /\ heap' = [a \in Addrs |-> IF a = arrays[w] THEN Free ELSE heap[a]]
    /\ UNCHANGED <<elem, bridged>>

Slice(v, w, start, end) ==
    \E o \in slice_bytes(bridged, heap, arrays[v], start, end, elem) : Bind(w, o)

ArrayNext ==
    \E v, w \in Vars :
        \/ \E x \in Values : Push(v, x)
        \/ Move(v, w)
        \/ \E start, end \in Bounds : Slice(v, w, start, end)

ArraySpec == ArrayInit /\ [][ArrayNext]_arrayVars

-----------------------------------------------------------------------------
(* Length, capacity and block fit together in every array a variable has,  *)
(* at every width of int and size_t: nothing is read or written outside.   *)
InBounds ==
    \A v \in Vars : arrays[v] # NULL =>
        /\ heap[arrays[v]] # Free
        /\ LET b == heap[arrays[v]]
           IN  /\ b.body.len = Len(b.body.data) /\ b.body.len <= b.body.capacity
               /\ HeaderSize + b.body.capacity * elem <= b.room

(* The arrays are the abstract ones: a push, in place or not, appends or,  *)
(* without memory, empties; a slice is a copy and no array shares another. *)
Abstract == INSTANCE DynArrays WITH
    val <- [v \in Vars |-> Elements(heap, arrays[v])], MaxLen <- IntMax
ImplementsArrays == Abstract!Spec
=============================================================================
