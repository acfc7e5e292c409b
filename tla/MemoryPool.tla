----------------------------- MODULE MemoryPool -----------------------------
(***************************************************************************)
(* The bump allocator of src/src/MemoryPool.hpp, in both of its forms: the *)
(* StaticMemoryPool, whose buffer is a member, and the DynamicMemoryPool,  *)
(* whose buffer comes from the heap and is null when the capacity is 0.    *)
(* Addresses are offsets from m_heap, so used() = m_next - m_heap is the   *)
(* variable next itself.                                                   *)
(*                                                                         *)
(* live is a history variable: the blocks that alloc has handed out and    *)
(* that no later unalloc or freeAll has cut into.  The code keeps no such  *)
(* record, so nothing stops a caller from giving back bytes that are not   *)
(* the last ones it was given.                                             *)
(***************************************************************************)
EXTENDS Integers

CONSTANTS
  MaxCapacity,   \* largest capacity a pool is created with
  MaxRequest,    \* largest size passed to alloc or unalloc
  SizeMod        \* 2^w for the w bits of size_t

ASSUME MaxCapacityAssumption == MaxCapacity \in Nat \ {0}
ASSUME MaxRequestAssumption  == MaxRequest \in Nat
\* used() + size does not wrap: no caller asks for anything near 2^w bytes.
ASSUME SizeModAssumption     == SizeMod \in Nat /\ MaxCapacity + MaxRequest < SizeMod

VARIABLES
  kind,      \* "static" or "dynamic"
  capacity,  \* TCapacity, or m_capacity
  next,      \* m_next - m_heap
  live,      \* history: the live blocks
  result     \* what the last call returned: an offset, or Null

vars == <<kind, capacity, next, live, result>>

Null == -1
Offsets == 0 .. MaxCapacity
Blocks == [at : Offsets, size : 0 .. MaxRequest]
End(b) == b.at + b.size

HeapIsNull == kind = "dynamic" /\ capacity = 0

TypeOK ==
  /\ kind \in {"static", "dynamic"}
  /\ capacity \in Offsets
  /\ next \in 0 .. capacity
  /\ live \subseteq Blocks
  /\ result \in Offsets \cup {Null}

\* Mutants: the limit is one byte off; the bytes in use are forgotten.
DoesNotFit_OffByOne(size) == (next + size) % SizeMod > capacity + 1
DoesNotFit_Alone(size) == size > capacity

\* used() + size > capacity, computed in size_t
DoesNotFit(size) == (next + size) % SizeMod > capacity

Init ==
  /\ kind \in {"static", "dynamic"}
  /\ capacity \in Offsets
  /\ kind = "static" => capacity > 0        \* the static_assert
  /\ next = 0
  /\ live = {}
  /\ result = Null

AllocFails(size) ==
  /\ HeapIsNull \/ DoesNotFit(size)
  /\ result' = Null
  /\ UNCHANGED <<kind, capacity, next, live>>

\* Mutant: m_next is not moved.
AllocSucceeds_Stays(size) ==
  /\ ~HeapIsNull
  /\ ~DoesNotFit(size)
  /\ result' = next
  /\ live' = live \cup {[at |-> next, size |-> size]}
  /\ UNCHANGED <<kind, capacity, next>>

AllocSucceeds(size) ==
  /\ ~HeapIsNull
  /\ ~DoesNotFit(size)
  /\ result' = next
  /\ next' = next + size
  /\ live' = live \cup {[at |-> next, size |-> size]}
  /\ UNCHANGED <<kind, capacity>>

UnallocFails(size) ==
  /\ size > next
  /\ result' = Null
  /\ UNCHANGED <<kind, capacity, next, live>>

\* The code looks at the size only: a block that loses a byte is dead,
\* whoever holds it.
UnallocSucceeds(size) ==
  /\ size <= next
  /\ next' = next - size
  /\ result' = IF HeapIsNull THEN Null ELSE next'
  /\ live' = {b \in live : End(b) <= next'}
  /\ UNCHANGED <<kind, capacity>>

FreeAll ==
  /\ next' = 0
  /\ live' = {}
  /\ result' = Null
  /\ UNCHANGED <<kind, capacity>>

Next ==
  \/ \E size \in 0 .. MaxRequest :
       \/ AllocFails(size)
       \/ AllocSucceeds(size)
       \/ UnallocFails(size)
       \/ UnallocSucceeds(size)
  \/ FreeAll

Spec == Init /\ [][Next]_vars

-----------------------------------------------------------------------------
(***************************************************************************)
(* Two live blocks never share a byte and every live block lies inside the *)
(* heap, below next(): whatever mixture of alloc, unalloc and freeAll the  *)
(* callers make, memory the pool has handed out and has not taken back is  *)
(* nobody else's (alloc, unalloc and freeAll of MemoryPool.hpp).           *)
(***************************************************************************)
LiveBlocksDisjoint ==
  /\ \A b \in live : End(b) <= next
  /\ \A b, c \in live : b # c => End(b) <= c.at \/ End(c) <= b.at

(***************************************************************************)
(* The pool is an allocator: every grant is a block of the heap apart from *)
(* the live ones, a refused call leaves the caller's blocks alone, and     *)
(* only unalloc and freeAll take blocks back.                              *)
(***************************************************************************)
Promise == INSTANCE Allocator WITH Sizes <- 0 .. MaxRequest
ImplementsAllocator == Promise!Spec

(***************************************************************************)
(* The inductive invariant that the two theorems rest on.                  *)
(***************************************************************************)
PoolInv == TypeOK /\ LiveBlocksDisjoint
=============================================================================
