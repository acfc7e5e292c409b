-------------------------- MODULE MemoryPoolProofs --------------------------
(***************************************************************************)
(* For every capacity, request size and width of size_t that the           *)
(* assumptions of MemoryPool allow: its type invariant, the disjointness   *)
(* of its live blocks, and that it implements Allocator.                   *)
(***************************************************************************)
EXTENDS MemoryPool, TLAPS

Request == 0 .. MaxRequest

(***************************************************************************)
(* Under SizeModAssumption the sum in alloc cannot wrap, so the check says *)
(* what it seems to say.                                                   *)
(***************************************************************************)
LEMMA FitsMeansFits ==
  ASSUME NEW size \in Request, TypeOK
  PROVE  DoesNotFit(size) <=> next + size > capacity
<1>1. next + size \in 0 .. SizeMod - 1
  BY MaxCapacityAssumption, MaxRequestAssumption, SizeModAssumption
     DEF Request, TypeOK, Offsets
<1>2. (next + size) % SizeMod = next + size
  BY <1>1, SizeModAssumption
<1> QED
  BY <1>2 DEF DoesNotFit

\* The invariant holds of a pool just made.
LEMMA InitEstablishesInv == Init => PoolInv
<1> SUFFICES ASSUME Init PROVE PoolInv
  OBVIOUS
<1>1. TypeOK
  BY MaxCapacityAssumption DEF Init, TypeOK, Offsets
<1>2. LiveBlocksDisjoint
  BY DEF Init, LiveBlocksDisjoint
<1> QED
  BY <1>1, <1>2 DEF PoolInv

(***************************************************************************)
(* alloc that succeeds: the block starts at the old next(), above the end  *)
(* of every live block.                                                    *)
(***************************************************************************)
LEMMA AllocKeepsInv ==
  ASSUME PoolInv, NEW size \in Request, AllocSucceeds(size)
  PROVE  PoolInv'
<1> DEFINE b == [at |-> next, size |-> size]
<1>1. next + size <= capacity
  BY FitsMeansFits DEF PoolInv, AllocSucceeds, TypeOK, Request, Offsets
<1>2. b \in Blocks /\ End(b) = next + size
  BY MaxCapacityAssumption DEF PoolInv, TypeOK, Offsets, Blocks, Request, End
<1>3. TypeOK'
  BY <1>1, <1>2, MaxCapacityAssumption, MaxRequestAssumption
     DEF PoolInv, TypeOK, AllocSucceeds, Request, Offsets
<1>4. LiveBlocksDisjoint'
  <2>1. ASSUME NEW c \in live' PROVE End(c) <= next'
    <3>1. CASE c = b
      BY <3>1, <1>2 DEF AllocSucceeds, PoolInv, TypeOK, Offsets, Request
    <3>2. CASE c \in live
      BY <3>2 DEF AllocSucceeds, PoolInv, LiveBlocksDisjoint, TypeOK, Offsets,
                  Blocks, End, Request
    <3> QED
      BY <2>1, <3>1, <3>2 DEF AllocSucceeds
  <2>2. ASSUME NEW c \in live', NEW d \in live', c # d
        PROVE  End(c) <= d.at \/ End(d) <= c.at
    <3>1. CASE c \in live /\ d \in live
      BY <2>2, <3>1 DEF PoolInv, LiveBlocksDisjoint
    <3>2. CASE c = b /\ d \in live
      BY <3>2 DEF PoolInv, LiveBlocksDisjoint
    <3>3. CASE c \in live /\ d = b
      BY <3>3 DEF PoolInv, LiveBlocksDisjoint
    <3> QED
      BY <2>2, <3>1, <3>2, <3>3 DEF AllocSucceeds
  <2> QED
    BY <2>1, <2>2 DEF LiveBlocksDisjoint
<1> QED
  BY <1>3, <1>4 DEF PoolInv

(***************************************************************************)
(* Every call keeps the invariant.                                         *)
(***************************************************************************)
LEMMA NextKeepsInv == PoolInv /\ [Next]_vars => PoolInv'
<1> SUFFICES ASSUME PoolInv, [Next]_vars PROVE PoolInv'
  OBVIOUS
<1> USE DEF PoolInv
<1>1. ASSUME NEW size \in Request, AllocFails(size) PROVE PoolInv'
  BY <1>1 DEF AllocFails, TypeOK, LiveBlocksDisjoint, Offsets
<1>2. ASSUME NEW size \in Request, AllocSucceeds(size) PROVE PoolInv'
  BY <1>2, AllocKeepsInv
<1>3. ASSUME NEW size \in Request, UnallocFails(size) PROVE PoolInv'
  BY <1>3 DEF UnallocFails, TypeOK, LiveBlocksDisjoint, Offsets
<1>4. ASSUME NEW size \in Request, UnallocSucceeds(size) PROVE PoolInv'
  <2>1. TypeOK'
    BY <1>4, MaxCapacityAssumption, MaxRequestAssumption
       DEF UnallocSucceeds, TypeOK, Offsets, Request
  <2>2. LiveBlocksDisjoint'
    BY <1>4 DEF UnallocSucceeds, LiveBlocksDisjoint
  <2> QED
    BY <2>1, <2>2
<1>5. CASE FreeAll
  BY <1>5, MaxCapacityAssumption DEF FreeAll, TypeOK, LiveBlocksDisjoint, Offsets
<1>6. CASE UNCHANGED vars
  BY <1>6 DEF vars, TypeOK, LiveBlocksDisjoint
<1> QED
  BY <1>1, <1>2, <1>3, <1>4, <1>5, <1>6 DEF Next, Request

(***************************************************************************)
(* The pool's state is well formed: next() never leaves the heap, in       *)
(* particular it never passes the capacity or falls below the base.        *)
(***************************************************************************)
THEOREM PoolTypeCorrect == Spec => []TypeOK
<1>1. PoolInv => TypeOK
  BY DEF PoolInv
<1> QED
  BY InitEstablishesInv, NextKeepsInv, <1>1, PTL DEF Spec

(***************************************************************************)
(* No byte the pool has handed out and not taken back belongs to two       *)
(* blocks, for every sequence of calls.                                    *)
(***************************************************************************)
THEOREM PoolBlocksDisjoint == Spec => []LiveBlocksDisjoint
<1>1. PoolInv => LiveBlocksDisjoint
  BY DEF PoolInv
<1> QED
  BY InitEstablishesInv, NextKeepsInv, <1>1, PTL DEF Spec

(***************************************************************************)
(* Every step of the pool is a step of the abstract allocator or a         *)
(* stutter: a bump pointer is enough to keep blocks apart.                 *)
(***************************************************************************)
LEMMA StepImplements ==
  ASSUME PoolInv, [Next]_vars
  PROVE  [Promise!Grant \/ Promise!Refuse \/ Promise!TakeBack]_Promise!vars
<1> USE DEF PoolInv
<1>1. ASSUME NEW size \in Request, AllocFails(size) PROVE Promise!Refuse
  BY <1>1 DEF AllocFails, Promise!Refuse
<1>2. ASSUME NEW size \in Request, AllocSucceeds(size) PROVE Promise!Grant
  <2> DEFINE b == [at |-> next, size |-> size]
  <2>1. b \in [at : Offsets, size : 0 .. MaxRequest]
    BY MaxCapacityAssumption DEF TypeOK, Offsets, Request
  <2>2. Promise!End(b) <= capacity
    BY FitsMeansFits, <1>2 DEF AllocSucceeds, Promise!End, TypeOK, Offsets, Request
  <2>3. \A c \in live : c # b => Promise!Apart(b, c)
    BY DEF LiveBlocksDisjoint, Promise!Apart, Promise!End, End
  <2> QED
    BY <1>2, <2>1, <2>2, <2>3 DEF AllocSucceeds, Promise!Grant
<1>3. ASSUME NEW size \in Request, UnallocFails(size) PROVE Promise!Refuse
  BY <1>3 DEF UnallocFails, Promise!Refuse
<1>4. ASSUME NEW size \in Request, UnallocSucceeds(size) PROVE Promise!TakeBack
  <2>1. HeapIsNull => live = {b \in live : End(b) <= next - size}
    <3> SUFFICES ASSUME HeapIsNull, NEW b \in live PROVE End(b) <= next - size
      OBVIOUS
    <3> QED
      BY <1>4 DEF HeapIsNull, TypeOK, LiveBlocksDisjoint, UnallocSucceeds, Offsets,
                  Request, Blocks, End
  <2>2. result' = Null => live' = live
    <3>1. CASE HeapIsNull
      BY <1>4, <2>1, <3>1 DEF UnallocSucceeds
    <3>2. CASE ~HeapIsNull
      BY <1>4, <3>2 DEF UnallocSucceeds, Null, TypeOK, Offsets, Request
    <3> QED
      BY <3>1, <3>2
  <2>3. result' \in Offsets \cup {Null}
    BY <1>4, MaxCapacityAssumption DEF UnallocSucceeds, TypeOK, Offsets, Request
  <2> QED
    BY <1>4, <2>2, <2>3 DEF UnallocSucceeds, Promise!TakeBack
<1>5. CASE FreeAll
  BY <1>5 DEF FreeAll, Promise!TakeBack
<1>6. CASE UNCHANGED vars
  BY <1>6 DEF vars, Promise!vars
<1> QED
  BY <1>1, <1>2, <1>3, <1>4, <1>5, <1>6 DEF Next, Request

(***************************************************************************)
(* The pool implements the allocator its callers rely on.                  *)
(***************************************************************************)
THEOREM PoolImplementsAllocator == Spec => ImplementsAllocator
<1>1. Init => Promise!Init
  BY DEF Init, Promise!Init
<1> QED
  BY InitEstablishesInv, NextKeepsInv, StepImplements, <1>1, PTL
     DEF Spec, ImplementsAllocator, Promise!Spec
=============================================================================
