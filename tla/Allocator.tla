------------------------------ MODULE Allocator ------------------------------
(***************************************************************************)
(* What src/src/MemoryPool.hpp promises its callers, whatever its layout:  *)
(* a grant is a block of the heap that shares no byte with a block still   *)
(* live, a refusal changes nothing, and blocks may be taken back.  It does *)
(* not say where a block is, nor which blocks a call takes back.           *)
(***************************************************************************)
EXTENDS Integers

CONSTANTS Offsets, Sizes, Null

VARIABLES capacity, live, result

vars == <<capacity, live, result>>

End(b) == b.at + b.size
Apart(b, c) == End(b) <= c.at \/ End(c) <= b.at

Init ==
  /\ capacity \in Offsets
  /\ live = {}
  /\ result = Null

Grant ==
  \E b \in [at : Offsets, size : Sizes] :
    /\ End(b) <= capacity
    /\ \A c \in live : c # b => Apart(b, c)
    /\ live' = live \cup {b}
    /\ result' = b.at
    /\ UNCHANGED capacity

Refuse ==
  /\ result' = Null
  /\ UNCHANGED <<capacity, live>>

TakeBack ==
  /\ live' \subseteq live
  /\ result' \in Offsets \cup {Null}
  /\ result' = Null => live' \in {live, {}}   \* only freeAll does not answer
  /\ UNCHANGED capacity

Spec == Init /\ [][Grant \/ Refuse \/ TakeBack]_vars
=============================================================================
