---------------------------- MODULE MCAllocator ----------------------------
(***************************************************************************)
(* Instances of Allocator for TLC: the configurations of a few parsers     *)
(* under a few modes, in any order.                                        *)
(***************************************************************************)
EXTENDS Allocator

CONSTANTS Sizes, MaxBuffers, Modes, MaxConfigs

\* A parser asks for its buffers in any order, so only their sizes count.
MCNeeds ==
  {s \in UNION {[1 .. n -> Sizes] : n \in 1 .. MaxBuffers} :
     \A b \in 1 .. Len(s) - 1 : s[b] <= s[b + 1]}

MCPlans ==
  UNION {[1 .. n -> [alloc : Modes, needs : MCNeeds, fresh : BOOLEAN]] : n \in 1 .. MaxConfigs}

\* They leave room in the table, which is what TableSuffices rests on.
ASSUME MCAllocatorAssumption == TableFits
=============================================================================
