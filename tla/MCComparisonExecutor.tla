------------------------ MODULE MCComparisonExecutor ------------------------
(* Small instances of ComparisonExecutor.                                  *)
EXTENDS ComparisonExecutor, TLC

CONSTANTS p1, p2, none

OwnSession == [o \in Owners |-> o]
RequestKeys == [comparison : Comparisons, generation : 1 .. MaxGeneration,
                revision : 0 .. MaxRevision]
AllOnCpu == [k \in RequestKeys |-> Cpu]
TwoAndOne == p1 :> 2 @@ p2 :> 1
ThreeEach == p1 :> 3 @@ p2 :> 3
CpuSlots == [r \in {Cpu} |-> 2]
OneCpuSlot == [r \in {Cpu} |-> 1]

=============================================================================
