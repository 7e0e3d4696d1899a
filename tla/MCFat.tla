--------------------------------- MODULE MCFat ---------------------------------
EXTENDS FatCheck, TLC
Symm == Permutations(Names) \cup Permutations(Cluster \ {Root})

(* After the last fault the run goes on until the volume is mounted and no     *)
(* call is in progress: the state it has come to is checked, not left.         *)
UntilSettled == ~(faults = MaxFaults /\ mounted /\ op = Idle)
================================================================================
