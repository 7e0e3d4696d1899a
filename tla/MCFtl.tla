--------------------------------- MODULE MCFtl ---------------------------------
(* Instances of Ftl for model checking.                                    *)
EXTENDS Ftl, TLC

DataSymmetry == Permutations(Data)
================================================================================
