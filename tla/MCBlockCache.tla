------------------------------ MODULE MCBlockCache ------------------------------
(* Instances of BlockCache for model checking.                             *)
EXTENDS BlockCache
================================================================================
