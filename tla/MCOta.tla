---------------------------------- MODULE MCOta ----------------------------------
(* Instances of Ota for model checking: signed images of one and of two chunks, *)
(* an unsigned one, and a signed one that does not fit the bank.               *)
EXTENDS Ota

CONSTANTS x, y

MCManifests ==
  { [image |-> <<y>>, signed |-> TRUE],
    [image |-> <<x, y>>, signed |-> TRUE],
    [image |-> <<y, y>>, signed |-> FALSE],
    [image |-> <<x, x, y>>, signed |-> TRUE] }

MCFactory == <<x, x>>
================================================================================
