-------------------------------- MODULE Model --------------------------------
(***************************************************************************)
(* The vocabulary of package model: the states of a prover job and the     *)
(* order the program gives them.  A State is a uint8 in the source; the    *)
(* zero value is StateUnknown.                                             *)
(***************************************************************************)
EXTENDS Integers

StateUnknown   == 0
StateSubmitted == 1
StateProving   == 2
StateVerifying == 3
StateComplete  == 4

State == StateUnknown .. StateComplete

==============================================================================
