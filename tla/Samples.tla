------------------------------ MODULE Samples ------------------------------
(***************************************************************************)
(* The input of a conversion or a search.  A function of the library that  *)
(* keeps no state is checked on every input of a bounded set: each is an   *)
(* initial state, and sample.of says which functions it is for.            *)
(***************************************************************************)
VARIABLE sample

NoSample == sample = [of |-> "nothing"]
=============================================================================
