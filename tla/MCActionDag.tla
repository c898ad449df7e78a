---------------------------- MODULE MCActionDag ----------------------------
(***************************************************************************)
(* The sort over every plan of a few actions, the broken ones included.    *)
(***************************************************************************)
EXTENDS ActionDag

AllInputs == [Actions -> SUBSET (Actions \cup {Unknown})]
=============================================================================
