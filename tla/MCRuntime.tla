----------------------------- MODULE MCRuntime -----------------------------
(***************************************************************************)
(* Runtime over every plan of a few actions.                               *)
(***************************************************************************)
EXTENDS RuntimeProperties

(* The plans that are not refused, and those that may be, cycles included, *)
(* with the last action on its own.                                        *)
MCPlans ==
  {d \in [Actions -> SUBSET Actions] :
     Acyclic(d) \/ \A a \in Actions : d[NumActions] = {} /\ NumActions \notin d[a]}
=============================================================================
