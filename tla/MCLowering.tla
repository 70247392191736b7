----------------------------- MODULE MCLowering -----------------------------
(***************************************************************************)
(* Instances of Lowering: arenas of guards over two Boolean variables, and *)
(* arenas of bit vectors over a variable of width one and one of width two. *)
(***************************************************************************)
EXTENDS Rendering

CONSTANTS p, q, a, b

MCGuardSorts  == [name \in {p, q} |-> Bool]
MCVectorSorts == [name \in {a, b} |-> IF name = a THEN 1 ELSE 2]

=============================================================================
