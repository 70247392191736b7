-------------------------- MODULE MCSolveCandidates -------------------------
(***************************************************************************)
(* Instances of SolveCandidates: every list of up to three candidates with *)
(* disjoint guards over two inputs, in any trace order, some infeasible.   *)
(***************************************************************************)
EXTENDS SolveCandidates

MCInputs == {1, 2}
MCTraces == 1..3

DisjointGuards(list) ==
  \A i, j \in 1..Len(list) : i # j => list[i].guard \cap list[j].guard = {}

Lists(n) == UNION {[1..k -> Candidates] : k \in 0..n}

MCWorkloads == {list \in Lists(3) : DistinctTraces(list) /\ DisjointGuards(list)}

MCLimits == {NoLimit, 0, 1, 2}

\* For the run about reaching a limit: at least one result is wanted.
MCPositiveLimits == {1, 2}

=============================================================================
