------------------------ MODULE SelectionSplitProofs ------------------------
(***************************************************************************)
(* The promise of selection enumeration holds of every behaviour of        *)
(* SelectionSplit, for every set of inputs.                                *)
(***************************************************************************)
EXTENDS SelectionSplit, TLAPS

\* A refinement of a candidate conflicts with whatever the candidate did:
\* extending a trace in a cloned State never forgets an outcome.
LEMMA RefinementKeepsConflict ==
  ASSUME NEW c, NEW d, NEW kid, NEW s, Refines(kid, c, s)
  PROVE  /\ Conflict(c, d) => Conflict(kid, d)
         /\ Conflict(d, c) => Conflict(d, kid)
  BY DEF Refines, Conflict

LEMMA RefinementKeepsDisjoint ==
  ASSUME NEW c, NEW d, NEW kid, NEW s, Refines(kid, c, s)
  PROVE  /\ Disjoint(c, d) => Disjoint(kid, d)
         /\ Disjoint(d, c) => Disjoint(d, kid)
  BY DEF Refines, Disjoint

-----------------------------------------------------------------------------
\* Any two candidates disagree at a shared selection, so that the traces
\* solve_candidates receives are pairwise different.
THEOREM SplitTracesConflict == Spec => []TracesConflict
<1>1. Init => TracesConflict
  BY DEF Init, TracesConflict
<1>2. TracesConflict /\ [Next]_vars => TracesConflict'
  <2> SUFFICES ASSUME TracesConflict, [Next]_vars PROVE TracesConflict'
    OBVIOUS
  <2>1. ASSUME NEW c \in live, NEW kids, Split(c, kids) PROVE TracesConflict'
    <3>1. live' = (live \ {c}) \cup kids
      BY <2>1 DEF Split
    <3>2. PICK s \in (UNION {DOMAIN kid.trace : kid \in kids}) \ DOMAIN c.trace :
            /\ \A kid \in kids : Refines(kid, c, s)
            /\ \A k1, k2 \in kids : k1 # k2 => k1.trace[s] # k2.trace[s]
      BY <2>1 DEF Split
    <3>3. ASSUME NEW k1 \in kids, NEW k2 \in kids, k1 # k2 PROVE Conflict(k1, k2)
      BY <3>2, <3>3 DEF Conflict, Refines
    <3>4. ASSUME NEW kid \in kids, NEW d \in live \ {c}
          PROVE  Conflict(kid, d) /\ Conflict(d, kid)
      <4>1. Conflict(c, d) /\ Conflict(d, c)
        BY DEF TracesConflict
      <4>2. Refines(kid, c, s)
        BY <3>2
      <4> QED BY <4>1, <4>2, RefinementKeepsConflict
    <3>5. ASSUME NEW d1 \in live \ {c}, NEW d2 \in live \ {c}, d1 # d2
          PROVE  Conflict(d1, d2)
      BY <3>5 DEF TracesConflict
    <3>6. ASSUME NEW d1 \in live', NEW d2 \in live', d1 # d2 PROVE Conflict(d1, d2)
      BY <3>1, <3>3, <3>4, <3>5, <3>6
    <3> QED BY <3>6 DEF TracesConflict, Conflict
  <2>2. ASSUME NEW c \in live, Prune(c) PROVE TracesConflict'
    BY <2>2 DEF Prune, TracesConflict, Conflict
  <2>3. CASE Cut
    BY <2>3 DEF Cut, TracesConflict, Conflict
  <2>4. CASE UNCHANGED vars
    BY <2>4 DEF vars, TracesConflict, Conflict
  <2> QED BY <2>1, <2>2, <2>3, <2>4 DEF Next
<1> QED BY <1>1, <1>2, PTL DEF Spec

-----------------------------------------------------------------------------
\* The guards are disjoint, stay inside the assumptions, and cover them as
\* long as no candidate was given up.
THEOREM SplitPartition == Spec => []Partition
<1>1. Init => Partition
  BY DEF Init, Partition, Covered
<1>2. Partition /\ [Next]_vars => Partition'
  <2> SUFFICES ASSUME Partition, [Next]_vars PROVE Partition'
    OBVIOUS
  <2>1. ASSUME NEW c \in live, NEW kids, Split(c, kids) PROVE Partition'
    <3> DEFINE kidGuards == UNION {kid.guard : kid \in kids}
               others == UNION {d.guard : d \in live \ {c}}
    <3>1. live' = (live \ {c}) \cup kids
      BY <2>1 DEF Split
    <3>2. PICK s \in (UNION {DOMAIN kid.trace : kid \in kids}) \ DOMAIN c.trace :
            /\ \A kid \in kids : Refines(kid, c, s)
            /\ \A k1, k2 \in kids : k1 # k2 => Disjoint(k1, k2)
      BY <2>1 DEF Split
    <3>3. /\ domain' = domain
          /\ \/ cut' = cut /\ kidGuards = c.guard
             \/ cut' = TRUE
      BY <2>1 DEF Split
    <3>4. ASSUME NEW kid \in kids, NEW d \in live \ {c}
          PROVE  Disjoint(kid, d) /\ Disjoint(d, kid)
      <4>1. Disjoint(c, d) /\ Disjoint(d, c)
        BY DEF Partition
      <4>2. Refines(kid, c, s)
        BY <3>2
      <4> QED BY <4>1, <4>2, RefinementKeepsDisjoint
    <3>5. ASSUME NEW d1 \in live \ {c}, NEW d2 \in live \ {c}, d1 # d2
          PROVE  Disjoint(d1, d2)
      BY <3>5 DEF Partition
    <3>6. kidGuards \subseteq c.guard
      BY <3>2 DEF Refines
    <3>7. Covered = others \cup c.guard
      BY DEF Covered
    <3>8. Covered' = others \cup kidGuards
      BY <3>1 DEF Covered
    <3> HIDE DEF kidGuards, others
    <3>9. ASSUME NEW d1 \in live', NEW d2 \in live', d1 # d2 PROVE Disjoint(d1, d2)
      BY <3>1, <3>2, <3>4, <3>5, <3>9
    <3>10. Covered' \subseteq domain'
      BY <3>3, <3>6, <3>7, <3>8 DEF Partition
    <3>11. ~cut' => Covered' = domain'
      BY <3>3, <3>7, <3>8 DEF Partition
    <3> QED BY <3>9, <3>10, <3>11 DEF Partition, Disjoint
  <2>2. ASSUME NEW c \in live, Prune(c) PROVE Partition'
    <3>1. Covered' = Covered
      BY <2>2 DEF Prune, Covered
    <3> QED BY <2>2, <3>1 DEF Prune, Partition, Disjoint
  <2>3. CASE Cut
    <3>1. Covered' \subseteq Covered
      BY <2>3 DEF Cut, Covered
    <3> QED BY <2>3, <3>1 DEF Cut, Partition, Disjoint
  <2>4. CASE UNCHANGED vars
    BY <2>4 DEF vars, Partition, Disjoint, Covered
  <2> QED BY <2>1, <2>2, <2>3, <2>4 DEF Next
<1> QED BY <1>1, <1>2, PTL DEF Spec

=============================================================================
