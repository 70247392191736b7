--------------------------- MODULE SelectionSplit ---------------------------
(***************************************************************************)
(* What selection enumeration promises, whatever the program: it holds a   *)
(* set of candidates, each a guard (a set of inputs) and a trace (outcomes *)
(* by selection site), and only ever                                       *)
(*                                                                         *)
(*   - splits one candidate at a site its trace does not have yet, giving  *)
(*     every part its own outcome there and no input to two parts;         *)
(*   - prunes a candidate no input reaches;                                *)
(*   - cuts candidates, or parts of a split, and says so for good.         *)
(*                                                                         *)
(* Enumerator implements this specification.                               *)
(***************************************************************************)
CONSTANT Inputs

VARIABLES
  domain,   \* the inputs the caller's assumptions allow
  live,     \* the candidates
  cut       \* whether some candidate was given up

vars == <<domain, live, cut>>

Disjoint(c, d) == c.guard \cap d.guard = {}

\* No input can follow both traces: they disagree at a site both have.
Conflict(c, d) ==
  \E s \in DOMAIN c.trace \cap DOMAIN d.trace : c.trace[s] # d.trace[s]

Covered == UNION {c.guard : c \in live}

\* `kid` is `c` with one more selection, at site s, resolved.
Refines(kid, c, s) ==
  /\ kid.guard \subseteq c.guard
  /\ DOMAIN kid.trace = DOMAIN c.trace \cup {s}
  /\ \A t \in DOMAIN c.trace : kid.trace[t] = c.trace[t]

Init ==
  /\ domain \in SUBSET Inputs
  /\ live = {[guard |-> domain, trace |-> <<>>]}
  /\ cut = FALSE

\* c gives way to kids, its refinements at one new site.
Split(c, kids) ==
  /\ live' = (live \ {c}) \cup kids
  /\ \E s \in (UNION {DOMAIN kid.trace : kid \in kids}) \ DOMAIN c.trace :
       /\ \A kid \in kids : Refines(kid, c, s)
       /\ \A k1, k2 \in kids :
            k1 # k2 => Disjoint(k1, k2) /\ k1.trace[s] # k2.trace[s]
  /\ \/ cut' = cut /\ UNION {kid.guard : kid \in kids} = c.guard
     \/ cut' = TRUE
  /\ UNCHANGED domain

Prune(c) ==
  /\ c.guard = {}
  /\ live' = live \ {c}
  /\ UNCHANGED <<domain, cut>>

Cut ==
  /\ live' \in SUBSET live
  /\ cut' = TRUE
  /\ UNCHANGED domain

Next ==
  \/ \E c \in live \ live', kids \in {live' \ live} : Split(c, kids)
  \/ \E c \in live : Prune(c)
  \/ Cut

Spec == Init /\ [][Next]_vars

-----------------------------------------------------------------------------
(***************************************************************************)
(* The guards of the candidates are disjoint and, until something is cut,  *)
(* cover exactly the inputs the assumptions allow.                         *)
(***************************************************************************)
Partition ==
  /\ \A c, d \in live : c # d => Disjoint(c, d)
  /\ Covered \subseteq domain
  /\ ~cut => Covered = domain

(***************************************************************************)
(* A trace identifies its candidate: any two candidates disagree at a site *)
(* both reached, so no trace extends or equals another.                    *)
(***************************************************************************)
TracesConflict == \A c, d \in live : c # d => Conflict(c, d)

=============================================================================
