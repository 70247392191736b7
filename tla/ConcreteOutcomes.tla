-------------------------- MODULE ConcreteOutcomes --------------------------
(***************************************************************************)
(* The outcomes of a request's sites on one input, for TLC: all sites that *)
(* the request has, each evaluated by Reference from those it demands.     *)
(***************************************************************************)
EXTENDS Reference

KeysIn(r, fn) ==
  UNION {LET nd == r.fns[fn].nodes[i] IN
         CASE nd.kind = "invoke"      -> {InvokeKey(fn, i)}
           [] nd.kind = "counted_for" -> {IterationKey(fn, i, k) : k \in 0..(nd.trip - 1)}
           [] OTHER                   -> {} : i \in 1..Len(r.fns[fn].nodes)}

Deeper(r, contexts) ==
  UNION {{Append(inv, key) : key \in KeysIn(r, FunctionIn(r, inv))} : inv \in contexts}

\* The contexts of at most `depth` calls.
Contexts(r, depth) ==
  LET exactly[d \in 0..depth] == IF d = 0 THEN {<<>>} ELSE Deeper(r, exactly[d - 1])
  IN  UNION {exactly[d] : d \in 0..depth}

\* No program of Programs calls deeper than two.
MaxDepth == 2

SitesOf(r) ==
  UNION {{<<FunctionIn(r, inv), node, inv>> : node \in 1..Len(r.fns[FunctionIn(r, inv)].nodes)} :
         inv \in Contexts(r, MaxDepth)}

OutcomesOf(r, x) == LET out[site \in SitesOf(r)] == OutcomeOfParts(r, x, out, site) IN out

=============================================================================
