-------------------------------- MODULE Programs -----------------------------
(***************************************************************************)
(* Small programs for TLC, shared by the models of the two evaluators.     *)
(* A program maps function names to [params, nodes, ret]; the entry point  *)
(* is f(a: bits[2], c: bits[1]), so that an input is a number in 0..7.     *)
(***************************************************************************)
EXTENDS Naturals, Sequences

MCInputs == 0..7

\* The argument values that an input stands for.
ArgumentsOf(x) == <<x % 4, x \div 4>>

(***************************************************************************)
(* Node constructors.                                                      *)
(***************************************************************************)
Node(kind, width, refs) ==
  [kind |-> kind, width |-> width, refs |-> refs, cases |-> <<>>, default |-> 0,
   callee |-> "", trip |-> 0, stride |-> 0, op |-> "", index |-> 0, selector_width |-> 0]

Param(index, width)        == [Node("param", width, <<>>) EXCEPT !.index = index]
Pure(op, width, refs)      == [Node("pure", width, refs) EXCEPT !.op = op]
Literal(width, n)          == [Node("pure", width, <<>>) EXCEPT !.op = "literal", !.index = n]
Unsupported1(width, refs)  == Node("unsupported", width, refs)
Invoke(callee, width, refs) == [Node("invoke", width, refs) EXCEPT !.callee = callee]
CountedFor(body, width, refs, trip, stride) ==
  [Node("counted_for", width, refs) EXCEPT !.callee = body, !.trip = trip, !.stride = stride]
Selection(kind, width, sel, selWidth, cases, default) ==
  [Node(kind, width, <<sel>>) EXCEPT !.cases = cases, !.default = default,
                                     !.selector_width = selWidth]

Function(params, nodes) == [params |-> params, nodes |-> nodes, ret |-> Len(nodes)]

(***************************************************************************)
(* Pure operations on numbers.                                             *)
(***************************************************************************)
MCOp(nd, v) ==
  CASE nd.op = "literal" -> nd.index
    [] nd.op = "zext"    -> v[1] % 2^nd.width
    [] nd.op = "low"     -> v[1] % 2^nd.width
    [] nd.op = "not"     -> 2^nd.width - 1 - (v[1] % 2^nd.width)
    [] nd.op = "add"     -> (v[1] + v[2]) % 2^nd.width
    [] nd.op = "sub"     -> (v[1] + 2^nd.width - v[2]) % 2^nd.width
    [] nd.op = "eq"      -> IF v[1] = v[2] THEN 1 ELSE 0

-----------------------------------------------------------------------------
(***************************************************************************)
(* Programs.  Node 3 is c widened to bits[2].                              *)
(***************************************************************************)
Prelude == <<Param(1, 2), Param(2, 1), Pure("zext", 2, <<2>>)>>
F(nodes) == Function(<<2, 1>>, Prelude \o nodes)
Top(nodes) == [f |-> F(nodes)]

SelectorWidth(sel) == IF sel = 2 THEN 1 ELSE 2

\* A selection the parser accepts: a default where the kind needs one.
Legal(kind, sel, cases, default) ==
  Selection(kind, 2, sel, SelectorWidth(sel), cases,
    CASE kind = "one_hot_sel" -> 0
      [] kind = "sel" /\ Len(cases) >= 2^SelectorWidth(sel) -> 0
      [] OTHER -> default)

Kinds == {"sel", "priority_sel", "one_hot_sel"}

\* Every pair of selections where the second may select on, or demand, the first.
Pairs ==
  {Top(<<Legal(k1, s1, <<1, 3>>, 3), Legal(k2, s2, cases, default)>>) :
     k1 \in Kinds, s1 \in {1, 2}, k2 \in Kinds, s2 \in {1, 2, 4},
     cases \in {<<4, 1>>, <<3, 4>>}, default \in {1, 4}}

\* Forks nested in forks, of every kind.
Nested ==
  {Top(<<Legal(k1, 1, <<1, 3>>, 3), Legal(k2, s2, <<4, 3>>, 4)>>) :
     k1 \in Kinds, k2 \in Kinds, s2 \in {1, 2, 4}}

\* Selectors that are constant, narrow, empty, or symbolic but single-valued.
Selectors ==
  {Top(<<Literal(1, 1), Legal("sel", 2, <<1, 3>>, 0), Selection("sel", 2, 4, 1, <<1, 5>>, 0)>>),
   Top(<<Literal(2, 3), Selection("sel", 2, 4, 2, <<1, 3>>, 3)>>),
   Top(<<Literal(2, 2), Selection("priority_sel", 2, 4, 2, <<1, 3>>, 1)>>),
   Top(<<Literal(2, 3), Selection("one_hot_sel", 2, 4, 2, <<1, 3>>, 0)>>),
   Top(<<Pure("eq", 1, <<1, 1>>), Selection("sel", 2, 4, 1, <<1, 3>>, 0)>>),
   Top(<<Pure("sub", 2, <<1, 1>>), Selection("one_hot_sel", 2, 4, 2, <<1, 3>>, 0)>>),
   Top(<<Selection("sel", 2, 2, 1, <<1, 3, 1>>, 3)>>),
   Top(<<Selection("priority_sel", 2, 2, 1, <<1, 3>>, 1)>>),
   Top(<<Selection("one_hot_sel", 2, 2, 1, <<1, 3>>, 0)>>),
   Top(<<Literal(0, 0), Selection("priority_sel", 2, 4, 0, <<1>>, 3)>>),
   Top(<<Literal(0, 0), Selection("one_hot_sel", 2, 4, 0, <<1>>, 0)>>)}

\* Unsupported operations: dead, in an inactive, an active and an unreachable case.
Failures ==
  {Top(<<Unsupported1(2, <<1>>), Legal("sel", 2, <<1, 3>>, 0)>>),
   Top(<<Literal(1, 0), Unsupported1(2, <<1>>), Selection("sel", 2, 4, 1, <<1, 5>>, 0)>>),
   Top(<<Unsupported1(2, <<1>>), Selection("sel", 2, 2, 1, <<1, 4>>, 0)>>),
   Top(<<Pure("sub", 2, <<1, 1>>), Unsupported1(2, <<1>>),
         Selection("sel", 2, 4, 2, <<1, 5>>, 1)>>)}

\* g(p: bits[1], q: bits[2]) selects on p between q and its complement.
G == Function(<<1, 2>>, <<Param(1, 1), Param(2, 2), Pure("not", 2, <<2>>),
                          Selection("sel", 2, 1, 1, <<2, 3>>, 0)>>)
\* h calls g twice and adds the results.
H == Function(<<1, 2>>, <<Param(1, 1), Param(2, 2), Invoke("g", 2, <<1, 2>>),
                          Invoke("g", 2, <<1, 3>>), Pure("add", 2, <<3, 4>>)>>)

Calls ==
  {[f |-> F(<<Invoke("g", 2, <<2, 1>>), Pure("low", 1, <<4>>),
              Invoke("g", 2, <<5, 4>>), Pure("add", 2, <<4, 6>>)>>), g |-> G],
   [f |-> F(<<Invoke("h", 2, <<2, 1>>), Pure("low", 1, <<1>>),
              Selection("sel", 2, 2, 1, <<4, 1>>, 0), Invoke("g", 2, <<5, 6>>)>>),
    g |-> G, h |-> H]}

\* A loop body on (i, carry, invariant): selects on the invariant, on the
\* carry, or on the induction value, which is concrete in every iteration.
Body(width, sel, selWidth) ==
  Function(<<width, 2, 1>>,
    <<Param(1, width), Param(2, 2), Param(3, 1), Literal(2, 1), Pure("add", 2, <<2, 4>>),
      Pure("low", 1, <<2>>), Selection("sel", 2, sel, selWidth, <<2, 5>>, 0)>>)

UnsupportedBody ==
  Function(<<1, 2, 1>>, <<Param(1, 1), Param(2, 2), Param(3, 1), Unsupported1(2, <<2>>)>>)

Loop(body, trip, stride) ==
  [f |-> F(<<CountedFor("body", 2, <<1, 2>>, trip, stride)>>), body |-> body]

Loops ==
  {Loop(Body(1, 3, 1), trip, 1) : trip \in {0, 2}}
  \cup {Loop(Body(1, 6, 1), 2, 1), Loop(Body(1, 1, 1), 3, 1), Loop(Body(2, 6, 1), 2, 4),
        Loop(Body(2, 6, 1), 3, 5), Loop(Body(3, 6, 1), 2, 8), Loop(Body(0, 1, 0), 2, 1)}
  \cup {Loop(UnsupportedBody, trip, 1) : trip \in {0, 1}}

=============================================================================
