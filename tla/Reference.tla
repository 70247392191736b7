------------------------------ MODULE Reference -----------------------------
(***************************************************************************)
(* What one concrete input makes of a program, without guards, candidates, *)
(* a memo table or an order of evaluation: the outcome of every site, a    *)
(* node in its invocation context, in terms of the sites that it demands.  *)
(* The enumerator's results are compared with it input by input.           *)
(*                                                                         *)
(* An outcome is [value, trace, ok]: the selections demanded, each with    *)
(* what it resolved to, and FALSE for ok once an operation the evaluator   *)
(* does not support, or an induction value beyond MaxUsize, is demanded.   *)
(***************************************************************************)
EXTENDS Selections

CONSTANT Op(_, _)   \* a pure node on numbers

\* The entries of an invocation context: a call, an iteration of a loop.
InvokeKey(fn, node)          == <<"Invoke", fn, node, 0>>
IterationKey(fn, node, k)    == <<"CountedFor", fn, node, k>>

(***************************************************************************)
(* A site is <<function, node, context>>.  It demands other nodes of its   *)
(* own call and the results of the calls that it makes.                    *)
(***************************************************************************)
NodeAt(r, site)           == r.fns[site[1]].nodes[site[2]]
RefSite(site, ref)        == <<site[1], ref, site[3]>>
CalledSite(r, site, key)  ==
  LET callee == NodeAt(r, site).callee IN
  <<callee, r.fns[callee].ret, Append(site[3], key)>>
CalleeSite(r, site)       == CalledSite(r, site, InvokeKey(site[1], site[2]))
IterationSite(r, site, k) == CalledSite(r, site, IterationKey(site[1], site[2], k))

\* What follows takes the outcomes of the other sites as a parameter, `out`.
ValueOf(out, site) == out[site].value

\* The number whose bits are those set in some of the numbers.
OrOf(width, numbers) ==
  FromBits({i \in 0..(width - 1) : \E n \in numbers : Bit(n, i) = 1})

\* What a selection resolves to for a selector of n, and the cases it demands.
Taking(taken, cases) == [outcome |-> taken, cases |-> cases]

\* The positions of the cases whose bit is set.
SetCases(nd, n) == {k \in 1..Len(nd.cases) : Bit(n, k - 1) = 1}

NumberedCase(nd, n) ==
  IF n < Len(nd.cases) THEN Taking(Case(n), {nd.cases[n + 1]})
  ELSE Taking(Default, {IF nd.default = 0 THEN nd.cases[Len(nd.cases)] ELSE nd.default})

FirstCase(nd, n) ==
  IF SetCases(nd, n) = {} THEN Taking(Default, {nd.default})
  ELSE LET first == Min(SetCases(nd, n)) IN Taking(Case(first - 1), {nd.cases[first]})

AllSetCases(nd, n) ==
  Taking(OneHotMask(FromBits({k - 1 : k \in SetCases(nd, n)})),
            {nd.cases[k] : k \in SetCases(nd, n)})

Selected(nd, n) ==
  CASE nd.kind = "sel"          -> NumberedCase(nd, n)
    [] nd.kind = "priority_sel" -> FirstCase(nd, n)
    [] nd.kind = "one_hot_sel"  -> AllSetCases(nd, n)

\* What a selection resolves to, of the number that its selector comes to.
Resolution(r, out, site) ==
  LET nd == NodeAt(r, site) IN Selected(nd, ValueOf(out, RefSite(site, nd.refs[1])))

\* What the call, or the loop, at the end of a context passes as an argument.
PassedBy(r, out, caller, key, index) ==
  LET nd         == NodeAt(r, caller)
      Operand(i) == ValueOf(out, RefSite(caller, nd.refs[i]))
      carried    == ValueOf(out, IterationSite(r, caller, key[4] - 1))
  IN  IF key[1] = "Invoke" THEN Operand(index)
      ELSE CASE index = 1 -> LowBits(key[4] * nd.stride, r.fns[nd.callee].params[1])
             [] index = 2 -> IF key[4] = 0 THEN Operand(1) ELSE carried
             [] OTHER     -> Operand(index - 1)

Passed(r, x, out, inv, index) ==
  IF inv = <<>> THEN r.args[index].den[x]
  ELSE LET key == inv[Len(inv)] IN
       PassedBy(r, out, <<key[2], key[3], SubSeq(inv, 1, Len(inv) - 1)>>, key, index)

(***************************************************************************)
(* The outcome of a site, from those of the sites it demands.              *)
(***************************************************************************)
IsSelection(nd) == nd.kind \in {"sel", "priority_sel", "one_hot_sel"}

OperandSites(r, site) ==
  LET nd == NodeAt(r, site) IN {RefSite(site, nd.refs[i]) : i \in 1..Len(nd.refs)}

CalledSites(r, site) ==
  LET nd == NodeAt(r, site) IN
  CASE nd.kind = "invoke"      -> {CalleeSite(r, site)}
    [] nd.kind = "counted_for" -> {IterationSite(r, site, k) : k \in 0..(nd.trip - 1)}
    [] OTHER                   -> {}

ChosenCases(r, out, site) ==
  IF IsSelection(NodeAt(r, site)) THEN {RefSite(site, ref) : ref \in Resolution(r, out, site).cases}
  ELSE {}

DemandedSites(r, out, site) ==
  IF NodeAt(r, site).kind = "param" THEN {}
  ELSE OperandSites(r, site) \cup CalledSites(r, site) \cup ChosenCases(r, out, site)

\* Whether the node itself is beyond the evaluator.
IsSupported(r, site) ==
  LET nd == NodeAt(r, site) IN
  /\ nd.kind # "unsupported"
  /\ nd.kind = "counted_for" => \A k \in 0..(nd.trip - 1) : k * nd.stride <= MaxUsize

OwnEntries(r, out, site) ==
  IF IsSelection(NodeAt(r, site)) THEN {<<site, Resolution(r, out, site).outcome>>} ELSE {}

SelectionValue(r, out, site) ==
  LET nd    == NodeAt(r, site)
      cases == Resolution(r, out, site).cases
  IN  IF nd.kind = "one_hot_sel"
        THEN OrOf(nd.width, {ValueOf(out, RefSite(site, ref)) : ref \in cases})
        ELSE ValueOf(out, RefSite(site, CHOOSE ref \in cases : TRUE))

OperandValues(r, out, site) ==
  LET nd == NodeAt(r, site) IN [i \in 1..Len(nd.refs) |-> ValueOf(out, RefSite(site, nd.refs[i]))]

NodeValue(r, x, out, site) ==
  LET nd == NodeAt(r, site) IN
  CASE nd.kind = "param"       -> Passed(r, x, out, site[3], nd.index)
    [] nd.kind = "pure"        -> Op(nd, OperandValues(r, out, site))
    [] nd.kind = "unsupported" -> 0
    [] nd.kind = "invoke"      -> ValueOf(out, CalleeSite(r, site))
    [] nd.kind = "counted_for" ->
         IF nd.trip = 0 THEN ValueOf(out, RefSite(site, nd.refs[1]))
         ELSE ValueOf(out, IterationSite(r, site, nd.trip - 1))
    [] IsSelection(nd)         -> SelectionValue(r, out, site)

OutcomeOfParts(r, x, out, site) ==
  LET parts == {out[s] : s \in DemandedSites(r, out, site)} IN
  [value |-> NodeValue(r, x, out, site),
   trace |-> OwnEntries(r, out, site) \cup UNION {o.trace : o \in parts},
   ok    |-> IsSupported(r, site) /\ \A o \in parts : o.ok]

\* Whether no node of the program is beyond the evaluator.
IsSupportedProgram(r) ==
  \A fn \in DOMAIN r.fns : \A node \in 1..Len(r.fns[fn].nodes) : IsSupported(r, <<fn, node, <<>>>>)

\* The site of what a request returns.
ResultSite(r) == <<r.top, r.fns[r.top].ret, <<>>>>

(***************************************************************************)
(* The sites of a request: the nodes of its entry point, and those of what *)
(* is called from a site.                                                  *)
(***************************************************************************)
CalleeOf(r, key)    == r.fns[key[2]].nodes[key[3]].callee
FunctionIn(r, inv)  == IF inv = <<>> THEN r.top ELSE CalleeOf(r, inv[Len(inv)])

IsKey(r, key) ==
  /\ key[2] \in DOMAIN r.fns /\ key[3] \in 1..Len(r.fns[key[2]].nodes)
  /\ LET nd == r.fns[key[2]].nodes[key[3]] IN
     \/ nd.kind = "invoke" /\ key = InvokeKey(key[2], key[3])
     \/ /\ nd.kind = "counted_for" /\ key[4] \in 0..(nd.trip - 1)
        /\ key = IterationKey(key[2], key[3], key[4])

IsContext(r, inv) ==
  \A i \in 1..Len(inv) :
    /\ IsKey(r, inv[i])
    /\ inv[i][2] = IF i = 1 THEN r.top ELSE CalleeOf(r, inv[i - 1])

IsSiteOf(r, site) ==
  /\ IsContext(r, site[3])
  /\ site[1] = FunctionIn(r, site[3])
  /\ site[2] \in 1..Len(r.fns[site[1]].nodes)

=============================================================================
