------------------------- MODULE EnumeratorInvariant -------------------------
(***************************************************************************)
(* Why the properties of Enumerator hold: the inductive invariant of the   *)
(* selection evaluator.  TLC checks it on the runs of MCEnumerator, and    *)
(* EnumeratorProofs proves it of every request.                            *)
(***************************************************************************)
EXTENDS Enumerator, Lists

\* Apply, a parameter of Enumerator, gives values of operands in V: TLC checks
\* it of a sample, and the theorems assume it of all values.
PureNodesGive(V) ==
  \A r \in Requests : \A fn \in DOMAIN r.fns : \A i \in 1..Len(r.fns[fn].nodes) :
    LET n == r.fns[fn].nodes[i] IN
    n.kind = "pure" => \A values \in [1..Len(n.refs) -> V] : Apply(n, values) \in Values

(***************************************************************************)
(* Types.                                                                  *)
(***************************************************************************)
FrameOK(frame) ==
  /\ frame.fn \in DOMAIN request.fns
  /\ frame.args \in Seq(Values)
  /\ Len(frame.args) = Len(request.fns[frame.fn].params)
  /\ IsList(frame.inv)

NodeOK(frame, node) == FrameOK(frame) /\ node \in 1..Len(request.fns[frame.fn].nodes)

PartialOK(partial, count) ==
  StateOK(partial.state) /\ partial.values \in Seq(Values) /\ Len(partial.values) = count

PendingOK(pending, node, kind) ==
  /\ StateOK(pending.state)
  /\ pending.arm.when \subseteq Inputs
  /\ pending.arm.never \in BOOLEAN /\ (pending.arm.never => pending.arm.when = {})
  /\ pending.arm.demand \in Seq(1..(node - 1))
  /\ kind # "one_hot_sel" => Len(pending.arm.demand) = 1

KindOf(act) == NodeOf(act.frame, act.node).kind

\* The selector has been evaluated: partials are being replaced by those of their arms.
Resolving(act) == ~act.arm /\ KindOf(act) \in SelectionKinds /\ act.stage > Len(act.refs)

\* How many values a partial has once `stage` stages have been driven.
Arity(act, stage) ==
  CASE act.arm /\ KindOf(act) = "one_hot_sel"                       -> 1
    [] act.arm /\ KindOf(act) # "one_hot_sel"                       -> stage
    [] ~act.arm /\ stage <= Len(act.refs)                           -> stage
    [] ~act.arm /\ stage > Len(act.refs) /\ KindOf(act) = "counted_for" -> Len(act.refs)
    [] OTHER                                                        -> 1

RefsOK(act) ==
  IF act.arm
    THEN /\ KindOf(act) \in SelectionKinds
         /\ act.refs \in Seq(1..(act.node - 1))
         /\ KindOf(act) # "one_hot_sel" => Len(act.refs) = 1
    ELSE act.refs = NodeOf(act.frame, act.node).refs /\ KindOf(act) # "param"

PartialsOK(act) ==
  /\ IsList(act.todo) /\ IsList(act.done) /\ IsList(act.arms)
  /\ \A i \in 1..Len(act.todo) : PartialOK(act.todo[i], Arity(act, act.stage - 1))
  /\ \A i \in 1..Len(act.done) : PartialOK(act.done[i], Arity(act, act.stage))
  /\ \A i \in 1..Len(act.arms) : PendingOK(act.arms[i], act.node, KindOf(act))
  /\ act.todo # <<>> => act.stage > 0
  /\ act.arms # <<>> => Resolving(act)

ActivationOK(act) ==
  /\ act = [frame |-> act.frame, node |-> act.node, arm |-> act.arm,
            refs |-> act.refs, stage |-> act.stage, todo |-> act.todo,
            current |-> act.current, done |-> act.done, arms |-> act.arms]
  /\ act.arm \in BOOLEAN
  /\ NodeOK(act.frame, act.node)
  /\ RefsOK(act)
  /\ act.stage \in 0..Stages(act)
  /\ PartialsOK(act)

\* The partial that a nested evaluation is extending.
CurrentOK(act) ==
  /\ act.stage > 0
  /\ act.current \in Seq(Values)
  /\ Len(act.current) = Arity(act, act.stage - 1)

ControlOK ==
  \/ ctl.at = "call" /\ NodeOK(ctl.frame, ctl.node) /\ StateOK(ctl.state)
  \/ /\ ctl.at = "return" /\ IsList(ctl.results)
     /\ \A i \in 1..Len(ctl.results) :
          StateOK(ctl.results[i].state) /\ ctl.results[i].value \in Values
  \/ ctl.at = "run" /\ stack # <<>>
  \/ ctl.at = "fail" /\ stack = <<>>

Typed ==
  /\ request \in Requests
  /\ IsList(stack)
  /\ ControlOK
  /\ \A d \in 1..Len(stack) : ActivationOK(ActivationAt(d))
  /\ \A d \in 1..Len(stack) :
       d < Len(stack) \/ ctl.at \in {"call", "return"} =>
         Resolving(ActivationAt(d)) \/ CurrentOK(ActivationAt(d))

(***************************************************************************)
(* A site is below another when evaluating the other can demand it: an     *)
(* earlier node of the same call, or any node of a call made by the other  *)
(* node or an earlier one.  No site is below itself.                       *)
(***************************************************************************)
Below(s, t) ==
  \/ s[1] = t[1] /\ s[3] = t[3] /\ s[2] < t[2]
  \/ /\ Len(s[3]) > Len(t[3])
     /\ \A i \in 1..Len(t[3]) : s[3][i] = t[3][i]
     /\ s[3][Len(t[3]) + 1][2] = t[1]
     /\ s[3][Len(t[3]) + 1][3] \in 1..t[2]

SiteAt(d) == SiteOf(ActivationAt(d))

\* An arm of a selection is driven on top of the selection, for the same site.
DrivesArmOf(d, c) == ActivationAt(d).arm /\ d = c + 1 /\ SiteAt(d) = SiteAt(c)

Descending ==
  /\ \A c, d \in 1..Len(stack) : c < d => Below(SiteAt(d), SiteAt(c)) \/ DrivesArmOf(d, c)
  /\ ctl.at = "call" => \A d \in 1..Len(stack) : Below(calledSite, SiteAt(d))
  /\ \A d \in 1..Len(stack) : ActivationAt(d).arm =>
       d > 1 /\ SiteAt(d) = SiteAt(d - 1) /\ Resolving(ActivationAt(d - 1))

(***************************************************************************)
(* A candidate's selections are in its memo table or still being driven    *)
(* where it is.                                                            *)
(***************************************************************************)
Remembered ==
  \A l \in Live : \A site \in DOMAIN l.state.trace :
    \/ site \in DOMAIN l.state.cache
    \/ \E d \in 1..Len(stack) : d <= l.place[1] /\ SiteAt(d) = site

(***************************************************************************)
(* A candidate inside the evaluation of a node has no outcome for it yet,  *)
(* until the node is a selection that is taking its arms; then those that  *)
(* wait have none.                                                         *)
(***************************************************************************)
Unresolved(d) ==
  LET act == ActivationAt(d) IN
  IF Resolving(act)
    THEN /\ \A i \in 1..Len(act.todo) : SiteAt(d) \notin DOMAIN act.todo[i].state.trace
         /\ \A i \in 1..Len(act.arms) : SiteAt(d) \notin DOMAIN act.arms[i].state.trace
    ELSE \A l \in Live : l.place[1] >= d => SiteAt(d) \notin DOMAIN l.state.trace

Fresh ==
  /\ \A d \in 1..Len(stack) : ActivationAt(d).arm \/ Unresolved(d)
  /\ ctl.at = "fail" => ctl.why # "duplicate"

EvaluatorInvariant == Typed /\ Descending /\ Remembered /\ Fresh /\ CandidatesConflict

=============================================================================
