--------------------------- MODULE MCEnumeration -----------------------------
(***************************************************************************)
(* Instances of Enumeration: programs that fork into a few candidates,     *)
(* some infeasible, some beyond the budget.                                *)
(***************************************************************************)
EXTENDS Enumeration, MCEnumerator

\* An infeasible default, correlated selections, shared selections, a loop.
MCForks ==
  {Top(<<Legal("sel", 2, <<1, 3>>, 0), Legal("sel", 2, <<4, 1>>, 0)>>),
   Top(<<Legal("sel", 2, <<1, 3>>, 0), Legal("priority_sel", 2, <<4, 3>>, 1)>>),
   Top(<<Legal("one_hot_sel", 1, <<1, 3>>, 3)>>),
   Top(<<Pure("sub", 2, <<1, 1>>), Selection("one_hot_sel", 2, 4, 2, <<1, 3>>, 0)>>),
   Top(<<Literal(2, 2), Selection("priority_sel", 2, 4, 2, <<1, 3>>, 1)>>),
   Top(<<Legal("sel", 2, <<1, 3>>, 0), Legal("sel", 4, <<1, 3>>, 4)>>),
   Loop(Body(1, 6, 1), 2, 1)}

MCEnumerationRequests ==
  Symbolic(MCForks \cup Failures)
  \cup {Request(Top(<<Legal("sel", 2, <<1, 3>>, 0)>>), <<A, C>>, {}, TRUE),
        Request(Top(<<Legal("one_hot_sel", 1, <<3, 1>>, 0)>>), <<A, C>>, {1, 2, 6}, FALSE)}

MCLimits == {NoLimit, 1}

=============================================================================
