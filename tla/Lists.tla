--------------------------------- MODULE Lists ---------------------------------
(***************************************************************************)
(* A list is a sequence of whatever its elements are.                      *)
(***************************************************************************)
EXTENDS Naturals, Sequences

IsList(s) == s \in Seq({s[i] : i \in 1..Len(s)})

================================================================================
