----------------------------- MODULE MCKvStore -----------------------------
(***************************************************************************)
(* Instances of KvStore for TLC: one or two keys of one word, a value      *)
(* without a '#' and one that is v up to its '#'.                          *)
(***************************************************************************)
EXTENDS KvStore, TLC

CONSTANTS k, m, v, v_hash

Symmetry == Permutations(Session)

OneKey == {k}
OneWord == [x \in OneKey |-> x]
PlainKeys == {k, m}
PlainWords == [x \in PlainKeys |-> x]
Values == {v, v_hash}
UpToHash == [x \in Values |-> v]

\* Bounds: one client, or the death, where there is a transfer, and nothing is followed
\* behind a transfer that came too late.
Explored ==
  /\ NoStaleCommand
  /\ transfers > 0 => Cardinality({s \in Session : session[s] # Idle}) <= 1 - restarts
  /\ ~overtaken
=============================================================================
