----------------------------- MODULE MCReconfig -----------------------------
(***************************************************************************)
(* Reconfig for TLC: three servers, two of them interchangeable.           *)
(***************************************************************************)
EXTENDS Reconfig, TLC

\* Bounds: of the last term only a leadership of Self is followed, and only one in which
\* nothing is void; of a server whose append failed, nothing.
LastTermIsLed == curr_term = MaxTerm => role = "LEADER" /\ trouble \cap Voiding = {}
NoFailedAppend == "error" \notin trouble

Symmetry == Permutations(Server \ InitialCluster) \cup Permutations(Conn)

=============================================================================
