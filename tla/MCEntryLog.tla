----------------------------- MODULE MCEntryLog -----------------------------
(***************************************************************************)
(* EntryLog for TLC.  A configuration entry is longer than a command, by   *)
(* its prev_cfg, so that what is written over older entries does not line  *)
(* up with them.                                                           *)
(***************************************************************************)
EXTENDS EntryLog

MCSizeOf == [d \in Content |-> IF d \in Config THEN 2 ELSE 1]

Symmetry == Permutations(Config)

=============================================================================
