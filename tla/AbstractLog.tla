----------------------------- MODULE AbstractLog -----------------------------
(***************************************************************************)
(* What the rest of draft expects of raft/entry_logger.hpp: a run of       *)
(* entries after the entry it was compacted up to, of which a suffix can   *)
(* be chopped and a prefix dropped, and whose configuration at any entry   *)
(* is known.  What it is asked to do, and for which index, is part of the  *)
(* interface, as is the answer.  Coming back after a death between two     *)
(* operations changes nothing; a death inside an append may leave more     *)
(* than there was, never less, and the log is not followed any further.    *)
(***************************************************************************)
EXTENDS Integers, Sequences

CONSTANTS
  Config,    \* contents of configuration entries
  NoConfig   \* the empty configuration, not one of them

VARIABLES
  entries,   \* the entries of the log, each with its index, term, cfg and data
  base,      \* the entry the log was compacted up to, and the configuration there
  torn,      \* the process died inside an append
  asked,     \* the operation it was last asked for, and its index
  rc         \* what append, chop or drop answered last

vars == <<entries, base, torn, asked, rc>>

EndIndex == base.index + Len(entries)

CfgPositions(n) == {k \in 1..n : entries[k].cfg}

\* The configuration in effect at the n-th entry.
ConfigAt(n) ==
  IF CfgPositions(n) = {} THEN base.config
  ELSE entries[CHOOSE k \in CfgPositions(n) : \A j \in CfgPositions(n) : j <= k].data

LatestConfig == ConfigAt(Len(entries))

Init ==
  /\ entries = <<>>
  /\ base = [index |-> 0, term |-> 0, config |-> NoConfig]
  /\ torn = FALSE
  /\ asked = [op |-> "none", index |-> 0]
  /\ rc = "GOOD"

\* New entries go behind the last one, with consecutive indices up to i.
Extend(i, es) ==
  /\ \A k \in DOMAIN es : es[k].index = EndIndex + k
  /\ EndIndex + Len(es) = i
  /\ entries' = entries \o es
  /\ UNCHANGED <<base, torn>>

\* There was no room for them.
Refuse ==
  /\ rc' = "ERROR"
  /\ UNCHANGED <<entries, base, torn>>

Tear(es) ==
  /\ entries' = entries \o es
  /\ torn' = TRUE
  /\ UNCHANGED base

Chop(i) ==
  /\ i \in base.index + 1 .. EndIndex
  /\ entries' = SubSeq(entries, 1, i - base.index - 1)
  /\ UNCHANGED <<base, torn>>

Drop(i) ==
  LET n == i - base.index IN
  /\ i \in base.index + 1 .. EndIndex
  /\ entries' = SubSeq(entries, n + 1, Len(entries))
  /\ base' = [index |-> i, term |-> entries[n].term, config |-> ConfigAt(n)]
  /\ UNCHANGED torn

\* The drop of the whole log that fails halfway: nothing says up to where it went.
LoseAll(i) ==
  /\ i = EndIndex
  /\ rc' = "ERROR"
  /\ Chop(base.index + 1)

\* A data transfer replaces everything; it never leads back.
Reset(i, t, c) ==
  /\ i >= base.index /\ t >= base.term
  /\ entries' = <<>>
  /\ base' = [index |-> i, term |-> t, config |-> IF c = NoConfig THEN base.config ELSE c]
  /\ UNCHANGED <<torn, rc>>

Suffix(es, n) == SubSeq(es, n + 1, Len(es))

\* The log does what it is asked for.
Do(op, i) ==
  \/ op = "append" /\ \/ Extend(i, Suffix(entries', Len(entries)))
                      \/ Refuse
                      \/ Tear(Suffix(entries', Len(entries)))
  \/ op = "chop" /\ Chop(i)
  \/ op = "drop" /\ (Drop(i) \/ LoseAll(i))
  \/ op = "transfer" /\ \E c \in Config \cup {NoConfig} : Reset(i, base'.term, c)

\* A new process loads the files.
Reload ==
  /\ rc' = "GOOD"
  /\ UNCHANGED <<entries, base, torn, asked>>

Next == Reload \/ (~torn /\ Do(asked'.op, asked'.index))

Spec == Init /\ [][Next]_vars
=============================================================================
