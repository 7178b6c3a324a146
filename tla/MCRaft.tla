------------------------------- MODULE MCRaft -------------------------------
(***************************************************************************)
(* Instances of Raft for TLC.                                              *)
(***************************************************************************)
EXTENDS Raft, TLC

CONSTANTS a, b, c

Symmetry == Permutations(Server)

\* Bound of the runs from a leader's state: nobody stands for another election.
NoCampaign == CallsOf("pre_vote") = {}

-----------------------------------------------------------------------------
(***************************************************************************)
(* Three servers.  a led term 2, appended one entry that it sent to nobody *)
(* and died; then b was elected by c in term 3.  Each argument is what b   *)
(* and c have since then: their log, its compaction point, and the calls   *)
(* of b that are open.                                                     *)
(***************************************************************************)
CfgEntries == [i \in 1..3 |-> [index |-> i, term |-> 1, cfg |-> TRUE]]
StaleTail == <<[index |-> 4, term |-> 2, cfg |-> FALSE]>>

AfterElectionOfB(entries, compacted, compacted_term, open) ==
  /\ curr_term = [s \in Server |-> IF s = a THEN 2 ELSE 3]
  /\ voted_for = [s \in Server |-> IF s = a THEN a ELSE b]
  /\ log = [s \in Server |-> IF s = a THEN CfgEntries \o StaleTail ELSE entries]
  /\ last_index = [s \in Server |-> IF s = a THEN 0 ELSE compacted]
  /\ last_term = [s \in Server |-> IF s = a THEN 0 ELSE compacted_term]
  /\ role = [s \in Server |-> IF s = b THEN "LEADER" ELSE "FOLLOWER"]
  /\ votes = [s \in Server |-> IF s = b THEN {b, c} ELSE {}]
  /\ pre_votes_granted = [s \in Server |-> IF s = b THEN 2 ELSE 0]
  /\ pre_votes_refused = [s \in Server |-> 0]
  /\ election_timer = [s \in Server |-> s # b]
  /\ next_index = [s \in Server |-> [n \in Server |->
                     IF s = a THEN 5
                     ELSE IF s = b /\ n = c THEN compacted + Len(entries) + 1 ELSE 4]]
  /\ match_index = [s \in Server |-> [n \in Server |-> IF s = b /\ n = c THEN compacted ELSE 0]]
  /\ transfer_data_to = [s \in Server |-> [n \in Server |-> FALSE]]
  /\ commit_index = [s \in Server |-> IF s = a THEN 0 ELSE compacted]
  /\ last_applied = [s \in Server |-> IF s = a THEN 0 ELSE compacted]
  /\ calls = open
  /\ results = {}
  /\ restarts = 0

Heartbeat(n) ==
  [rpc |-> "append_entries", src |-> b, dst |-> n, id |-> 1, live |-> TRUE, term |-> 3,
   prev_log_index |-> 3, prev_log_term |-> 1, entries |-> <<>>, leader_commit |-> 0]

\* b has just stepped up: its first heartbeats are on their way.
TakeoverInit == AfterElectionOfB(CfgEntries, 0, 0, {Heartbeat(a), Heartbeat(c)})
TakeoverSpec == TakeoverInit /\ [][Next]_vars

\* b and c have committed, applied and compacted an entry of term 3 at index 4 before
\* any heartbeat of b got through to a.
LaggingInit == AfterElectionOfB(<<>>, 4, 3, {})
LaggingSpec == LaggingInit /\ [][Next]_vars

\* From the takeover on nothing fails: no election, no death, every call is answered.
NothingFails ==
  \/ \E s \in Server : HeartbeatTimeout(s) \/ HandleAppend(s) \/ ApplyLogCommitted(s)
  \/ \E m \in calls : ServeCall(m)
  \/ \E r \in results : OnResult(r)
ReliableSpec == TakeoverInit /\ [][NothingFails]_vars /\ Fairness

-----------------------------------------------------------------------------
(***************************************************************************)
(* Two servers.  a led term 2, appended one entry that it sent to nobody,  *)
(* died, and was elected again in term 3: b will refuse its first call.    *)
(***************************************************************************)
ReelectedInit ==
  /\ curr_term = [s \in Server |-> 3]
  /\ voted_for = [s \in Server |-> a]
  /\ log = [s \in Server |-> SubSeq(CfgEntries, 1, 2) \o
             IF s = a THEN <<[index |-> 3, term |-> 2, cfg |-> FALSE]>> ELSE <<>>]
  /\ last_index = [s \in Server |-> 0]
  /\ last_term = [s \in Server |-> 0]
  /\ role = [s \in Server |-> IF s = a THEN "LEADER" ELSE "FOLLOWER"]
  /\ votes = [s \in Server |-> IF s = a THEN {a, b} ELSE {}]
  /\ pre_votes_granted = [s \in Server |-> IF s = a THEN 2 ELSE 0]
  /\ pre_votes_refused = [s \in Server |-> 0]
  /\ election_timer = [s \in Server |-> s # a]
  /\ next_index = [s \in Server |-> [n \in Server |-> IF s = a THEN 4 ELSE 3]]
  /\ match_index = [s \in Server |-> [n \in Server |-> 0]]
  /\ transfer_data_to = [s \in Server |-> [n \in Server |-> FALSE]]
  /\ commit_index = [s \in Server |-> 0]
  /\ last_applied = [s \in Server |-> 0]
  /\ calls = {[Heartbeat(b) EXCEPT !.src = a, !.prev_log_term = 2]}
  /\ results = {}
  /\ restarts = 0
ReelectedSpec == ReelectedInit /\ [][Next]_vars /\ Fairness

-----------------------------------------------------------------------------
(***************************************************************************)
(* Three servers with the same log.  a leads term 2; c, whose pre-vote b   *)
(* granted, has become a candidate of term 3: its request for a's vote is  *)
(* on its way, that for b's is lost.                                       *)
(***************************************************************************)
ContestedInit ==
  /\ curr_term = [s \in Server |-> IF s = c THEN 3 ELSE 2]
  /\ voted_for = [s \in Server |-> IF s = c THEN c ELSE a]
  /\ log = [s \in Server |-> CfgEntries]
  /\ last_index = [s \in Server |-> 0]
  /\ last_term = [s \in Server |-> 0]
  /\ role = [s \in Server |-> CASE s = a -> "LEADER" [] s = b -> "FOLLOWER" [] s = c -> "CANDIDATE"]
  /\ votes = [s \in Server |-> CASE s = a -> {a, b} [] s = b -> {} [] s = c -> {c}]
  /\ pre_votes_granted = [s \in Server |-> IF s = b THEN 0 ELSE 2]
  /\ pre_votes_refused = [s \in Server |-> IF s = b THEN 0 ELSE 1]
  /\ election_timer = [s \in Server |-> s # a]
  /\ next_index = [s \in Server |-> [n \in Server |-> 4]]
  /\ match_index = [s \in Server |-> [n \in Server |-> IF s = a /\ n # a THEN 3 ELSE 0]]
  /\ transfer_data_to = [s \in Server |-> [n \in Server |-> FALSE]]
  /\ commit_index = [s \in Server |-> 0]
  /\ last_applied = [s \in Server |-> 0]
  /\ calls = {vote_call("request_vote", c, a, 3, 3, FALSE)}
  /\ results = {}
  /\ restarts = 0
ContestedSpec == ContestedInit /\ [][Next]_vars

\* Bounds of the election run: besides c only b stands, for term 3, of its own or because a
\* tells it to; a sends no heartbeats meanwhile, and the winner of the contested term, to whom
\* no answer brings a newer one, does not go on replicating.
BStandsToo ==
  /\ \A m \in CallsOf("pre_vote") : m.src = b /\ m.term = 2
  /\ \A m \in CallsOf("timeout_now") : m.dst = b
  /\ \A m \in CallsOf("append_entries") : m.src # a
  /\ ResultsOf("append_entries") = {}

=============================================================================
