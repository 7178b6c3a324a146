-------------------------------- MODULE Raft --------------------------------
(***************************************************************************)
(* The consensus core of draft: raft/raft_impl.hpp (callers, callbacks and *)
(* timers) and raft/raft_rpc.hpp (the RPC handlers), over the log          *)
(* operations of raft/entry_logger.hpp, for a deployed cluster whose       *)
(* membership does not change.                                             *)
(*                                                                         *)
(* Every handler, callback and timer of a server runs on the one thread of *)
(* its io_context, so each is one action.  The apply thread is a second    *)
(* actor of each server.  A process dies and comes back at any step        *)
(* (Restart); what it keeps is what it has in its three mapped files.      *)
(***************************************************************************)
EXTENDS Integers, Sequences, FiniteSets

CONSTANTS
  Server,                  \* the members of the cluster
  Nil,                     \* voted_for()[0] = 0: no vote in this term
  log_compaction_enabled,  \* raft.conf
  MaxTerm,                 \* bound: no election beyond this term
  MaxLog,                  \* bound: no client entry beyond this index
  MaxCalls,                \* bound: open append_entries or transfer calls per pair of servers
  MaxTimeoutNow,           \* bound: open timeout_now calls per pair of servers
  MaxRestarts              \* bound: spontaneous deaths of processes

ASSUME ServerAssumption == IsFiniteSet(Server) /\ Cardinality(Server) >= 2
ASSUME NilAssumption == Nil \notin Server
ASSUME CompactionAssumption == log_compaction_enabled \in BOOLEAN
ASSUME BoundsAssumption == MaxTerm \in Nat /\ MaxLog \in Nat /\ MaxCalls \in Nat
                            /\ MaxTimeoutNow \in Nat /\ MaxRestarts \in Nat

VARIABLES
  \* raft.vote, mapped
  curr_term, voted_for,
  \* raft.ldbs and raft.stat, mapped: the entries, and what they were compacted up to
  log, last_index, last_term,
  \* election state; votes is the set of voters the counter of the code has counted,
  \* election_timer says whether the timer is armed
  role, votes, pre_votes_granted, pre_votes_refused, election_timer,
  \* the fields of each node of the cluster, per server
  next_index, match_index, transfer_data_to,
  commit_index, last_applied,
  \* calls on their way to the callee, results on their way to the callback
  calls, results,
  restarts

voteVars     == <<curr_term, voted_for>>
logVars      == <<log, last_index, last_term>>
electionVars == <<role, votes, pre_votes_granted, pre_votes_refused, election_timer>>
leaderVars   == <<next_index, match_index, transfer_data_to>>
commitVars   == <<commit_index, last_applied>>
netVars      == <<calls, results>>
vars == <<voteVars, logVars, electionVars, leaderVars, commitVars, netVars, restarts>>

Roles == {"LEADER", "CANDIDATE", "FOLLOWER"}

\* cluster.size() / 2 is what a count must exceed.
IsMajority(n) == n > Cardinality(Server) \div 2

-----------------------------------------------------------------------------
(***************************************************************************)
(* The log of a server (entry_logger).  Position 0 of the file is a sentry *)
(* with index 0 and term 0 that is never removed.                          *)
(***************************************************************************)
LogEntry == [index : Nat, term : Nat, cfg : BOOLEAN]
Sentry == [index |-> 0, term |-> 0, cfg |-> FALSE]

last_entry_index(s) == IF log[s] = <<>> THEN last_index[s] ELSE log[s][Len(log[s])].index
last_entry_term(s)  == IF log[s] = <<>> THEN last_term[s] ELSE log[s][Len(log[s])].term

\* operator[] of entry_logger: entries are found by their distance from last_index.
Present(s, i) == i = 0 \/ i - last_index[s] \in DOMAIN log[s]
EntryAt(s, i) == IF i = 0 THEN Sentry ELSE log[s][i - last_index[s]]

\* Mutant: the term is not compared.
has_entry_any_term(s, i, t) == Present(s, i) \/ last_index[s] = i

has_entry(s, i, t) ==
  IF Present(s, i) THEN EntryAt(s, i).index = i /\ EntryAt(s, i).term = t
                   ELSE last_index[s] = i /\ last_term[s] = t

entry_conflicted(s, i, t) == Present(s, i) /\ EntryAt(s, i).term # t

\* The voter's log does not forbid the candidate's: no greater term and no greater index.
LogPermits(d, m) ==
  ~(last_entry_term(d) > m.last_log_term \/ last_entry_index(d) > m.last_log_index)

-----------------------------------------------------------------------------
(***************************************************************************)
(* RPCs.  A call is open until its callback runs; with no connection       *)
(* shared between calls nothing orders them.  live says whether the caller *)
(* process that made the call still exists: a restarted caller gets no     *)
(* answer.                                                                 *)
(***************************************************************************)
VoteCall ==
  [rpc : {"pre_vote", "request_vote", "timeout_now"}, src : Server, dst : Server, id : Nat,
   live : BOOLEAN, term : Nat, last_log_index : Nat, last_log_term : Nat, early : BOOLEAN]
AppendCall ==
  [rpc : {"append_entries"}, src : Server, dst : Server, id : Nat, live : BOOLEAN,
   term : Nat, prev_log_index : Nat, prev_log_term : Nat, entries : Seq(LogEntry),
   leader_commit : Nat]
TransferCall ==
  [rpc : {"data_transfer", "done_transfer"}, src : Server, dst : Server, id : Nat,
   live : BOOLEAN, term : Nat, last_index : Nat, last_term : Nat]
Result ==
  [rpc : {"pre_vote", "request_vote", "timeout_now", "append_entries", "data_transfer",
          "done_transfer"},
   src : Server, dst : Server, id : Nat, ok : BOOLEAN, term : Nat, match_index : Nat]

CallsOf(rpc) == {m \in calls : m.rpc = rpc}
ResultsOf(rpc) == {r \in results : r.rpc = rpc}

\* Task ids are recycled; a call is only made while one is free.  The open calls are those
\* in C and R.  pre_vote may have one round open for the timer and one for each timeout_now.
Kind(rpc) ==
  CASE rpc = "append_entries" -> "append"
    [] rpc \in {"data_transfer", "done_transfer"} -> "transfer"
    [] OTHER -> rpc
Ids(kind) ==
  CASE kind = "pre_vote" -> 1..(MaxTimeoutNow + 1)
    [] kind = "timeout_now" -> 1..MaxTimeoutNow
    [] OTHER -> 1..MaxCalls
FreeIds(kind, s, n, C, R) ==
  {i \in Ids(kind) : \A m \in C \cup R :
      ~(m.src = s /\ m.dst = n /\ Kind(m.rpc) = kind /\ m.id = i)}
FreeId(kind, s, n, C, R) == CHOOSE i \in FreeIds(kind, s, n, C, R) : TRUE

\* done->Run(): the answer travels back to a caller that still exists.
Answer(m, ok, term, match) ==
  IF m.live THEN {[rpc |-> m.rpc, src |-> m.src, dst |-> m.dst, id |-> m.id,
                   ok |-> ok, term |-> term, match_index |-> match]}
            ELSE {}

Reply(m, ok, term, match) ==
  /\ calls' = calls \ {m}
  /\ results' = results \cup Answer(m, ok, term, match)

-----------------------------------------------------------------------------
(***************************************************************************)
(* A cluster that was bootstrapped by one server, grown to Server by       *)
(* add_server in term 1, stopped and reloaded: load_config leaves          *)
(* commit_index at last_index.                                             *)
(***************************************************************************)
Init ==
  /\ curr_term = [s \in Server |-> 1]
  /\ \E a \in Server : voted_for = [s \in Server |-> IF s = a THEN a ELSE Nil]
  /\ log = [s \in Server |-> [i \in 1..Cardinality(Server) |->
                                 [index |-> i, term |-> 1, cfg |-> TRUE]]]
  /\ last_index = [s \in Server |-> 0]
  /\ last_term = [s \in Server |-> 0]
  /\ role = [s \in Server |-> "FOLLOWER"]
  /\ votes = [s \in Server |-> {}]
  /\ pre_votes_granted = [s \in Server |-> 0]
  /\ pre_votes_refused = [s \in Server |-> 0]
  /\ election_timer = [s \in Server |-> TRUE]
  /\ next_index = [s \in Server |-> [n \in Server |-> Cardinality(Server) + 1]]
  /\ match_index = [s \in Server |-> [n \in Server |-> 0]]
  /\ transfer_data_to = [s \in Server |-> [n \in Server |-> FALSE]]
  /\ commit_index = [s \in Server |-> 0]
  /\ last_applied = [s \in Server |-> 0]
  /\ calls = {}
  /\ results = {}
  /\ restarts = 0

-----------------------------------------------------------------------------
(***************************************************************************)
(* step_down: a newer term was seen.  voted_for is left to the caller.     *)
(***************************************************************************)
step_down(s, term) ==
  /\ role' = [role EXCEPT ![s] = "FOLLOWER"]
  /\ curr_term' = [curr_term EXCEPT ![s] = term]
  /\ election_timer' = [election_timer EXCEPT ![s] = TRUE]

\* Mutant: make_node starts from last_index, where compaction stopped.
NextIndexOfCompaction(s) == last_index[s]

\* next_index of a node as make_node and step_up set it.
InitialNextIndex(s) == last_entry_index(s) + 1

\* The process of s dies and a new one loads the mapped files (init, load_config, start).
\* Its open calls keep travelling but their answers have nowhere to go.  A server whose
\* log and configuration are both empty would come back outside the cluster: that is a
\* change of membership, which this module does not model.
Die(s) ==
  /\ log[s] # <<>> \/ last_index[s] > 0
  /\ role' = [role EXCEPT ![s] = "FOLLOWER"]
  /\ votes' = [votes EXCEPT ![s] = {}]
  /\ pre_votes_granted' = [pre_votes_granted EXCEPT ![s] = 0]
  /\ pre_votes_refused' = [pre_votes_refused EXCEPT ![s] = 0]
  /\ election_timer' = [election_timer EXCEPT ![s] = TRUE]
  /\ next_index' = [next_index EXCEPT ![s] = [n \in Server |-> InitialNextIndex(s)]]
  /\ match_index' = [match_index EXCEPT ![s] = [n \in Server |-> 0]]
  /\ transfer_data_to' = [transfer_data_to EXCEPT ![s] = [n \in Server |-> FALSE]]
  /\ commit_index' = [commit_index EXCEPT ![s] = last_index[s]]
  /\ last_applied' = [last_applied EXCEPT ![s] = last_index[s]]
  /\ calls' = {m \in calls : m.src # s}
              \cup {[m EXCEPT !.live = FALSE] : m \in {c \in calls : c.src = s /\ c.rpc # "pre_vote"}}
  /\ results' = {r \in results : r.src # s}
  /\ UNCHANGED <<voteVars, logVars>>

Restart(s) ==
  /\ restarts < MaxRestarts
  /\ restarts' = restarts + 1
  /\ Die(s)

-----------------------------------------------------------------------------
(***************************************************************************)
(* append_entries(n): the entries from next_index on, as far as they are   *)
(* in the log, after the entry before them.  C and R are the calls and     *)
(* results that stay open; next is next_index[s] as the step leaves it.    *)
(***************************************************************************)
\* Mutant: the first entry is skipped.
EntriesAfter(s, i) ==
  IF i > 0 /\ Present(s, i) THEN SubSeq(log[s], i - last_index[s] + 1, Len(log[s])) ELSE <<>>

EntriesFrom(s, i) ==
  IF i > 0 /\ Present(s, i) THEN SubSeq(log[s], i - last_index[s], Len(log[s])) ELSE <<>>

\* Where the entry before next_index is gone, fill takes last_index and last_term.
PrevLog(s, i) ==
  IF Present(s, i) THEN [index |-> EntryAt(s, i).index, term |-> EntryAt(s, i).term]
                   ELSE [index |-> last_index[s], term |-> last_term[s]]

append_entries_call(s, n, next, id) ==
  [rpc |-> "append_entries", src |-> s, dst |-> n, id |-> id, live |-> TRUE,
   term |-> curr_term[s], prev_log_index |-> PrevLog(s, next - 1).index,
   prev_log_term |-> PrevLog(s, next - 1).term, entries |-> EntriesFrom(s, next),
   leader_commit |-> commit_index[s]]

append_entries_to(s, targets, next, C, R) ==
  /\ \A n \in targets : FreeIds("append", s, n, C, R) # {}
  /\ calls' = C \cup {append_entries_call(s, n, next[n], FreeId("append", s, n, C, R)) : n \in targets}

\* append_entries() of a leader: every other node that is not receiving a data transfer.
HeartbeatTargets(s) == {n \in Server \ {s} : ~transfer_data_to[s][n]}

HeartbeatTimeout(s) ==
  /\ role[s] = "LEADER"
  /\ append_entries_to(s, HeartbeatTargets(s), next_index[s], calls, results)
  /\ UNCHANGED <<voteVars, logVars, electionVars, leaderVars, commitVars, results, restarts>>

-----------------------------------------------------------------------------
(***************************************************************************)
(* Elections.                                                              *)
(***************************************************************************)
vote_call(rpc, s, n, id, term, early) ==
  [rpc |-> rpc, src |-> s, dst |-> n, id |-> id, live |-> TRUE, term |-> term,
   last_log_index |-> last_entry_index(s), last_log_term |-> last_entry_term(s), early |-> early]

\* pre_vote, with the timer off: every other server is asked, whatever the role was and
\* whether an older round is still open.  C is the calls that stay open.
pre_vote(s, early, C) ==
  /\ \A n \in Server \ {s} : FreeIds("pre_vote", s, n, C, results) # {}
  /\ role' = [role EXCEPT ![s] = "FOLLOWER"]
  /\ pre_votes_granted' = [pre_votes_granted EXCEPT ![s] = 1]
  /\ pre_votes_refused' = [pre_votes_refused EXCEPT ![s] = 0]
  /\ election_timer' = [election_timer EXCEPT ![s] = FALSE]
  /\ calls' = C \cup {vote_call("pre_vote", s, n, FreeId("pre_vote", s, n, C, results),
                                curr_term[s], early) : n \in Server \ {s}}

\* The timer fires.  A pre_vote call fails after 70 ms and the timer takes 150 ms at least
\* (it is off from the start of a round on), so the calls of every round are over.
ElectionTimeout(s) ==
  /\ election_timer[s]
  /\ \A m \in CallsOf("pre_vote") \cup ResultsOf("pre_vote") : m.src # s
  /\ pre_vote(s, FALSE, calls)
  /\ UNCHANGED <<voteVars, logVars, votes, leaderVars, commitVars, results, restarts>>

\* The callee answers from its log and, unless the round is early, from how long ago it
\* heard of a leader, which is a matter of time: a permitted pre-vote may be refused.
ServePreVote(m) ==
  /\ m.rpc = "pre_vote"
  /\ \E granted \in BOOLEAN :
       /\ granted => LogPermits(m.dst, m)
       /\ m.early /\ LogPermits(m.dst, m) => granted
       /\ Reply(m, granted, IF granted THEN m.term ELSE curr_term[m.dst], 0)
  /\ UNCHANGED <<voteVars, logVars, electionVars, leaderVars, commitVars, restarts>>

-----------------------------------------------------------------------------
(***************************************************************************)
(* timeout_now: a leader tells a server that has its whole log to stand.   *)
(* Whom the administrator wants as leader is the business of Reconfig; so  *)
(* any such server may be told.                                            *)
(***************************************************************************)
timeout_now(s, n, C, R) ==
  /\ FreeIds("timeout_now", s, n, C, R) # {}
  /\ calls' = C \cup {vote_call("timeout_now", s, n, FreeId("timeout_now", s, n, C, R),
                                curr_term[s], FALSE)}
  /\ UNCHANGED <<voteVars, logVars, electionVars, leaderVars, commitVars, restarts>>

\* leadership_transfer, or the answer that brings the target of one up to date.
TransferLeadership(s, n) ==
  /\ role[s] = "LEADER"
  /\ n # s
  /\ match_index[s][n] = last_entry_index(s)
  /\ timeout_now(s, n, calls, results)
  /\ UNCHANGED results

\* on_timeout_now of a failed call whose transfer is still wanted: told again, whatever the
\* role is by now.  The call that failed may yet arrive.
RetryTimeoutNow(m) ==
  /\ m.rpc = "timeout_now"
  /\ m \in calls => m.live
  /\ results' = results \ {m}
  /\ timeout_now(m.src, m.dst, {IF k = m THEN [k EXCEPT !.live = FALSE] ELSE k : k \in calls},
                 results \ {m})

\* The handler looks at nothing: neither at the sender's term nor at its own role.
ServeTimeoutNow(m) ==
  /\ m.rpc = "timeout_now"
  /\ pre_vote(m.dst, TRUE, calls \ {m})
  /\ results' = results \cup Answer(m, FALSE, curr_term[m.dst], 0)
  /\ UNCHANGED <<voteVars, logVars, votes, leaderVars, commitVars, restarts>>

\* on_timeout_now of an answered call.
OnTimeoutNow(r) ==
  /\ r.rpc = "timeout_now"
  /\ results' = results \ {r}
  /\ UNCHANGED <<voteVars, logVars, electionVars, leaderVars, commitVars, calls, restarts>>

-----------------------------------------------------------------------------
\* leader_election; C is the calls that stay open.
leader_election(s, C) ==
  /\ curr_term[s] < MaxTerm
  /\ role' = [role EXCEPT ![s] = "CANDIDATE"]
  /\ curr_term' = [curr_term EXCEPT ![s] = @ + 1]
  /\ voted_for' = [voted_for EXCEPT ![s] = s]
  /\ votes' = [votes EXCEPT ![s] = {s}]
  /\ calls' = C \cup {vote_call("request_vote", s, n, curr_term[s] + 1, curr_term[s] + 1, FALSE)
                        : n \in Server \ {s}}
  /\ election_timer' = [election_timer EXCEPT ![s] = TRUE]

\* Mutant: the round only ends when there are more answers than servers.
RoundOverrun(granted, refused) == granted + refused > Cardinality(Server)

\* Every server has answered, the caller's own pre-vote included.
RoundOver(granted, refused) == granted + refused = Cardinality(Server)

\* checkout, after one more answer: start the election, give up the round, or wait.
checkout(s, granted, refused, C) ==
  /\ pre_votes_granted' = [pre_votes_granted EXCEPT ![s] = granted]
  /\ pre_votes_refused' = [pre_votes_refused EXCEPT ![s] = refused]
  /\ \/ /\ IsMajority(granted)
        /\ leader_election(s, C)
     \/ /\ ~IsMajority(granted)
        /\ election_timer' = [election_timer EXCEPT ![s] =
                                @ \/ RoundOver(granted, refused)]
        /\ calls' = C
        /\ UNCHANGED <<voteVars, role, votes>>

\* on_pre_vote of caller s, whose call was granted, refused or failed.
on_pre_vote(s, granted, C) ==
  /\ \/ /\ role[s] # "FOLLOWER"
        /\ calls' = C
        /\ UNCHANGED <<voteVars, electionVars>>
     \/ /\ role[s] = "FOLLOWER"
        /\ granted
        /\ checkout(s, pre_votes_granted[s] + 1, pre_votes_refused[s], C)
     \/ /\ role[s] = "FOLLOWER"
        /\ ~granted
        /\ checkout(s, pre_votes_granted[s], pre_votes_refused[s] + 1, C)
  /\ UNCHANGED <<logVars, leaderVars, commitVars, restarts>>

OnPreVote(r) ==
  /\ r.rpc = "pre_vote"
  /\ results' = results \ {r}
  /\ on_pre_vote(r.src, r.ok, calls)

\* The call times out or its connection breaks before or after it was served.
PreVoteFailed(m) ==
  /\ m.rpc = "pre_vote"
  /\ results' = results \ {m}
  /\ on_pre_vote(m.src, FALSE, calls \ {m})

\* Mutant: the vote is cleared whatever the term of the request.
NoVote(d, term) == Nil

\* The vote of d when it compares candidates: a newer term has cleared it.
HeldVote(d, term) == IF term > curr_term[d] THEN Nil ELSE voted_for[d]

ServeRequestVote(m) ==
  LET d == m.dst
      newer == m.term > curr_term[d]
      vote == HeldVote(d, m.term)
      granted == m.term >= curr_term[d] /\ vote \in {Nil, m.src} /\ LogPermits(d, m)
  IN
  /\ m.rpc = "request_vote"
  /\ \/ newer /\ step_down(d, m.term)
     \/ ~newer /\ UNCHANGED <<role, curr_term, election_timer>>
  /\ voted_for' = [voted_for EXCEPT ![d] = IF granted THEN m.src ELSE vote]
  /\ Reply(m, granted, curr_term'[d], 0)
  /\ UNCHANGED <<logVars, votes, pre_votes_granted, pre_votes_refused, leaderVars, commitVars, restarts>>

\* step_up with its first append_entries(); R is the results that stay open.
step_up(s, R) ==
  /\ role' = [role EXCEPT ![s] = "LEADER"]
  /\ match_index' = [match_index EXCEPT ![s] = [n \in Server |-> 0]]
  /\ next_index' = [next_index EXCEPT ![s] = [n \in Server |-> InitialNextIndex(s)]]
  /\ election_timer' = [election_timer EXCEPT ![s] = FALSE]
  /\ append_entries_to(s, HeartbeatTargets(s), [n \in Server |-> InitialNextIndex(s)], calls, R)

\* on_request_vote of a candidate: a vote of its own term is counted, a refusal from a
\* newer term makes it step down, anything else is dropped.
OnRequestVote(r) ==
  LET s == r.src
      counted == role[s] = "CANDIDATE" /\ r.ok /\ r.term >= curr_term[s]
      outdated == role[s] = "CANDIDATE" /\ ~r.ok /\ r.term > curr_term[s]
      won == counted /\ IsMajority(Cardinality(votes[s] \cup {r.dst}))
  IN
  /\ r.rpc = "request_vote"
  /\ results' = results \ {r}
  /\ votes' = IF counted THEN [votes EXCEPT ![s] = @ \cup {r.dst}] ELSE votes
  /\ \/ /\ won
        /\ step_up(s, results \ {r})
        /\ UNCHANGED curr_term
     \/ /\ outdated
        /\ step_down(s, r.term)
        /\ UNCHANGED <<next_index, match_index, calls>>
     \/ /\ ~won /\ ~outdated
        /\ UNCHANGED <<role, curr_term, election_timer, next_index, match_index, calls>>
  /\ UNCHANGED <<voted_for, logVars, pre_votes_granted, pre_votes_refused, transfer_data_to,
                 commitVars, restarts>>

-----------------------------------------------------------------------------
(***************************************************************************)
(* Log replication.                                                        *)
(***************************************************************************)

\* Mutant: the vote is cleared on every call of a leader.
FollowTermAfresh(d, term) ==
  /\ curr_term' = [curr_term EXCEPT ![d] = term]
  /\ voted_for' = [voted_for EXCEPT ![d] = Nil]
  /\ role' = [role EXCEPT ![d] = "FOLLOWER"]

\* The handler's prologue for a term that is not older than its own: a newer term clears
\* the vote, and the sender is taken for the leader.
FollowTerm(d, term) ==
  /\ curr_term' = [curr_term EXCEPT ![d] = term]
  /\ voted_for' = [voted_for EXCEPT ![d] = IF term > curr_term[d] THEN Nil ELSE @]
  /\ role' = [role EXCEPT ![d] = "FOLLOWER"]

\* The first k entries of a call are in the log of d and the one after them is not.
Skips(d, entries, k) ==
  /\ \A j \in 1..k : has_entry(d, entries[j].index, entries[j].term)
  /\ k < Len(entries) => ~has_entry(d, entries[k + 1].index, entries[k + 1].term)

\* The log of d after a call whose first k entries it had: the rest of the entries
\* replaces what the first of them conflicts with, or is appended.
LogAfter(d, entries, k) ==
  LET e == entries[k + 1]
      kept == IF entry_conflicted(d, e.index, e.term)
                THEN SubSeq(log[d], 1, e.index - last_index[d] - 1)
                ELSE log[d]
  IN IF k = Len(entries) THEN log[d] ELSE kept \o SubSeq(entries, k + 1, Len(entries))

\* append_entries of an older term.
RejectAppendEntries(m) ==
  /\ m.rpc = "append_entries"
  /\ m.term < curr_term[m.dst]
  /\ Reply(m, FALSE, curr_term[m.dst], last_entry_index(m.dst))
  /\ UNCHANGED <<voteVars, logVars, electionVars, leaderVars, commitVars, restarts>>

\* append_entries after an entry that the log does not have.
RefuseAppendEntries(m) ==
  /\ m.rpc = "append_entries"
  /\ m.term >= curr_term[m.dst]
  /\ ~has_entry(m.dst, m.prev_log_index, m.prev_log_term)
  /\ FollowTerm(m.dst, m.term)
  /\ election_timer' = [election_timer EXCEPT ![m.dst] = TRUE]
  /\ Reply(m, FALSE, m.term, last_entry_index(m.dst))
  /\ UNCHANGED <<logVars, votes, pre_votes_granted, pre_votes_refused, leaderVars, commitVars, restarts>>

\* append_entries after an entry of the log: the answer carries the last index of the
\* log, whatever its tail is.
AcceptAppendEntries(m) ==
  LET d == m.dst IN
  /\ m.rpc = "append_entries"
  /\ m.term >= curr_term[d]
  /\ has_entry(d, m.prev_log_index, m.prev_log_term)
  /\ FollowTerm(d, m.term)
  /\ election_timer' = [election_timer EXCEPT ![d] = TRUE]
  /\ \E k \in 0..Len(m.entries) :
       LET new == LogAfter(d, m.entries, k)
           last == IF new = <<>> THEN last_index[d] ELSE new[Len(new)].index
       IN
       /\ Skips(d, m.entries, k)
       /\ log' = [log EXCEPT ![d] = new]
       /\ commit_index' = [commit_index EXCEPT ![d] =
            IF m.leader_commit > @ THEN IF m.leader_commit < last THEN m.leader_commit ELSE last
                                   ELSE @]
       /\ Reply(m, TRUE, m.term, last)
  /\ UNCHANGED <<last_index, last_term, votes, pre_votes_granted, pre_votes_refused, leaderVars,
                 last_applied, restarts>>

\* adjust_commit_index with match as the match_index of the nodes.  counted are the
\* nodes whose match_index is an entry of the current term beyond commit_index.
Counted(s, match) ==
  {n \in Server \ {s} : match[n] > commit_index[s] /\ EntryAt(s, match[n]).term = curr_term[s]}

Committable(s, match) ==
  {i \in 1..last_entry_index(s) :
     /\ \E n \in Counted(s, match) : i <= match[n]
     /\ \E n \in Counted(s, match) : match[n] <= i
     /\ IsMajority(1 + Cardinality({n \in Server \ {s} : match[n] >= i}))}

\* Mutant: everything in the log is committed with the matched entry.
commit_whole_log(s, match) ==
  commit_index' = IF Committable(s, match) = {} THEN commit_index
                  ELSE [commit_index EXCEPT ![s] = last_entry_index(s)]

adjust_commit_index(s, match) ==
  \/ /\ Committable(s, match) = {}
     /\ UNCHANGED commit_index
  \/ \E c \in Committable(s, match) :
       /\ \A i \in Committable(s, match) : i <= c
       /\ commit_index' = [commit_index EXCEPT ![s] = c]

\* (*log)[n->match_index]->term: a match_index beyond the log is a null pointer.
MatchBeyondLog(s, match) ==
  \E n \in Server \ {s} : match[n] > commit_index[s] /\ ~Present(s, match[n])

\* on_append_entries, the answer arriving at a server that is no longer leader.
IgnoreAppendEntries(r) ==
  /\ r.rpc = "append_entries"
  /\ role[r.src] # "LEADER"
  /\ results' = results \ {r}
  /\ UNCHANGED <<voteVars, logVars, electionVars, leaderVars, commitVars, calls, restarts>>

\* on_append_entries, success.
AppendEntriesSucceeded(r) ==
  LET s == r.src
      match == [match_index[s] EXCEPT ![r.dst] = r.match_index]
  IN
  /\ r.rpc = "append_entries"
  /\ role[s] = "LEADER"
  /\ r.ok
  /\ \/ /\ MatchBeyondLog(s, match)
        /\ Die(s)
     \/ /\ ~MatchBeyondLog(s, match)
        /\ match_index' = [match_index EXCEPT ![s] = match]
        /\ next_index' = [next_index EXCEPT ![s][r.dst] = r.match_index + 1]
        /\ adjust_commit_index(s, match)
        /\ results' = results \ {r}
        /\ UNCHANGED <<voteVars, logVars, electionVars, transfer_data_to, last_applied, calls>>
  /\ UNCHANGED restarts

\* on_append_entries, refused by a server in a newer term; so for the two transfer calls.
StepDownOnResult(r) ==
  /\ \/ r.rpc = "append_entries" /\ role[r.src] = "LEADER"
     \/ r.rpc \in {"data_transfer", "done_transfer"}
  /\ ~r.ok
  /\ r.term > curr_term[r.src]
  /\ step_down(r.src, r.term)
  /\ results' = results \ {r}
  /\ UNCHANGED <<voted_for, logVars, votes, pre_votes_granted, pre_votes_refused, leaderVars,
                 commitVars, calls, restarts>>

\* Mutant: last_term is not filled in.
data_transfer_call_without_term(s, n, id) ==
  [rpc |-> "data_transfer", src |-> s, dst |-> n, id |-> id, live |-> TRUE, term |-> curr_term[s],
   last_index |-> IF log_compaction_enabled THEN last_index[s] ELSE 0, last_term |-> 0]

data_transfer_call(s, n, id) ==
  [rpc |-> "data_transfer", src |-> s, dst |-> n, id |-> id, live |-> TRUE, term |-> curr_term[s],
   last_index |-> IF log_compaction_enabled THEN last_index[s] ELSE 0,
   last_term |-> IF log_compaction_enabled THEN last_term[s] ELSE 0]

\* Mutant: one entry too far.
RetryBeyond(r) == r.match_index + 2

\* Where replication goes on after a refusal: behind the follower's last entry.
RetryFrom(r) == r.match_index + 1

\* on_append_entries, log inconsistency: retry from the entry after the last one of the
\* follower, or transfer the data when the leader does not have that entry.
AppendEntriesRefused(r) ==
  LET s == r.src
      n == r.dst
      next == RetryFrom(r)
  IN
  /\ r.rpc = "append_entries"
  /\ role[s] = "LEADER"
  /\ ~r.ok
  /\ r.term <= curr_term[s]
  /\ results' = results \ {r}
  /\ \/ /\ Present(s, next)
        /\ next_index' = [next_index EXCEPT ![s][n] = next]
        /\ append_entries_to(s, {n}, [next_index[s] EXCEPT ![n] = next], calls, results \ {r})
        /\ UNCHANGED transfer_data_to
     \/ /\ ~Present(s, next)
        /\ transfer_data_to' = [transfer_data_to EXCEPT ![s][n] = TRUE]
        /\ next_index' = [next_index EXCEPT ![s][n] = last_entry_index(s) + 1]
        /\ FreeIds("transfer", s, n, calls, results) # {}
        /\ calls' = calls \cup {data_transfer_call(s, n, FreeId("transfer", s, n, calls, results))}
  /\ UNCHANGED <<voteVars, logVars, electionVars, match_index, commitVars, restarts>>

-----------------------------------------------------------------------------
(***************************************************************************)
(* Data transfer, with a database that fits in one call: one data_transfer *)
(* (id 1) and one done_transfer.  Neither callback looks at the role.      *)
(***************************************************************************)
RejectTransfer(m) ==
  /\ m.rpc \in {"data_transfer", "done_transfer"}
  /\ m.term < curr_term[m.dst]
  /\ Reply(m, FALSE, curr_term[m.dst], 0)
  /\ UNCHANGED <<voteVars, logVars, electionVars, leaderVars, commitVars, restarts>>

\* With compaction the whole log gives way to the sender's last_index and last_term.
ServeDataTransfer(m) ==
  LET d == m.dst IN
  /\ m.rpc = "data_transfer"
  /\ m.term >= curr_term[d]
  /\ FollowTerm(d, m.term)
  /\ election_timer' = [election_timer EXCEPT ![d] = FALSE]
  /\ \/ /\ log_compaction_enabled
        /\ log' = [log EXCEPT ![d] = <<>>]
        /\ last_index' = [last_index EXCEPT ![d] = m.last_index]
        /\ last_term' = [last_term EXCEPT ![d] = m.last_term]
        /\ commit_index' = [commit_index EXCEPT ![d] = m.last_index]
        /\ last_applied' = [last_applied EXCEPT ![d] = m.last_index]
     \/ /\ ~log_compaction_enabled
        /\ UNCHANGED <<logVars, commitVars>>
  /\ Reply(m, TRUE, m.term, 0)
  /\ UNCHANGED <<votes, pre_votes_granted, pre_votes_refused, leaderVars, restarts>>

ServeDoneTransfer(m) ==
  LET d == m.dst IN
  /\ m.rpc = "done_transfer"
  /\ m.term >= curr_term[d]
  /\ FollowTerm(d, m.term)
  /\ election_timer' = [election_timer EXCEPT ![d] = @ \/ m.term > curr_term[d]]
  /\ Reply(m, TRUE, m.term, 0)
  /\ UNCHANGED <<logVars, votes, pre_votes_granted, pre_votes_refused, leaderVars, commitVars, restarts>>

OnDataTransfer(r) ==
  /\ r.rpc = "data_transfer"
  /\ r.ok
  /\ results' = results \ {r}
  /\ calls' = calls \cup {[rpc |-> "done_transfer", src |-> r.src, dst |-> r.dst, id |-> r.id,
                           live |-> TRUE, term |-> curr_term[r.src], last_index |-> 0, last_term |-> 0]}
  /\ UNCHANGED <<voteVars, logVars, electionVars, leaderVars, commitVars, restarts>>

OnDoneTransfer(r) ==
  /\ r.rpc = "done_transfer"
  /\ r.ok
  /\ results' = results \ {r}
  /\ transfer_data_to' = [transfer_data_to EXCEPT ![r.src][r.dst] = FALSE]
  /\ append_entries_to(r.src, {r.dst}, next_index[r.src], calls, results \ {r})
  /\ UNCHANGED <<voteVars, logVars, electionVars, next_index, match_index, commitVars, restarts>>

\* A refused transfer that is not from a newer term is only logged.
TransferRefused(r) ==
  /\ r.rpc \in {"data_transfer", "done_transfer"}
  /\ ~r.ok
  /\ r.term <= curr_term[r.src]
  /\ results' = results \ {r}
  /\ UNCHANGED <<voteVars, logVars, electionVars, leaderVars, commitVars, calls, restarts>>

\* A call other than pre_vote fails at its caller: the callback only logs it.
CallFailed(m) ==
  /\ m.rpc # "pre_vote"
  /\ calls' = calls \ {m}
  /\ results' = results \ {m}
  /\ UNCHANGED <<voteVars, logVars, electionVars, leaderVars, commitVars, restarts>>

-----------------------------------------------------------------------------
(***************************************************************************)
(* Clients and the apply thread.                                           *)
(***************************************************************************)
HandleAppend(s) ==
  /\ role[s] = "LEADER"
  /\ last_entry_index(s) < MaxLog
  /\ log' = [log EXCEPT ![s] = Append(@, [index |-> last_entry_index(s) + 1,
                                         term |-> curr_term[s], cfg |-> FALSE])]
  /\ UNCHANGED <<voteVars, last_index, last_term, electionVars, leaderVars, commitVars, netVars, restarts>>

\* Mutant: the loop of the apply thread runs once too often.
HasUnappliedOrNone(s) == last_applied[s] <= commit_index[s]

\* Condition of the apply thread's loop.
HasUnapplied(s) == last_applied[s] < commit_index[s]

\* Mutant: the entry after index i is dropped too.
CompactedTooFar(s, i) == SubSeq(log[s], i - last_index[s] + 2, Len(log[s]))

\* The log after drop(i).
CompactedAt(s, i) == SubSeq(log[s], i - last_index[s] + 1, Len(log[s]))

\* One round of the apply thread: a committed client entry goes to the state machine,
\* which drops the log up to it when nothing after it is committed.
ApplyLogCommitted(s) ==
  LET i == last_applied[s] + 1
      compact == log_compaction_enabled /\ ~EntryAt(s, i).cfg /\ i = commit_index[s]
  IN
  /\ HasUnapplied(s)
  /\ \/ /\ ~Present(s, i)
        /\ Die(s)
     \/ /\ Present(s, i)
        /\ last_applied' = [last_applied EXCEPT ![s] = i]
        /\ IF compact
             THEN /\ log' = [log EXCEPT ![s] = CompactedAt(s, i)]
                  /\ last_index' = [last_index EXCEPT ![s] = i]
                  /\ last_term' = [last_term EXCEPT ![s] = EntryAt(s, i).term]
             ELSE UNCHANGED logVars
        /\ UNCHANGED <<voteVars, electionVars, leaderVars, commit_index, netVars>>
  /\ UNCHANGED restarts

-----------------------------------------------------------------------------
ServeCall(m) ==
  \/ ServePreVote(m)
  \/ ServeTimeoutNow(m)
  \/ ServeRequestVote(m)
  \/ RejectAppendEntries(m)
  \/ RefuseAppendEntries(m)
  \/ AcceptAppendEntries(m)
  \/ RejectTransfer(m)
  \/ ServeDataTransfer(m)
  \/ ServeDoneTransfer(m)

OnResult(r) ==
  \/ OnPreVote(r)
  \/ OnTimeoutNow(r)
  \/ OnRequestVote(r)
  \/ IgnoreAppendEntries(r)
  \/ AppendEntriesSucceeded(r)
  \/ AppendEntriesRefused(r)
  \/ StepDownOnResult(r)
  \/ OnDataTransfer(r)
  \/ OnDoneTransfer(r)
  \/ TransferRefused(r)

ServerStep(s) ==
  \/ ElectionTimeout(s)
  \/ HeartbeatTimeout(s)
  \/ \E n \in Server : TransferLeadership(s, n)
  \/ HandleAppend(s)
  \/ ApplyLogCommitted(s)
  \/ Restart(s)

Next ==
  \/ \E s \in Server : ServerStep(s)
  \/ \E m \in calls : ServeCall(m)
  \/ \E r \in results : OnResult(r)
  \/ \E m \in calls \cup results : PreVoteFailed(m) \/ CallFailed(m) \/ RetryTimeoutNow(m)

Spec == Init /\ [][Next]_vars

-----------------------------------------------------------------------------
(***************************************************************************)
(* Properties.                                                             *)
(***************************************************************************)
TypeOK ==
  /\ curr_term \in [Server -> Nat]
  /\ voted_for \in [Server -> Server \cup {Nil}]
  /\ log \in [Server -> Seq(LogEntry)]
  /\ last_index \in [Server -> Nat]
  /\ last_term \in [Server -> Nat]
  /\ role \in [Server -> Roles]
  /\ votes \in [Server -> SUBSET Server]
  /\ pre_votes_granted \in [Server -> Nat]
  /\ pre_votes_refused \in [Server -> Nat]
  /\ election_timer \in [Server -> BOOLEAN]
  /\ next_index \in [Server -> [Server -> Nat \ {0}]]
  /\ match_index \in [Server -> [Server -> Nat]]
  /\ transfer_data_to \in [Server -> [Server -> BOOLEAN]]
  /\ commit_index \in [Server -> Nat]
  /\ last_applied \in [Server -> Nat]
  /\ calls \subseteq VoteCall \cup AppendCall \cup TransferCall
  /\ results \subseteq Result
  /\ restarts \in Nat

\* At most one server acts as leader in a term (step_up after a majority of request_vote
\* answers), across split votes, late answers and restarts.
ElectionSafety ==
  \A s, t \in Server :
    role[s] = "LEADER" /\ role[t] = "LEADER" /\ curr_term[s] = curr_term[t] => s = t

\* q voted for c in term T: the answer is on its way, or c has counted it.
Granted(q, T, c) ==
  \/ \E r \in ResultsOf("request_vote") : r.ok /\ r.dst = q /\ r.term = T /\ r.src = c
  \/ role[c] \in {"CANDIDATE", "LEADER"} /\ curr_term[c] = T /\ q \in votes[c]

Terms == {curr_term[s] : s \in Server} \cup {r.term : r \in results}

\* Why elections are safe, as an inductive invariant: no request or granted vote is ahead
\* of its candidate; a voter still stands by the vote it gave in its current term; nobody
\* voted for two candidates in a term, past terms included; a leader has a majority.
VoteInv ==
  /\ \A m \in CallsOf("request_vote") : m.term <= curr_term[m.src]
  /\ \A r \in ResultsOf("request_vote") : r.ok => r.term <= curr_term[r.src]
  /\ \A q, c \in Server : \A T \in Terms : Granted(q, T, c) =>
       /\ T <= curr_term[q]
       /\ T = curr_term[q] => voted_for[q] = c
       /\ \A d \in Server : Granted(q, T, d) => c = d
  /\ \A s \in Server : role[s] = "LEADER" => IsMajority(Cardinality(votes[s]))

\* raft.vote keeps its promise: terms only grow, and within a term a vote that was given
\* is neither withdrawn nor given to another, whatever handlers and restarts do.
VoteIsFinal ==
  [][\A s \in Server :
       /\ curr_term'[s] >= curr_term[s]
       /\ curr_term'[s] = curr_term[s] /\ voted_for[s] # Nil => voted_for'[s] = voted_for[s]]_vars

Indices(s) == {log[s][k].index : k \in DOMAIN log[s]}

\* The entry that operator[] finds for an index has that index: what append_entries,
\* chop and drop leave in the log is one run of entries right after last_index.
LogContiguous ==
  \A s \in Server : \A k \in DOMAIN log[s] : log[s][k].index = last_index[s] + k

\* Two logs with an entry of the same index and term agree on the entry before it
\* (has_entry on prev_log_index and chop of conflicting entries in append_entries).
LogMatching ==
  \A s, t \in Server : \A i \in Indices(s) \cap Indices(t) :
    /\ EntryAt(s, i).term = EntryAt(t, i).term
    /\ i - 1 \in Indices(s) \cap Indices(t)
    => EntryAt(s, i - 1) = EntryAt(t, i - 1)

\* What the entries es, which follow an entry of index base and term base_term, say of an
\* index: the term of its entry and the term of the entry before it.
LinksOf(base, base_term, es) ==
  {[index |-> base + k, term |-> es[k].term, prev |-> IF k = 1 THEN base_term ELSE es[k - 1].term]
     : k \in DOMAIN es}

\* All that logs and append_entries calls say, without compaction.
Links ==
  (UNION {LinksOf(0, 0, log[s]) : s \in Server})
    \cup (UNION {LinksOf(m.prev_log_index, m.prev_log_term, m.entries) : m \in CallsOf("append_entries")})

\* d may still become the leader of term T, with its vote and those q can still give it.
CanVote(q, T, d) ==
  \/ curr_term[q] < T
  \/ curr_term[q] = T /\ voted_for[q] \in {Nil, d}
  \/ Granted(q, T, d)

MayLead(d, T) ==
  /\ curr_term[d] < T \/ (curr_term[d] = T /\ role[d] = "CANDIDATE")
  /\ IsMajority(Cardinality({q \in Server : CanVote(q, T, d)}))

\* Logs and calls agree on what comes before an entry of a given index and term.
LinksAgree == \A x, y \in Links : x.index = y.index /\ x.term = y.term => x.prev = y.prev

\* An entry exists only in a term whose election is over.
LinksDecided == \A x \in Links : \A d \in Server : ~MayLead(d, x.term)

\* A leader has every index at which an entry of its term exists.
LeaderHasLinks ==
  \A s \in Server : role[s] = "LEADER" =>
    \A x \in Links : x.term = curr_term[s] => x.index <= Len(log[s])

\* Runs of entries: in a call they follow prev_log_index, in a log the sentry.
RunsOfEntries ==
  /\ \A s \in Server : /\ last_index[s] = 0 /\ last_term[s] = 0
                       /\ \A k \in DOMAIN log[s] : log[s][k].index = k
  /\ \A m \in CallsOf("append_entries") : \A k \in DOMAIN m.entries :
       m.entries[k].index = m.prev_log_index + k

\* The configuration entries are those of the first term.
ConfigEntries ==
  /\ \A s \in Server : \A k \in DOMAIN log[s] : log[s][k].cfg <=> log[s][k].term = 1
  /\ \A m \in CallsOf("append_entries") : \A k \in DOMAIN m.entries :
       m.entries[k].cfg <=> m.entries[k].term = 1
  /\ \A s \in Server : curr_term[s] >= 1 /\ (role[s] # "FOLLOWER" => curr_term[s] > 1)

\* Why logs match when nothing is compacted, as an inductive invariant (with VoteInv): the
\* leader of a term, who is the only one to make entries of it, has all of them, and nobody
\* will lead that term again.
LogInv ==
  /\ RunsOfEntries
  /\ ConfigEntries
  /\ LinksAgree
  /\ LinksDecided
  /\ LeaderHasLinks

\* A leader that stays leader only appends to its log or compacts its front.
LeaderAppendOnly ==
  [][\A s \in Server : role[s] = "LEADER" /\ role'[s] = "LEADER" =>
       LET dropped == last_index'[s] - last_index[s]
           kept == SubSeq(log[s], dropped + 1, Len(log[s]))
       IN Len(kept) <= Len(log'[s]) /\ SubSeq(log'[s], 1, Len(kept)) = kept]_vars

StoredAt(n, i, t) == has_entry(n, i, t) \/ i < last_index[n]

\* What a server takes for committed (adjust_commit_index at the leader, leader_commit at
\* a follower) is stored by a majority, so that it survives the loss of a minority.
CommittedOnQuorum ==
  \A s \in Server : \A i \in Indices(s) : i <= commit_index[s] =>
    IsMajority(Cardinality({n \in Server : StoredAt(n, i, EntryAt(s, i).term)}))

\* Compaction stays behind the apply thread, which stays behind commit_index, which stays
\* inside the log: so the apply thread never reads an entry that is not there.
CommitWithinLog ==
  \A s \in Server : /\ last_index[s] <= last_applied[s]
                    /\ last_applied[s] <= commit_index[s]
                    /\ commit_index[s] <= last_entry_index(s)

\* Servers agree on the term of the entry they compacted up to, whether drop or a data
\* transfer set it, with each other and with the committed part of the other logs.
CompactionAgrees ==
  \A s, t \in Server :
    /\ last_index[s] = last_index[t] => last_term[s] = last_term[t]
    /\ last_index[s] \in Indices(t) /\ last_index[s] <= commit_index[t]
         => has_entry(t, last_index[s], last_term[s])

\* The servers s waits for an answer of, in any of its rounds.
Awaited(s) ==
  {n \in Server : \E m \in CallsOf("pre_vote") \cup ResultsOf("pre_vote") : m.src = s /\ m.dst = n}

\* A follower whose election timer is not armed is in a pre-vote round that is not over and
\* for which enough answers are still to come, those of older rounds which timeout_now cut
\* short included: checkout will start an election or arm the timer, and never counts past
\* the number of servers, which it tests with ==, before it has.
ElectionPending ==
  \A s \in Server : role[s] = "FOLLOWER" /\ ~election_timer[s] =>
    LET counted == pre_votes_granted[s] + pre_votes_refused[s] IN
    /\ counted < Cardinality(Server)
    /\ counted + Cardinality(Awaited(s)) >= Cardinality(Server)

-----------------------------------------------------------------------------
(***************************************************************************)
(* Fairness.  The apply thread and the heartbeat timer of a leader run for *)
(* ever; of the replication calls that are repeated for ever between two   *)
(* servers some are served and some are answered.                          *)
(***************************************************************************)
ReplicationRpcs == {"append_entries", "data_transfer", "done_transfer"}

Fairness ==
  /\ \A s \in Server : WF_vars(ApplyLogCommitted(s)) /\ WF_vars(HeartbeatTimeout(s))
  /\ \A s \in Server : \A n \in Server \ {s} :
       /\ SF_vars(\E m \in calls : m.rpc \in ReplicationRpcs /\ m.src = s /\ m.dst = n /\ m.live
                                   /\ ServeCall(m))
       /\ SF_vars(\E r \in results : r.rpc \in ReplicationRpcs /\ r.src = s /\ r.dst = n
                                     /\ OnResult(r))

\* A leader that is never deposed gets the entries of its own term committed and applied:
\* heartbeats, refusals with their retries, and the apply thread make progress.
ReplicationProgress ==
  \A s \in Server :
    <>[](role[s] = "LEADER") =>
      []<>(last_entry_term(s) = curr_term[s] => last_applied[s] = last_entry_index(s))

\* A server that can reach a leader that is never deposed gets every entry of its log.
FollowersCatchUp ==
  \A s, n \in Server :
    <>[](role[s] = "LEADER") => []<>has_entry(n, last_entry_index(s), last_entry_term(s))

=============================================================================
