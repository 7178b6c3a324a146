----------------------------- MODULE RaftProofs -----------------------------
(***************************************************************************)
(* Theorems about Raft, for every cluster, every bound and both settings   *)
(* of log_compaction_enabled.                                              *)
(***************************************************************************)
EXTENDS Raft, FiniteSetTheorems, SequenceTheorems, TLAPS

Call == VoteCall \cup AppendCall \cup TransferCall

-----------------------------------------------------------------------------
(***************************************************************************)
(* Types of what the actions are built from.                               *)
(***************************************************************************)

\* The last index and term of a log, compacted to nothing or not, are numbers.
LEMMA LastEntryType ==
  ASSUME TypeOK, NEW s \in Server
  PROVE  last_entry_index(s) \in Nat /\ last_entry_term(s) \in Nat
<1>1. log[s] \in Seq(LogEntry) /\ last_index[s] \in Nat /\ last_term[s] \in Nat
  BY DEF TypeOK
<1>2. CASE log[s] = <<>>
  BY <1>1, <1>2 DEF last_entry_index, last_entry_term
<1>3. CASE log[s] # <<>>
  <2>1. log[s][Len(log[s])] \in LogEntry
    BY <1>1, <1>3
  <2>2. QED
    BY <1>3, <2>1 DEF last_entry_index, last_entry_term, LogEntry
<1>4. QED
  BY <1>2, <1>3

\* operator[] finds an entry for every index that is present.
LEMMA EntryAtType ==
  ASSUME TypeOK, NEW s \in Server, NEW i \in Int, Present(s, i)
  PROVE  EntryAt(s, i) \in LogEntry
<1>1. log[s] \in Seq(LogEntry) /\ last_index[s] \in Nat
  BY DEF TypeOK
<1>2. CASE i = 0
  BY <1>2 DEF EntryAt, Sentry, LogEntry
<1>3. CASE i # 0
  <2>1. i - last_index[s] \in 1..Len(log[s])
    BY <1>1, <1>3 DEF Present
  <2>2. log[s][i - last_index[s]] \in LogEntry
    BY <1>1, <2>1
  <2>3. QED
    BY <1>3, <2>2 DEF EntryAt
<1>4. QED
  BY <1>2, <1>3

\* Setting one field of one node keeps the type of a table of nodes.
LEMMA EntryUpdateType ==
  ASSUME NEW V, NEW f \in [Server -> [Server -> V]], NEW s \in Server, NEW n \in Server, NEW v \in V
  PROVE  [f EXCEPT ![s][n] = v] \in [Server -> [Server -> V]]
OBVIOUS

\* What append_entries(n) and fill put into a call is well typed, next_index - 1 included.
LEMMA AppendCallType ==
  ASSUME TypeOK, NEW s \in Server, NEW n \in Server, NEW next \in Nat \ {0}, NEW id \in Nat
  PROVE  append_entries_call(s, n, next, id) \in AppendCall
<1>1. log[s] \in Seq(LogEntry) /\ last_index[s] \in Nat /\ last_term[s] \in Nat
      /\ curr_term[s] \in Nat /\ commit_index[s] \in Nat
  BY DEF TypeOK
<1>2. PrevLog(s, next - 1).index \in Nat /\ PrevLog(s, next - 1).term \in Nat
  <2>1. CASE Present(s, next - 1)
    <3>1. EntryAt(s, next - 1) \in LogEntry
      BY <2>1, EntryAtType
    <3>2. QED
      BY <2>1, <3>1 DEF PrevLog, LogEntry
  <2>2. CASE ~Present(s, next - 1)
    BY <2>2, <1>1 DEF PrevLog
  <2>3. QED
    BY <2>1, <2>2
<1>3. EntriesFrom(s, next) \in Seq(LogEntry)
  <2>1. CASE Present(s, next)
    <3>1. next - last_index[s] \in 1..Len(log[s])
      BY <2>1, <1>1 DEF Present
    <3>2. SubSeq(log[s], next - last_index[s], Len(log[s])) \in Seq(LogEntry)
      BY <3>1, <1>1
    <3>3. QED
      BY <3>2, <2>1 DEF EntriesFrom
  <2>2. CASE ~Present(s, next)
    BY <2>2 DEF EntriesFrom
  <2>3. QED
    BY <2>1, <2>2
<1>4. QED
  BY <1>1, <1>2, <1>3 DEF append_entries_call, AppendCall

\* A task id that is free is a number.
LEMMA FreeIdType ==
  ASSUME NEW kind, NEW s, NEW n, NEW C, NEW R, FreeIds(kind, s, n, C, R) # {}
  PROVE  FreeId(kind, s, n, C, R) \in Nat
<1>1. FreeId(kind, s, n, C, R) \in FreeIds(kind, s, n, C, R)
  BY DEF FreeId
<1>2. FreeIds(kind, s, n, C, R) \subseteq Ids(kind)
  BY DEF FreeIds
<1>3. Ids(kind) \subseteq Nat
  BY BoundsAssumption DEF Ids
<1>4. QED
  BY <1>1, <1>2, <1>3

\* append_entries to several nodes keeps calls well typed.
LEMMA AppendEntriesToType ==
  ASSUME TypeOK, NEW s \in Server, NEW targets \in SUBSET Server,
         NEW next \in [Server -> Nat \ {0}], NEW C \in SUBSET Call, NEW R,
         append_entries_to(s, targets, next, C, R)
  PROVE  calls' \subseteq Call
<1>1. ASSUME NEW n \in targets
      PROVE  append_entries_call(s, n, next[n], FreeId("append", s, n, C, R)) \in AppendCall
  <2>1. FreeId("append", s, n, C, R) \in Nat
    BY <1>1, FreeIdType DEF append_entries_to
  <2>2. next[n] \in Nat \ {0}
    BY <1>1
  <2>3. QED
    BY <2>1, <2>2, <1>1, AppendCallType
<1>2. QED
  BY <1>1 DEF append_entries_to, Call

\* What pre_vote, request_vote and timeout_now put into a call is well typed.
LEMMA VoteCallType ==
  ASSUME TypeOK, NEW s \in Server, NEW n \in Server, NEW id \in Nat, NEW term \in Nat,
         NEW rpc \in {"pre_vote", "request_vote", "timeout_now"}, NEW early \in BOOLEAN
  PROVE  vote_call(rpc, s, n, id, term, early) \in VoteCall
BY LastEntryType DEF vote_call, VoteCall

\* An answer (set_result) is well typed, and carries the name of its call.
LEMMA AnswerType ==
  ASSUME TypeOK, NEW m \in calls, NEW ok \in BOOLEAN, NEW term \in Nat, NEW match \in Nat
  PROVE  \A r \in Answer(m, ok, term, match) : r \in Result /\ r.rpc = m.rpc
<1>1. m \in Call
  BY DEF TypeOK, Call
<1>2. [rpc |-> m.rpc, src |-> m.src, dst |-> m.dst, id |-> m.id,
       ok |-> ok, term |-> term, match_index |-> match] \in Result
  BY <1>1 DEF Call, VoteCall, AppendCall, TransferCall, Result
<1>3. QED
  BY <1>2 DEF Answer

LEMMA ReplyType ==
  ASSUME TypeOK, NEW m \in calls, NEW ok \in BOOLEAN, NEW term \in Nat, NEW match \in Nat,
         Reply(m, ok, term, match)
  PROVE  calls' \subseteq Call /\ results' \subseteq Result
<1>1. calls \subseteq Call /\ results \subseteq Result
  BY DEF TypeOK, Call
<1>2. \A r \in Answer(m, ok, term, match) : r \in Result
  BY AnswerType
<1>3. QED
  BY <1>1, <1>2 DEF Reply

\* Types of the sources and sinks of calls and results, used in every step below.
LEMMA CallFields ==
  ASSUME TypeOK
  PROVE  /\ \A m \in calls : m.src \in Server /\ m.dst \in Server /\ m.term \in Nat /\ m.id \in Nat
         /\ \A r \in results : /\ r.src \in Server /\ r.dst \in Server /\ r.id \in Nat
                               /\ r.ok \in BOOLEAN /\ r.term \in Nat /\ r.match_index \in Nat
BY DEF TypeOK, VoteCall, AppendCall, TransferCall, Result

\* Reloading the mapped files (init, load_config) keeps the type invariant.
LEMMA DieType ==
  ASSUME TypeOK, NEW s \in Server, Die(s), restarts' \in Nat
  PROVE  TypeOK'
<1>1. InitialNextIndex(s) \in Nat \ {0}
  BY LastEntryType DEF InitialNextIndex
<1>2. calls' \subseteq Call
  <2>1. ASSUME NEW m \in calls PROVE [m EXCEPT !.live = FALSE] \in Call
    <3>1. CASE m \in VoteCall
      BY <3>1 DEF Call, VoteCall
    <3>2. CASE m \in AppendCall
      BY <3>2 DEF Call, AppendCall
    <3>3. CASE m \in TransferCall
      BY <3>3 DEF Call, TransferCall
    <3>4. QED
      BY <3>1, <3>2, <3>3 DEF TypeOK
  <2>2. QED
    BY <2>1 DEF Die, TypeOK, Call
<1>3. results' \subseteq Result
  BY DEF Die, TypeOK
<1>4. last_index[s] \in Nat
  BY DEF TypeOK
<1>5. QED
  BY <1>1, <1>2, <1>3, <1>4 DEF TypeOK, Die, Call, Roles, voteVars, logVars

-----------------------------------------------------------------------------
(***************************************************************************)
(* The two kinds of steps around timeout_now, as all proofs below see      *)
(* them: a server starts a pre-vote round, or timeout_now calls come and   *)
(* go.                                                                     *)
(***************************************************************************)
StartsRound(s) ==
  /\ UNCHANGED <<voteVars, logVars, votes, leaderVars, commitVars, restarts>>
  /\ role' = [role EXCEPT ![s] = "FOLLOWER"]
  /\ pre_votes_granted' = [pre_votes_granted EXCEPT ![s] = 1]
  /\ pre_votes_refused' = [pre_votes_refused EXCEPT ![s] = 0]
  /\ election_timer' = [election_timer EXCEPT ![s] = FALSE]
  /\ results \subseteq results'
  /\ \A r \in results' : r \in results \/ (r \in Result /\ r.rpc = "timeout_now")
  /\ \A k \in calls : k.rpc # "timeout_now" => k \in calls'
  /\ \A k \in calls' : \/ k \in calls
                       \/ k \in VoteCall /\ k.rpc = "pre_vote" /\ k.live /\ k.src = s
  /\ \A n \in Server \ {s} : \E k \in calls' : k.rpc = "pre_vote" /\ k.src = s /\ k.dst = n

TellsToStand ==
  /\ UNCHANGED <<voteVars, logVars, electionVars, leaderVars, commitVars, restarts>>
  /\ results' \subseteq results
  /\ \A r \in results : r.rpc # "timeout_now" => r \in results'
  /\ \A k \in calls : k.rpc # "timeout_now" => k \in calls'
  /\ \A k \in calls' : k \in calls \/ (k \in VoteCall /\ k.rpc = "timeout_now")

\* pre_vote asks every other server, besides the calls that are left.
LEMMA PreVoteCalls ==
  ASSUME TypeOK, NEW s \in Server, NEW early \in BOOLEAN, NEW C, pre_vote(s, early, C)
  PROVE  /\ C \subseteq calls'
         /\ \A k \in calls' : \/ k \in C
                              \/ k \in VoteCall /\ k.rpc = "pre_vote" /\ k.live /\ k.src = s
         /\ \A n \in Server \ {s} : \E k \in calls' : k.rpc = "pre_vote" /\ k.src = s /\ k.dst = n
<1> DEFINE new(n) == vote_call("pre_vote", s, n, FreeId("pre_vote", s, n, C, results), curr_term[s], early)
<1>1. calls' = C \cup {new(n) : n \in Server \ {s}}
  BY DEF pre_vote
<1>2. \A n \in Server \ {s} : FreeIds("pre_vote", s, n, C, results) # {}
  BY DEF pre_vote
<1>3. ASSUME NEW n \in Server \ {s}
      PROVE  new(n) \in VoteCall
  <2>1. FreeId("pre_vote", s, n, C, results) \in Nat
    BY <1>2, FreeIdType
  <2>2. QED
    BY <2>1, VoteCallType DEF TypeOK
<1>4. \A n : new(n).rpc = "pre_vote" /\ new(n).live /\ new(n).src = s /\ new(n).dst = n
  BY DEF vote_call
<1> HIDE DEF new
<1>5. QED
  BY <1>1, <1>3, <1>4

LEMMA TimeoutStartsRound ==
  ASSUME TypeOK, NEW s \in Server, ElectionTimeout(s)
  PROVE  StartsRound(s)
<1>1. pre_vote(s, FALSE, calls) /\ UNCHANGED <<voteVars, logVars, votes, leaderVars, commitVars, results, restarts>>
  BY DEF ElectionTimeout
<1>2. /\ calls \subseteq calls'
      /\ \A k \in calls' : k \in calls \/ (k \in VoteCall /\ k.rpc = "pre_vote" /\ k.live /\ k.src = s)
      /\ \A n \in Server \ {s} : \E k \in calls' : k.rpc = "pre_vote" /\ k.src = s /\ k.dst = n
  BY <1>1, PreVoteCalls, Zenon
<1>3. QED
  BY <1>1, <1>2 DEF StartsRound, pre_vote

LEMMA TimeoutNowStartsRound ==
  ASSUME TypeOK, NEW m \in calls, ServeTimeoutNow(m)
  PROVE  StartsRound(m.dst) /\ m.dst \in Server
<1>1. /\ pre_vote(m.dst, TRUE, calls \ {m}) /\ m.rpc = "timeout_now"
      /\ results' = results \cup Answer(m, FALSE, curr_term[m.dst], 0)
      /\ UNCHANGED <<voteVars, logVars, votes, leaderVars, commitVars, restarts>>
  BY DEF ServeTimeoutNow
<1>2. m.dst \in Server /\ curr_term[m.dst] \in Nat
  BY CallFields DEF TypeOK
<1>3. \A r \in Answer(m, FALSE, curr_term[m.dst], 0) : r \in Result /\ r.rpc = "timeout_now"
  <2>1. FALSE \in BOOLEAN /\ 0 \in Nat
    OBVIOUS
  <2>2. \A r \in Answer(m, FALSE, curr_term[m.dst], 0) : r \in Result /\ r.rpc = m.rpc
    BY <1>2, <2>1, AnswerType, Zenon
  <2>3. QED
    BY <1>1, <2>2
<1>4. /\ calls \ {m} \subseteq calls'
      /\ \A k \in calls' : \/ k \in calls \ {m}
                           \/ k \in VoteCall /\ k.rpc = "pre_vote" /\ k.live /\ k.src = m.dst
      /\ \A n \in Server \ {m.dst} : \E k \in calls' : k.rpc = "pre_vote" /\ k.src = m.dst /\ k.dst = n
  <2>1. pre_vote(m.dst, TRUE, calls \ {m})
    BY <1>1
  <2>2. QED
    BY <1>2, <2>1, PreVoteCalls, Zenon
<1>5. \A k \in calls : k.rpc # "timeout_now" => k \in calls'
  BY <1>1, <1>4
<1>6. \A r \in results' : r \in results \/ (r \in Result /\ r.rpc = "timeout_now")
  BY <1>1, <1>3
<1>7. QED
  BY <1>1, <1>2, <1>4, <1>5, <1>6 DEF StartsRound, pre_vote

LEMMA TimeoutNowCall ==
  ASSUME TypeOK, NEW s \in Server, NEW n \in Server, NEW C, NEW R, timeout_now(s, n, C, R)
  PROVE  \E k \in VoteCall : k.rpc = "timeout_now" /\ calls' = C \cup {k}
<1> DEFINE k == vote_call("timeout_now", s, n, FreeId("timeout_now", s, n, C, R), curr_term[s], FALSE)
<1>1. calls' = C \cup {k}
  BY DEF timeout_now
<1>2. FreeId("timeout_now", s, n, C, R) \in Nat
  BY FreeIdType DEF timeout_now
<1>3. k \in VoteCall
  BY <1>2, VoteCallType DEF TypeOK
<1>4. k.rpc = "timeout_now"
  BY DEF vote_call
<1> HIDE DEF k
<1>5. QED
  BY <1>1, <1>3, <1>4

LEMMA TransferTells ==
  ASSUME TypeOK, NEW s \in Server, NEW n \in Server, TransferLeadership(s, n)
  PROVE  TellsToStand
<1>1. timeout_now(s, n, calls, results) /\ UNCHANGED results
  BY DEF TransferLeadership
<1>2. PICK k \in VoteCall : k.rpc = "timeout_now" /\ calls' = calls \cup {k}
  BY <1>1, TimeoutNowCall
<1>3. UNCHANGED <<voteVars, logVars, electionVars, leaderVars, commitVars, restarts>>
  BY <1>1 DEF timeout_now
<1>4. QED
  BY <1>1, <1>2, <1>3 DEF TellsToStand

LEMMA RetryTells ==
  ASSUME TypeOK, NEW m \in calls \cup results, RetryTimeoutNow(m)
  PROVE  TellsToStand
<1> DEFINE deaf(k) == IF k = m THEN [k EXCEPT !.live = FALSE] ELSE k
           C == {deaf(k) : k \in calls}
<1>1. timeout_now(m.src, m.dst, C, results \ {m}) /\ results' = results \ {m} /\ m.rpc = "timeout_now"
  BY DEF RetryTimeoutNow
<1>2. m.src \in Server /\ m.dst \in Server
  BY CallFields
<1>3. PICK x \in VoteCall : x.rpc = "timeout_now" /\ calls' = C \cup {x}
  BY <1>1, <1>2, TimeoutNowCall
<1>4. UNCHANGED <<voteVars, logVars, electionVars, leaderVars, commitVars, restarts>>
  BY <1>1 DEF timeout_now
<1>5. ASSUME NEW k \in calls PROVE k # m => deaf(k) = k
  OBVIOUS
<1>6. ASSUME m \in calls PROVE deaf(m) \in VoteCall /\ deaf(m).rpc = "timeout_now"
  <2>1. m \in VoteCall
    BY <1>1, <1>6 DEF TypeOK, VoteCall, AppendCall, TransferCall
  <2>2. QED
    BY <1>1, <2>1 DEF VoteCall
<1> HIDE DEF deaf
<1>7. \A k \in C : k \in calls \/ (k \in VoteCall /\ k.rpc = "timeout_now")
  BY <1>5, <1>6
<1>8. \A k \in calls : k.rpc # "timeout_now" => k \in C
  BY <1>1, <1>5
<1> HIDE DEF C
<1>9. QED
  BY <1>1, <1>3, <1>4, <1>7, <1>8 DEF TellsToStand

LEMMA AnswerTells ==
  ASSUME NEW r \in results, OnTimeoutNow(r)
  PROVE  TellsToStand
BY DEF OnTimeoutNow, TellsToStand

LEMMA StartsRoundType ==
  ASSUME TypeOK, NEW s \in Server, StartsRound(s)
  PROVE  TypeOK'
<1>1. calls' \subseteq Call /\ results' \subseteq Result
  BY DEF StartsRound, TypeOK, Call
<1>2. QED
  BY <1>1 DEF StartsRound, TypeOK, Call, Roles, voteVars, logVars, leaderVars, commitVars

LEMMA TellsType ==
  ASSUME TypeOK, TellsToStand
  PROVE  TypeOK'
<1>1. calls' \subseteq Call /\ results' \subseteq Result
  BY DEF TellsToStand, TypeOK, Call
<1>2. QED
  BY <1>1 DEF TellsToStand, TypeOK, Call, voteVars, logVars, electionVars, leaderVars, commitVars

-----------------------------------------------------------------------------
(***************************************************************************)
(* Type correctness: one step per action.                                  *)
(***************************************************************************)
LEMMA InitType == Init => TypeOK
<1>1. Cardinality(Server) \in Nat
  BY ServerAssumption, FS_CardinalityType
<1>2. [i \in 1..Cardinality(Server) |-> [index |-> i, term |-> 1, cfg |-> TRUE]] \in Seq(LogEntry)
  <2>1. [i \in 1..Cardinality(Server) |-> [index |-> i, term |-> 1, cfg |-> TRUE]]
          \in [1..Cardinality(Server) -> LogEntry]
    BY <1>1 DEF LogEntry
  <2>2. QED
    BY <1>1, <2>1, SeqDef
<1>3. ASSUME Init PROVE voted_for \in [Server -> Server \cup {Nil}]
  BY <1>3 DEF Init
<1>4. ASSUME Init PROVE log \in [Server -> Seq(LogEntry)]
  BY <1>4, <1>2 DEF Init
<1>5. ASSUME Init PROVE next_index \in [Server -> [Server -> Nat \ {0}]]
  BY <1>5, <1>1 DEF Init
<1>6. QED
  BY <1>1, <1>3, <1>4, <1>5 DEF Init, TypeOK, Roles

\* The timers, append, the apply thread and restarts keep the type invariant.
LEMMA ServerStepType ==
  ASSUME TypeOK, NEW s \in Server, ServerStep(s)
  PROVE  TypeOK'
<1>1. CASE ElectionTimeout(s)
  BY <1>1, TimeoutStartsRound, StartsRoundType
<1>2. CASE HeartbeatTimeout(s)
  <2>1. calls' \subseteq Call
    BY <1>2, AppendEntriesToType DEF HeartbeatTimeout, HeartbeatTargets, TypeOK, Call
  <2>2. QED
    BY <1>2, <2>1 DEF HeartbeatTimeout, TypeOK, Call, voteVars, logVars, electionVars, leaderVars, commitVars
<1>3. CASE HandleAppend(s)
  <2>1. [index |-> last_entry_index(s) + 1, term |-> curr_term[s], cfg |-> FALSE] \in LogEntry
    BY SMTT(30), LastEntryType DEF TypeOK, LogEntry
  <2>2. log' \in [Server -> Seq(LogEntry)]
    BY <1>3, <2>1 DEF HandleAppend, TypeOK
  <2>3. QED
    BY <1>3, <2>2 DEF HandleAppend, TypeOK, voteVars, electionVars, leaderVars, commitVars, netVars
<1>4. CASE ApplyLogCommitted(s)
  <2>1. CASE Die(s) /\ UNCHANGED restarts
    BY <2>1, DieType DEF TypeOK
  <2>2. CASE ~(Die(s) /\ UNCHANGED restarts)
    <3> DEFINE i == last_applied[s] + 1
    <3>1. /\ log[s] \in Seq(LogEntry) /\ last_index[s] \in Nat /\ last_applied[s] \in Nat
      BY DEF TypeOK
    <3>2. Present(s, i) /\ last_applied' = [last_applied EXCEPT ![s] = i]
      BY <1>4, <2>2 DEF ApplyLogCommitted
    <3>3. EntryAt(s, i) \in LogEntry
      BY <3>1, <3>2, EntryAtType
    <3>4. i - last_index[s] \in 1..Len(log[s])
      BY <3>1, <3>2 DEF Present
    <3>5. CompactedAt(s, i) \in Seq(LogEntry)
      BY <3>1, <3>4 DEF CompactedAt
    <3>6. log' \in [Server -> Seq(LogEntry)] /\ last_index' \in [Server -> Nat] /\ last_term' \in [Server -> Nat]
      <4>1. CASE log_compaction_enabled /\ ~EntryAt(s, i).cfg /\ i = commit_index[s]
        <5>1. /\ log' = [log EXCEPT ![s] = CompactedAt(s, i)]
              /\ last_index' = [last_index EXCEPT ![s] = i]
              /\ last_term' = [last_term EXCEPT ![s] = EntryAt(s, i).term]
          BY <1>4, <2>2, <4>1 DEF ApplyLogCommitted
        <5>2. EntryAt(s, i).term \in Nat /\ i \in Nat
          BY <3>1, <3>3 DEF LogEntry
        <5>3. QED
          BY <5>1, <5>2, <3>5 DEF TypeOK
      <4>2. CASE ~(log_compaction_enabled /\ ~EntryAt(s, i).cfg /\ i = commit_index[s])
        BY <1>4, <2>2, <4>2 DEF ApplyLogCommitted, TypeOK, logVars
      <4>3. QED
        BY <4>1, <4>2
    <3>7. last_applied' \in [Server -> Nat]
      BY <3>1, <3>2 DEF TypeOK
    <3>8. QED
      BY <1>4, <2>2, <3>6, <3>7 DEF ApplyLogCommitted, TypeOK, voteVars, electionVars, leaderVars, netVars
  <2>3. QED
    BY <2>1, <2>2
<1>5. CASE Restart(s)
  <2>1. restarts' \in Nat
    BY <1>5 DEF Restart, TypeOK
  <2>2. QED
    BY <1>5, <2>1, DieType DEF Restart
<1>6. CASE \E n \in Server : TransferLeadership(s, n)
  BY <1>6, TransferTells, TellsType
<1>7. QED
  BY <1>1, <1>2, <1>3, <1>4, <1>5, <1>6 DEF ServerStep

\* leader_election keeps the types of what it writes.
LEMMA LeaderElectionType ==
  ASSUME TypeOK, NEW s \in Server, NEW C \in SUBSET Call, leader_election(s, C)
  PROVE  /\ calls' \subseteq Call
         /\ role' \in [Server -> Roles]
         /\ curr_term' \in [Server -> Nat]
         /\ voted_for' \in [Server -> Server \cup {Nil}]
         /\ votes' \in [Server -> SUBSET Server]
         /\ election_timer' \in [Server -> BOOLEAN]
<1>1. curr_term[s] + 1 \in Nat
  BY DEF TypeOK
<1>2. \A n \in Server : vote_call("request_vote", s, n, curr_term[s] + 1, curr_term[s] + 1, FALSE) \in VoteCall
  BY <1>1, VoteCallType
<1>3. calls' \subseteq Call
  BY <1>2 DEF leader_election, Call
<1>4. QED
  BY <1>1, <1>3 DEF leader_election, TypeOK, Roles

\* on_pre_vote and checkout keep the type invariant.
LEMMA OnPreVoteType ==
  ASSUME TypeOK, NEW s \in Server, NEW granted \in BOOLEAN, NEW C \in SUBSET Call,
         on_pre_vote(s, granted, C), results' \subseteq Result
  PROVE  TypeOK'
<1>1. ASSUME NEW g \in Nat, NEW f \in Nat, checkout(s, g, f, C)
      PROVE  TypeOK'
  <2>1. pre_votes_granted' \in [Server -> Nat] /\ pre_votes_refused' \in [Server -> Nat]
    BY <1>1 DEF checkout, TypeOK
  <2>2. CASE leader_election(s, C)
    BY <2>1, <2>2, LeaderElectionType DEF on_pre_vote, TypeOK, Call, logVars, leaderVars, commitVars
  <2>3. CASE ~leader_election(s, C)
    <3>1. election_timer' \in [Server -> BOOLEAN]
      BY <1>1, <2>3 DEF checkout, TypeOK
    <3>2. calls' = C /\ UNCHANGED <<voteVars, role, votes>>
      BY <1>1, <2>3 DEF checkout
    <3>3. QED
      BY <2>1, <3>1, <3>2 DEF on_pre_vote, TypeOK, Call, voteVars, logVars, leaderVars, commitVars
  <2>4. QED
    BY <2>2, <2>3
<1>2. CASE role[s] # "FOLLOWER"
  BY <1>2 DEF on_pre_vote, TypeOK, Call, voteVars, electionVars, logVars, leaderVars, commitVars
<1>3. CASE role[s] = "FOLLOWER"
  <2>1. pre_votes_granted[s] \in Nat /\ pre_votes_refused[s] \in Nat
    BY DEF TypeOK
  <2>2. \/ checkout(s, pre_votes_granted[s] + 1, pre_votes_refused[s], C)
        \/ checkout(s, pre_votes_granted[s], pre_votes_refused[s] + 1, C)
    BY <1>3 DEF on_pre_vote
  <2>3. QED
    BY <2>1, <2>2, <1>1
<1>4. QED
  BY <1>2, <1>3

\* The prologue of the leader's RPCs keeps the types of term, vote and role.
LEMMA FollowTermType ==
  ASSUME TypeOK, NEW d \in Server, NEW term \in Nat, FollowTerm(d, term)
  PROVE  /\ curr_term' \in [Server -> Nat]
         /\ voted_for' \in [Server -> Server \cup {Nil}]
         /\ role' \in [Server -> Roles]
BY DEF FollowTerm, TypeOK, Roles

\* append_entries that is accepted keeps the type invariant: what skip, chop and append
\* leave is a log.
LEMMA AcceptAppendEntriesType ==
  ASSUME TypeOK, NEW m \in calls, AcceptAppendEntries(m)
  PROVE  TypeOK'
<1> DEFINE d == m.dst
<1>1. d \in Server /\ m.term \in Nat /\ m \in AppendCall
  BY CallFields DEF AcceptAppendEntries, TypeOK, VoteCall, AppendCall, TransferCall
<1>2. log[d] \in Seq(LogEntry) /\ last_index[d] \in Nat /\ commit_index[d] \in Nat
      /\ m.entries \in Seq(LogEntry) /\ m.leader_commit \in Nat
  BY <1>1 DEF TypeOK, AppendCall
<1>3. PICK k \in 0..Len(m.entries) :
        LET new == LogAfter(d, m.entries, k)
            last == IF new = <<>> THEN last_index[d] ELSE new[Len(new)].index
        IN /\ log' = [log EXCEPT ![d] = new]
           /\ commit_index' = [commit_index EXCEPT ![d] =
                IF m.leader_commit > @ THEN IF m.leader_commit < last THEN m.leader_commit ELSE last
                                       ELSE @]
           /\ Reply(m, TRUE, m.term, last)
  BY DEF AcceptAppendEntries
<1> DEFINE new == LogAfter(d, m.entries, k)
           last == IF new = <<>> THEN last_index[d] ELSE new[Len(new)].index
<1>4. new \in Seq(LogEntry)
  <2>1. CASE k = Len(m.entries)
    BY <1>2, <2>1 DEF LogAfter
  <2>2. CASE k # Len(m.entries)
    <3> DEFINE e == m.entries[k + 1]
    <3>1. e \in LogEntry
      BY <1>2, <2>2
    <3>2. SubSeq(m.entries, k + 1, Len(m.entries)) \in Seq(LogEntry)
      BY <1>2, <2>2
    <3>3. CASE entry_conflicted(d, e.index, e.term)
      <4> DEFINE n == e.index - last_index[d] - 1
      <4>1. e.index \in Nat /\ Present(d, e.index)
        BY <3>1, <3>3 DEF entry_conflicted, LogEntry
      <4>2. n \in Int /\ n <= Len(log[d])
        <5>1. PICK x, y, z : x = e.index /\ y = last_index[d] /\ z = Len(log[d])
          OBVIOUS
        <5>2. DOMAIN log[d] = 1..z /\ z \in Nat /\ y \in Nat /\ x \in Nat
          BY <1>2, <4>1, <5>1
        <5>3. x = 0 \/ x - y \in 1..z
          BY <4>1, <5>1, <5>2 DEF Present
        <5>4. x - y - 1 \in Int /\ x - y - 1 <= z
          BY <5>2, <5>3
        <5>5. QED
          BY <5>1, <5>4
      <4>3. \A i \in 1..n : log[d][i] \in LogEntry
        BY <1>2, <4>2
      <4>4. SubSeq(log[d], 1, n) \in Seq(LogEntry)
        BY <4>2, <4>3, SubSeqProperties
      <4>5. QED
        BY <2>2, <3>2, <3>3, <4>4 DEF LogAfter
    <3>4. CASE ~entry_conflicted(d, e.index, e.term)
      BY <1>2, <2>2, <3>2, <3>4 DEF LogAfter
    <3>5. QED
      BY <3>3, <3>4
  <2>3. QED
    BY <2>1, <2>2
<1>5. last \in Nat
  <2>1. CASE new = <<>>
    BY <2>1, <1>2
  <2>2. CASE new # <<>>
    <3>1. new[Len(new)] \in LogEntry
      BY <2>2, <1>4
    <3>2. QED
      BY <2>2, <3>1 DEF LogEntry
  <2>3. QED
    BY <2>1, <2>2
<1>6. log' \in [Server -> Seq(LogEntry)]
  BY <1>3, <1>4 DEF TypeOK
<1>7. commit_index' \in [Server -> Nat]
  BY <1>2, <1>3, <1>5 DEF TypeOK
<1>8. calls' \subseteq Call /\ results' \subseteq Result
  BY <1>1, <1>3, <1>5, ReplyType
<1>9. election_timer' \in [Server -> BOOLEAN]
  BY DEF AcceptAppendEntries, TypeOK
<1>10. FollowTerm(d, m.term)
  BY DEF AcceptAppendEntries
<1>11. QED
  BY <1>1, <1>6, <1>7, <1>8, <1>9, <1>10, FollowTermType DEF AcceptAppendEntries, TypeOK, Call, leaderVars

\* Every RPC handler keeps the type invariant.
LEMMA ServeCallType ==
  ASSUME TypeOK, NEW m \in calls, ServeCall(m)
  PROVE  TypeOK'
<1>1. m.src \in Server /\ m.dst \in Server /\ m.term \in Nat /\ curr_term[m.dst] \in Nat
  BY CallFields DEF TypeOK
<1>2. last_entry_index(m.dst) \in Nat
  BY <1>1, LastEntryType
<1>3. CASE ServePreVote(m)
  <2>1. calls' \subseteq Call /\ results' \subseteq Result
    BY <1>1, <1>3, ReplyType DEF ServePreVote
  <2>2. QED
    BY <1>3, <2>1 DEF ServePreVote, TypeOK, Call, voteVars, logVars, electionVars, leaderVars, commitVars
<1>4. CASE ServeRequestVote(m)
  <2>1. /\ role' \in [Server -> Roles]
        /\ curr_term' \in [Server -> Nat]
        /\ election_timer' \in [Server -> BOOLEAN]
    BY <1>1, <1>4 DEF ServeRequestVote, step_down, TypeOK, Roles
  <2>2. voted_for' \in [Server -> Server \cup {Nil}]
    BY <1>1, <1>4 DEF ServeRequestVote, HeldVote, TypeOK
  <2>3. PICK granted \in BOOLEAN : Reply(m, granted, curr_term'[m.dst], 0)
    BY <1>4 DEF ServeRequestVote
  <2>4. calls' \subseteq Call /\ results' \subseteq Result
    BY <1>1, <2>1, <2>3, ReplyType
  <2>5. QED
    BY <1>4, <2>1, <2>2, <2>4 DEF ServeRequestVote, TypeOK, Call, logVars, leaderVars, commitVars
<1>5. CASE RejectAppendEntries(m)
  <2>1. calls' \subseteq Call /\ results' \subseteq Result
    BY <1>1, <1>2, <1>5, ReplyType DEF RejectAppendEntries
  <2>2. QED
    BY <1>5, <2>1 DEF RejectAppendEntries, TypeOK, Call, voteVars, logVars, electionVars, leaderVars, commitVars
<1>6. CASE RefuseAppendEntries(m)
  <2>1. calls' \subseteq Call /\ results' \subseteq Result
    BY <1>1, <1>2, <1>6, ReplyType DEF RefuseAppendEntries
  <2>2. election_timer' \in [Server -> BOOLEAN]
    BY <1>6 DEF RefuseAppendEntries, TypeOK
  <2>3. FollowTerm(m.dst, m.term)
    BY <1>6 DEF RefuseAppendEntries
  <2>4. QED
    BY <1>1, <1>6, <2>1, <2>2, <2>3, FollowTermType
    DEF RefuseAppendEntries, TypeOK, Call, logVars, leaderVars, commitVars
<1>7. CASE AcceptAppendEntries(m)
  BY <1>7, AcceptAppendEntriesType
<1>8. CASE RejectTransfer(m)
  <2>1. calls' \subseteq Call /\ results' \subseteq Result
    BY <1>1, <1>8, ReplyType DEF RejectTransfer
  <2>2. QED
    BY <1>8, <2>1 DEF RejectTransfer, TypeOK, Call, voteVars, logVars, electionVars, leaderVars, commitVars
<1>9. CASE ServeDataTransfer(m)
  <2>1. m.last_index \in Nat /\ m.last_term \in Nat
    BY <1>9 DEF ServeDataTransfer, TypeOK, VoteCall, AppendCall, TransferCall
  <2>2. calls' \subseteq Call /\ results' \subseteq Result
    BY <1>1, <1>9, ReplyType DEF ServeDataTransfer
  <2>3. election_timer' \in [Server -> BOOLEAN]
    BY <1>9 DEF ServeDataTransfer, TypeOK
  <2>4. FollowTerm(m.dst, m.term)
    BY <1>9 DEF ServeDataTransfer
  <2>5. /\ log' \in [Server -> Seq(LogEntry)]
        /\ last_index' \in [Server -> Nat] /\ last_term' \in [Server -> Nat]
        /\ commit_index' \in [Server -> Nat] /\ last_applied' \in [Server -> Nat]
    <3>1. CASE UNCHANGED <<logVars, commitVars>>
      BY <3>1 DEF TypeOK, logVars, commitVars
    <3>2. CASE ~UNCHANGED <<logVars, commitVars>>
      <4>1. /\ log' = [log EXCEPT ![m.dst] = <<>>]
            /\ last_index' = [last_index EXCEPT ![m.dst] = m.last_index]
            /\ last_term' = [last_term EXCEPT ![m.dst] = m.last_term]
            /\ commit_index' = [commit_index EXCEPT ![m.dst] = m.last_index]
            /\ last_applied' = [last_applied EXCEPT ![m.dst] = m.last_index]
        BY <1>9, <3>2 DEF ServeDataTransfer
      <4>2. QED
        <5>1. <<>> \in Seq(LogEntry) /\ log \in [Server -> Seq(LogEntry)]
          BY DEF TypeOK
        <5>2. [log EXCEPT ![m.dst] = <<>>] \in [Server -> Seq(LogEntry)]
          BY <1>1, <5>1, Zenon
        <5>3. log' = [log EXCEPT ![m.dst] = <<>>]
          BY <4>1
        <5>4. log' \in [Server -> Seq(LogEntry)]
          BY <5>2, <5>3, Zenon
        <5>5. QED
          BY <2>1, <4>1, <5>4 DEF TypeOK
    <3>3. QED
      BY <3>1, <3>2
  <2>6. QED
    BY <1>1, <1>9, <2>2, <2>3, <2>4, <2>5, FollowTermType
    DEF ServeDataTransfer, TypeOK, Call, leaderVars
<1>10. CASE ServeDoneTransfer(m)
  <2>1. calls' \subseteq Call /\ results' \subseteq Result
    BY <1>1, <1>10, ReplyType DEF ServeDoneTransfer
  <2>2. election_timer' \in [Server -> BOOLEAN]
    BY <1>10 DEF ServeDoneTransfer, TypeOK
  <2>3. FollowTerm(m.dst, m.term)
    BY <1>10 DEF ServeDoneTransfer
  <2>4. QED
    BY <1>1, <1>10, <2>1, <2>2, <2>3, FollowTermType
    DEF ServeDoneTransfer, TypeOK, Call, logVars, leaderVars, commitVars
<1>11. CASE ServeTimeoutNow(m)
  BY <1>11, TimeoutNowStartsRound, StartsRoundType
<1>12. QED
  BY <1>3, <1>4, <1>5, <1>6, <1>7, <1>8, <1>9, <1>10, <1>11 DEF ServeCall

\* Every callback keeps the type invariant.
LEMMA OnResultType ==
  ASSUME TypeOK, NEW r \in results, OnResult(r)
  PROVE  TypeOK'
<1> DEFINE s == r.src
           n == r.dst
<1>1. s \in Server /\ n \in Server /\ r.term \in Nat /\ r.match_index \in Nat /\ r.ok \in BOOLEAN /\ r.id \in Nat
  BY CallFields
<1>2. calls \in SUBSET Call /\ results \ {r} \subseteq Result
  BY DEF TypeOK, Call
<1>3. InitialNextIndex(s) \in Nat \ {0} /\ last_entry_index(s) \in Nat
  BY <1>1, LastEntryType DEF InitialNextIndex
<1>4. CASE OnPreVote(r)
  BY <1>1, <1>2, <1>4, OnPreVoteType DEF OnPreVote
<1>5. CASE OnRequestVote(r)
  <2>1. votes' \in [Server -> SUBSET Server]
    BY <1>1, <1>5 DEF OnRequestVote, TypeOK
  <2>2. CASE step_up(s, results \ {r}) /\ UNCHANGED curr_term
    <3>1. [x \in Server |-> InitialNextIndex(s)] \in [Server -> Nat \ {0}]
      BY <1>3
    <3>2. calls' \subseteq Call
      BY <1>1, <1>2, <2>2, <3>1, AppendEntriesToType DEF step_up, HeartbeatTargets
    <3>3. /\ next_index' \in [Server -> [Server -> Nat \ {0}]]
          /\ match_index' \in [Server -> [Server -> Nat]]
          /\ role' \in [Server -> Roles]
          /\ election_timer' \in [Server -> BOOLEAN]
      BY <1>1, <2>2, <3>1 DEF step_up, TypeOK, Roles
    <3>4. QED
      BY <1>2, <1>5, <2>1, <2>2, <3>2, <3>3 DEF OnRequestVote, TypeOK, Call, logVars, commitVars
  <2>3. CASE step_down(s, r.term) /\ UNCHANGED <<next_index, match_index, calls>>
    <3>1. /\ role' \in [Server -> Roles]
          /\ curr_term' \in [Server -> Nat]
          /\ election_timer' \in [Server -> BOOLEAN]
      BY <1>1, <2>3 DEF step_down, TypeOK, Roles
    <3>2. QED
      BY <1>2, <1>5, <2>1, <2>3, <3>1 DEF OnRequestVote, TypeOK, Call, logVars, commitVars
  <2>4. CASE UNCHANGED <<role, curr_term, election_timer, next_index, match_index, calls>>
    BY <1>2, <1>5, <2>1, <2>4 DEF OnRequestVote, TypeOK, Call, logVars, commitVars
  <2>5. QED
    BY <1>5, <2>2, <2>3, <2>4 DEF OnRequestVote
<1>6. CASE IgnoreAppendEntries(r)
  BY <1>2, <1>6 DEF IgnoreAppendEntries, TypeOK, voteVars, logVars, electionVars, leaderVars, commitVars
<1>7. CASE AppendEntriesSucceeded(r)
  <2> DEFINE match == [match_index[s] EXCEPT ![n] = r.match_index]
  <2>1. CASE Die(s)
    BY <1>1, <1>7, <2>1, DieType DEF AppendEntriesSucceeded, TypeOK
  <2>2. CASE ~Die(s)
    <3>1. match \in [Server -> Nat]
      BY <1>1 DEF TypeOK
    <3>2. adjust_commit_index(s, match)
      BY <1>7, <2>2 DEF AppendEntriesSucceeded
    <3>3. commit_index' \in [Server -> Nat]
      <4>1. CASE UNCHANGED commit_index
        BY <4>1 DEF TypeOK
      <4>2. CASE ~UNCHANGED commit_index
        <5>1. PICK x \in Committable(s, match) : commit_index' = [commit_index EXCEPT ![s] = x]
          BY <3>2, <4>2 DEF adjust_commit_index
        <5>2. Committable(s, match) \subseteq 1..last_entry_index(s)
          BY DEF Committable
        <5>3. x \in Nat
          BY <1>3, <5>1, <5>2
        <5>4. QED
          BY <5>1, <5>3 DEF TypeOK
      <4>3. QED
        BY <4>1, <4>2
    <3>4. /\ match_index' \in [Server -> [Server -> Nat]]
          /\ next_index' \in [Server -> [Server -> Nat \ {0}]]
      <4>1. /\ match_index' = [match_index EXCEPT ![s] = match]
            /\ next_index' = [next_index EXCEPT ![s][n] = r.match_index + 1]
        BY <1>7, <2>2 DEF AppendEntriesSucceeded
      <4>2. r.match_index + 1 \in Nat \ {0}
        BY <1>1
      <4>3. next_index' \in [Server -> [Server -> Nat \ {0}]]
        <5>1. next_index \in [Server -> [Server -> Nat \ {0}]]
          BY DEF TypeOK
        <5>2. [next_index EXCEPT ![s][n] = r.match_index + 1] \in [Server -> [Server -> Nat \ {0}]]
          BY <1>1, <4>2, <5>1, EntryUpdateType
        <5>3. QED
          BY <4>1, <5>2
      <4>4. QED
        BY <3>1, <4>1, <4>3 DEF TypeOK
    <3>5. QED
      BY <1>2, <1>7, <2>2, <3>3, <3>4 DEF AppendEntriesSucceeded, TypeOK, voteVars, logVars, electionVars
  <2>3. QED
    BY <2>1, <2>2
<1>8. CASE AppendEntriesRefused(r)
  <2>1. RetryFrom(r) \in Nat \ {0} /\ last_entry_index(s) + 1 \in Nat \ {0}
    BY <1>1, <1>3 DEF RetryFrom
  <2>2. next_index' \in [Server -> [Server -> Nat \ {0}]]
    <3>1. PICK i \in Nat \ {0} : next_index' = [next_index EXCEPT ![s][n] = i]
      BY <1>8, <2>1 DEF AppendEntriesRefused
    <3>2. next_index \in [Server -> [Server -> Nat \ {0}]]
      BY DEF TypeOK
    <3>3. [next_index EXCEPT ![s][n] = i] \in [Server -> [Server -> Nat \ {0}]]
      BY <1>1, <3>2, EntryUpdateType
    <3>4. QED
      BY <3>1, <3>3
  <2>3. transfer_data_to' \in [Server -> [Server -> BOOLEAN]]
    <3>1. \/ transfer_data_to' = transfer_data_to
          \/ transfer_data_to' = [transfer_data_to EXCEPT ![s][n] = TRUE]
      BY <1>8 DEF AppendEntriesRefused
    <3>2. transfer_data_to \in [Server -> [Server -> BOOLEAN]]
      BY DEF TypeOK
    <3>3. [transfer_data_to EXCEPT ![s][n] = TRUE] \in [Server -> [Server -> BOOLEAN]]
      BY <1>1, <3>2, EntryUpdateType
    <3>4. QED
      BY <3>1, <3>2, <3>3
  <2>4. calls' \subseteq Call
    <3>1. CASE Present(s, RetryFrom(r))
      <4> DEFINE next == [next_index[s] EXCEPT ![n] = RetryFrom(r)]
      <4>1. append_entries_to(s, {n}, next, calls, results \ {r})
        BY <1>8, <3>1 DEF AppendEntriesRefused
      <4>2. next \in [Server -> Nat \ {0}]
        BY <1>1, <2>1 DEF TypeOK
      <4>3. {n} \in SUBSET Server
        BY <1>1
      <4>4. QED
        BY <1>1, <1>2, <4>1, <4>2, <4>3, AppendEntriesToType
    <3>2. CASE ~Present(s, RetryFrom(r))
      <4> DEFINE id == FreeId("transfer", s, n, calls, results)
      <4>1. calls' = calls \cup {data_transfer_call(s, n, id)} /\ id \in Nat
        BY <1>8, <3>2, FreeIdType DEF AppendEntriesRefused
      <4>2. data_transfer_call(s, n, id) \in TransferCall
        BY <1>1, <4>1 DEF data_transfer_call, TransferCall, TypeOK
      <4>3. QED
        BY <1>2, <4>1, <4>2 DEF Call
    <3>3. QED
      BY <3>1, <3>2
  <2>5. QED
    BY <1>2, <1>8, <2>2, <2>3, <2>4 DEF AppendEntriesRefused, TypeOK, Call, voteVars, logVars, electionVars, commitVars
<1>9. CASE StepDownOnResult(r)
  <2>1. /\ role' \in [Server -> Roles]
        /\ curr_term' \in [Server -> Nat]
        /\ election_timer' \in [Server -> BOOLEAN]
    BY <1>1, <1>9 DEF StepDownOnResult, step_down, TypeOK, Roles
  <2>2. QED
    BY <1>2, <1>9, <2>1 DEF StepDownOnResult, TypeOK, logVars, leaderVars, commitVars
<1>10. CASE OnDataTransfer(r)
  <2> DEFINE done == [rpc |-> "done_transfer", src |-> s, dst |-> n, id |-> r.id, live |-> TRUE,
                      term |-> curr_term[s], last_index |-> 0, last_term |-> 0]
  <2>1. done \in TransferCall
    BY <1>1 DEF TransferCall, TypeOK
  <2>2. calls' \subseteq Call
    BY <1>2, <1>10, <2>1 DEF OnDataTransfer, Call
  <2>3. QED
    BY <1>2, <1>10, <2>2 DEF OnDataTransfer, TypeOK, Call, voteVars, logVars, electionVars, leaderVars, commitVars
<1>11. CASE OnDoneTransfer(r)
  <2>1. next_index[s] \in [Server -> Nat \ {0}] /\ {n} \in SUBSET Server
    BY <1>1 DEF TypeOK
  <2>2. calls' \subseteq Call
    BY <1>1, <1>2, <1>11, <2>1, AppendEntriesToType DEF OnDoneTransfer
  <2>3. transfer_data_to' \in [Server -> [Server -> BOOLEAN]]
    BY <1>1, <1>11 DEF OnDoneTransfer, TypeOK
  <2>4. QED
    BY <1>2, <1>11, <2>2, <2>3 DEF OnDoneTransfer, TypeOK, Call, voteVars, logVars, electionVars, commitVars
<1>12. CASE TransferRefused(r)
  BY <1>2, <1>12 DEF TransferRefused, TypeOK, voteVars, logVars, electionVars, leaderVars, commitVars
<1>13. CASE OnTimeoutNow(r)
  BY <1>13, AnswerTells, TellsType
<1>14. QED
  BY <1>4, <1>5, <1>6, <1>7, <1>8, <1>9, <1>10, <1>11, <1>12, <1>13 DEF OnResult

\* A failed call keeps the type invariant.
LEMMA FailedType ==
  ASSUME TypeOK, NEW m \in calls \cup results, PreVoteFailed(m) \/ CallFailed(m) \/ RetryTimeoutNow(m)
  PROVE  TypeOK'
<1>1. calls \ {m} \in SUBSET Call /\ results \ {m} \subseteq Result /\ m.src \in Server
  BY CallFields DEF TypeOK, Call
<1>2. CASE PreVoteFailed(m)
  BY <1>1, <1>2, OnPreVoteType DEF PreVoteFailed
<1>3. CASE CallFailed(m)
  BY <1>1, <1>3 DEF CallFailed, TypeOK, Call, voteVars, logVars, electionVars, leaderVars, commitVars
<1>4. CASE RetryTimeoutNow(m)
  BY <1>4, RetryTells, TellsType
<1>5. QED
  BY <1>2, <1>3, <1>4

\* Every state variable keeps its type in every step of the servers and the network.
THEOREM TypeCorrect == Spec => []TypeOK
<1>1. Init => TypeOK
  BY InitType
<1>2. TypeOK /\ [Next]_vars => TypeOK'
  <2>1. ASSUME TypeOK, Next PROVE TypeOK'
    BY <2>1, ServerStepType, ServeCallType, OnResultType, FailedType DEF Next
  <2>2. ASSUME TypeOK, UNCHANGED vars PROVE TypeOK'
    BY <2>2 DEF TypeOK, vars, voteVars, logVars, electionVars, leaderVars, commitVars, netVars
  <2>3. QED
    BY <2>1, <2>2
<1>3. QED
  BY <1>1, <1>2, PTL DEF Spec

-----------------------------------------------------------------------------
(***************************************************************************)
(* The safety of elections: a vote is final, and a term has at most one    *)
(* leader.                                                                 *)
(***************************************************************************)
Standing == {"CANDIDATE", "LEADER"}

\* A step in which nobody votes, stands or takes office.
QuietStep ==
  /\ \A s \in Server : /\ curr_term'[s] >= curr_term[s]
                       /\ curr_term'[s] = curr_term[s] => voted_for'[s] = voted_for[s]
                       /\ role'[s] \in Standing => /\ role'[s] = role[s]
                                                   /\ curr_term'[s] = curr_term[s]
                                                   /\ votes'[s] = votes[s]
  /\ \A r \in results' : r.rpc = "request_vote" /\ r.ok => r \in results
  /\ \A m \in calls' : m.rpc = "request_vote" =>
       \E k \in calls : /\ k.rpc = "request_vote" /\ k.src = m.src /\ k.term = m.term
                        /\ k.last_log_index = m.last_log_index

-----------------------------------------------------------------------------
(***************************************************************************)
(* The steps that are quiet.                                               *)
(***************************************************************************)
LEMMA ReplyQuiet ==
  ASSUME TypeOK, NEW m \in calls, m.rpc # "request_vote", NEW ok, NEW term, NEW match,
         Reply(m, ok, term, match)
  PROVE  /\ \A r \in results' : r.rpc = "request_vote" /\ r.ok => r \in results
         /\ calls' \subseteq calls
<1>1. CASE m.live
  <2> DEFINE res == [rpc |-> m.rpc, src |-> m.src, dst |-> m.dst, id |-> m.id,
                     ok |-> ok, term |-> term, match_index |-> match]
  <2>1. results' = results \cup {res} /\ calls' = calls \ {m}
    BY <1>1 DEF Reply, Answer
  <2>2. res.rpc # "request_vote"
    OBVIOUS
  <2> HIDE DEF res
  <2>3. QED
    BY <2>1, <2>2
<1>2. CASE ~m.live
  BY <1>2 DEF Reply, Answer
<1>3. QED
  BY <1>1, <1>2

\* append_entries adds no request for a vote.
LEMMA AppendCallsQuiet ==
  ASSUME NEW s, NEW targets, NEW next, NEW C, NEW R, append_entries_to(s, targets, next, C, R)
  PROVE  \A m \in calls' : m.rpc = "request_vote" => m \in C
BY DEF append_entries_to, append_entries_call

\* A death and reload of a process is quiet: the vote file stays, its calls and votes are forgotten.
LEMMA DieQuiet ==
  ASSUME TypeOK, NEW s \in Server, Die(s)
  PROVE  QuietStep
<1>1. UNCHANGED <<curr_term, voted_for>> /\ results' \subseteq results
  BY DEF Die, voteVars
<1>2. role' = [role EXCEPT ![s] = "FOLLOWER"] /\ votes' = [votes EXCEPT ![s] = {}]
  BY DEF Die
<1>3. ASSUME NEW m \in calls', m.rpc = "request_vote"
      PROVE  \E k \in calls : /\ k.rpc = "request_vote" /\ k.src = m.src /\ k.term = m.term
                              /\ k.last_log_index = m.last_log_index
  <2>1. CASE m \in calls
    BY <1>3, <2>1
  <2>2. CASE m \notin calls
    <3>1. PICK k \in calls : m = [k EXCEPT !.live = FALSE]
      BY <1>3, <2>2 DEF Die
    <3>2. /\ m.rpc = k.rpc /\ m.src = k.src /\ m.term = k.term
          /\ m.rpc = "request_vote" => m.last_log_index = k.last_log_index
      <4>1. CASE k \in VoteCall
        BY <3>1, <4>1 DEF VoteCall
      <4>2. CASE k \in AppendCall
        BY <3>1, <4>2 DEF AppendCall
      <4>3. CASE k \in TransferCall
        BY <3>1, <4>3 DEF TransferCall
      <4>4. QED
        BY <4>1, <4>2, <4>3 DEF TypeOK
    <3>3. QED
      BY <1>3, <3>1, <3>2
  <2>3. QED
    BY <2>1, <2>2
<1>4. QED
  <2>1. ASSUME NEW t \in Server, role'[t] \in Standing
        PROVE  role'[t] = role[t] /\ votes'[t] = votes[t]
    BY <1>2, <2>1 DEF TypeOK, Standing
  <2>2. \A t \in Server : curr_term'[t] >= curr_term[t]
    BY <1>1 DEF TypeOK
  <2>3. QED
    BY <1>1, <1>3, <2>1, <2>2 DEF QuietStep

\* The prologue of append_entries and both transfers meets what QuietStep asks of the callee.
LEMMA FollowTermQuiet ==
  ASSUME TypeOK, NEW d \in Server, NEW term \in Nat, term >= curr_term[d],
         FollowTerm(d, term), UNCHANGED votes
  PROVE  \A s \in Server : /\ curr_term'[s] >= curr_term[s]
                           /\ curr_term'[s] = curr_term[s] => voted_for'[s] = voted_for[s]
                           /\ role'[s] \in Standing => /\ role'[s] = role[s]
                                                       /\ curr_term'[s] = curr_term[s]
                                                       /\ votes'[s] = votes[s]
<1>1. ASSUME NEW s \in Server
      PROVE  /\ curr_term'[s] >= curr_term[s]
             /\ curr_term'[s] = curr_term[s] => voted_for'[s] = voted_for[s]
  <2>1. curr_term[s] \in Nat
    BY DEF TypeOK
  <2>2. CASE s = d
    <3>1. /\ curr_term'[d] = term
          /\ voted_for'[d] = IF term > curr_term[d] THEN Nil ELSE voted_for[d]
      BY DEF FollowTerm, TypeOK
    <3>2. QED
      BY <2>1, <2>2, <3>1
  <2>3. CASE s # d
    <3>1. curr_term'[s] = curr_term[s] /\ voted_for'[s] = voted_for[s]
      BY <2>3 DEF FollowTerm, TypeOK
    <3>2. QED
      BY <2>1, <3>1
  <2>4. QED
    BY <2>2, <2>3
<1>2. ASSUME NEW s \in Server, role'[s] \in Standing
      PROVE  role'[s] = role[s] /\ curr_term'[s] = curr_term[s] /\ votes'[s] = votes[s]
  BY <1>2 DEF FollowTerm, TypeOK, Standing
<1>3. QED
  BY <1>1, <1>2

\* A server that steps down to a newer term leaves office.
LEMMA StepDownQuiet ==
  ASSUME TypeOK, NEW d \in Server, NEW term \in Nat, term > curr_term[d], step_down(d, term),
         UNCHANGED <<votes, voted_for>>
  PROVE  \A s \in Server : /\ curr_term'[s] >= curr_term[s]
                           /\ curr_term'[s] = curr_term[s] => voted_for'[s] = voted_for[s]
                           /\ role'[s] \in Standing => /\ role'[s] = role[s]
                                                       /\ curr_term'[s] = curr_term[s]
                                                       /\ votes'[s] = votes[s]
<1>1. ASSUME NEW s \in Server
      PROVE  curr_term'[s] >= curr_term[s]
  <2>1. curr_term \in [Server -> Nat] /\ curr_term' = [curr_term EXCEPT ![d] = term]
    BY DEF step_down, TypeOK
  <2>2. QED
    BY <2>1
<1>2. ASSUME NEW s \in Server, role'[s] \in Standing
      PROVE  role'[s] = role[s] /\ curr_term'[s] = curr_term[s]
  BY <1>2 DEF step_down, TypeOK, Standing
<1>3. QED
  BY <1>1, <1>2

\* A step that at most removes calls and results is quiet.
LEMMA StutterQuiet ==
  ASSUME TypeOK, UNCHANGED <<curr_term, voted_for, role, votes>>, results' \subseteq results,
         calls' \subseteq calls
  PROVE  QuietStep
BY DEF QuietStep, TypeOK

\* A round that starts is quiet, also at a leader or a candidate: it gives up its office.
LEMMA StartsRoundQuiet ==
  ASSUME TypeOK, NEW s \in Server, StartsRound(s)
  PROVE  QuietStep
<1>1. UNCHANGED <<curr_term, voted_for, votes>>
  BY DEF StartsRound, voteVars
<1>2. \A m \in calls' : m.rpc = "request_vote" => m \in calls
  BY DEF StartsRound
<1>3. \A r \in results' : r.rpc = "request_vote" => r \in results
  BY DEF StartsRound
<1>4. \A t \in Server : role'[t] \in Standing => role'[t] = role[t]
  BY DEF StartsRound, TypeOK, Standing
<1>5. \A t \in Server : curr_term'[t] >= curr_term[t]
  BY <1>1 DEF TypeOK
<1>6. QED
  BY <1>1, <1>2, <1>3, <1>4, <1>5 DEF QuietStep

LEMMA TellsQuiet ==
  ASSUME TypeOK, TellsToStand
  PROVE  QuietStep
<1>1. UNCHANGED <<curr_term, voted_for, votes, role>> /\ results' \subseteq results
  BY DEF TellsToStand, voteVars, electionVars
<1>2. \A m \in calls' : m.rpc = "request_vote" => m \in calls
  BY DEF TellsToStand
<1>3. \A t \in Server : curr_term'[t] >= curr_term[t]
  BY <1>1 DEF TypeOK
<1>4. QED
  BY <1>1, <1>2, <1>3 DEF QuietStep

\* A step of a single server is quiet: only a callback starts an election.
LEMMA ServerStepQuiet ==
  ASSUME TypeOK, NEW s \in Server, ServerStep(s)
  PROVE  QuietStep
<1>1. CASE ElectionTimeout(s)
  BY <1>1, TimeoutStartsRound, StartsRoundQuiet
<1>2. CASE HeartbeatTimeout(s)
  <2>1. UNCHANGED <<curr_term, voted_for, role, votes, results>>
    BY <1>2 DEF HeartbeatTimeout, voteVars, electionVars
  <2>2. \A m \in calls' : m.rpc = "request_vote" => m \in calls
    BY <1>2, AppendCallsQuiet DEF HeartbeatTimeout
  <2>3. \A t \in Server : curr_term'[t] >= curr_term[t]
    BY <2>1 DEF TypeOK
  <2>4. QED
    BY <2>1, <2>2, <2>3 DEF QuietStep
<1>3. CASE HandleAppend(s)
  BY <1>3, StutterQuiet DEF HandleAppend, voteVars, electionVars, netVars
<1>4. CASE ApplyLogCommitted(s)
  <2>1. CASE Die(s)
    BY <2>1, DieQuiet
  <2>2. CASE ~Die(s)
    BY <1>4, <2>2, StutterQuiet DEF ApplyLogCommitted, voteVars, electionVars, netVars
  <2>3. QED
    BY <2>1, <2>2
<1>5. CASE Restart(s)
  BY <1>5, DieQuiet DEF Restart
<1>6. CASE \E n \in Server : TransferLeadership(s, n)
  BY <1>6, TransferTells, TellsQuiet
<1>7. QED
  BY <1>1, <1>2, <1>3, <1>4, <1>5, <1>6 DEF ServerStep

\* Of the handlers only request_vote is not quiet.
LEMMA ServeCallQuiet ==
  ASSUME TypeOK, NEW m \in calls, ServeCall(m), ~ServeRequestVote(m)
  PROVE  QuietStep
<1>1. m.dst \in Server /\ m.term \in Nat /\ curr_term[m.dst] \in Nat
  BY CallFields DEF TypeOK
<1>2. ASSUME ServePreVote(m) \/ RejectAppendEntries(m) \/ RejectTransfer(m)
      PROVE  QuietStep
  <2>1. UNCHANGED <<curr_term, voted_for, role, votes>>
    BY <1>2 DEF ServePreVote, RejectAppendEntries, RejectTransfer, voteVars, electionVars
  <2>2. m.rpc # "request_vote" /\ \E ok, term, match : Reply(m, ok, term, match)
    BY <1>2 DEF ServePreVote, RejectAppendEntries, RejectTransfer
  <2>3. /\ \A r \in results' : r.rpc = "request_vote" /\ r.ok => r \in results
        /\ calls' \subseteq calls
    BY <2>2, ReplyQuiet
  <2>4. \A t \in Server : curr_term'[t] >= curr_term[t]
    BY <2>1 DEF TypeOK
  <2>5. QED
    BY <2>1, <2>3, <2>4 DEF QuietStep
<1>3. ASSUME \/ RefuseAppendEntries(m) \/ AcceptAppendEntries(m)
             \/ ServeDataTransfer(m) \/ ServeDoneTransfer(m)
      PROVE  QuietStep
  <2>1. FollowTerm(m.dst, m.term) /\ m.term >= curr_term[m.dst] /\ UNCHANGED votes
    BY <1>3 DEF RefuseAppendEntries, AcceptAppendEntries, ServeDataTransfer, ServeDoneTransfer
  <2>2. m.rpc # "request_vote" /\ \E ok, term, match : Reply(m, ok, term, match)
    BY <1>3 DEF RefuseAppendEntries, AcceptAppendEntries, ServeDataTransfer, ServeDoneTransfer
  <2>3. /\ \A r \in results' : r.rpc = "request_vote" /\ r.ok => r \in results
        /\ calls' \subseteq calls
    BY <2>2, ReplyQuiet
  <2>4. QED
    BY <1>1, <2>1, <2>3, FollowTermQuiet DEF QuietStep
<1>4. CASE ServeTimeoutNow(m)
  BY <1>4, TimeoutNowStartsRound, StartsRoundQuiet
<1>5. QED
  BY <1>2, <1>3, <1>4 DEF ServeCall

\* A pre-vote answer either starts an election or is quiet.
LEMMA OnPreVoteQuiet ==
  ASSUME TypeOK, NEW s \in Server, NEW granted, NEW C, on_pre_vote(s, granted, C),
         results' \subseteq results, C \subseteq calls, ~leader_election(s, C)
  PROVE  QuietStep
<1>1. calls' = C /\ UNCHANGED <<curr_term, voted_for, role, votes>>
  BY DEF on_pre_vote, checkout, voteVars, electionVars
<1>2. QED
  BY <1>1, StutterQuiet

\* Of the callbacks on_request_vote, and on_pre_vote when it starts an election, are not quiet.
LEMMA OnResultQuiet ==
  ASSUME TypeOK, NEW r \in results, OnResult(r), ~OnRequestVote(r), ~leader_election(r.src, calls)
  PROVE  QuietStep
<1>1. r.src \in Server /\ r.dst \in Server /\ r.term \in Nat
  BY CallFields
<1>2. CASE OnPreVote(r)
  BY <1>1, <1>2, OnPreVoteQuiet DEF OnPreVote
<1>3. CASE IgnoreAppendEntries(r) \/ TransferRefused(r)
  BY <1>3, StutterQuiet DEF IgnoreAppendEntries, TransferRefused, voteVars, electionVars
<1>4. CASE AppendEntriesSucceeded(r)
  <2>1. CASE Die(r.src)
    BY <1>1, <2>1, DieQuiet
  <2>2. CASE ~Die(r.src)
    BY <1>4, <2>2, StutterQuiet DEF AppendEntriesSucceeded, voteVars, electionVars
  <2>3. QED
    BY <2>1, <2>2
<1>5. CASE StepDownOnResult(r)
  <2>1. /\ step_down(r.src, r.term) /\ r.term > curr_term[r.src]
        /\ UNCHANGED <<votes, voted_for, calls>> /\ results' \subseteq results
    BY <1>5 DEF StepDownOnResult
  <2>2. QED
    BY <1>1, <2>1, StepDownQuiet DEF QuietStep
<1>6. ASSUME AppendEntriesRefused(r) \/ OnDataTransfer(r) \/ OnDoneTransfer(r)
      PROVE  QuietStep
  <2>1. UNCHANGED <<curr_term, voted_for, role, votes>> /\ results' \subseteq results
    BY <1>6 DEF AppendEntriesRefused, OnDataTransfer, OnDoneTransfer, voteVars, electionVars
  <2>2. \A m \in calls' : m.rpc = "request_vote" => m \in calls
    <3>1. CASE OnDataTransfer(r)
      BY <3>1 DEF OnDataTransfer
    <3>2. CASE OnDoneTransfer(r)
      BY <3>2, AppendCallsQuiet DEF OnDoneTransfer
    <3>3. CASE AppendEntriesRefused(r)
      <4>1. CASE Present(r.src, RetryFrom(r))
        BY <3>3, <4>1, AppendCallsQuiet DEF AppendEntriesRefused
      <4>2. CASE ~Present(r.src, RetryFrom(r))
        <5>1. PICK id : calls' = calls \cup {data_transfer_call(r.src, r.dst, id)}
          BY <3>3, <4>2 DEF AppendEntriesRefused
        <5>2. QED
          BY <5>1 DEF data_transfer_call
      <4>3. QED
        BY <4>1, <4>2
    <3>4. QED
      BY <1>6, <3>1, <3>2, <3>3
  <2>3. \A t \in Server : curr_term'[t] >= curr_term[t]
    BY <2>1 DEF TypeOK
  <2>4. QED
    BY <2>1, <2>2, <2>3 DEF QuietStep
<1>7. CASE OnTimeoutNow(r)
  BY <1>7, AnswerTells, TellsQuiet
<1>8. QED
  BY <1>2, <1>3, <1>4, <1>5, <1>6, <1>7 DEF OnResult

\* A failed call is quiet, or completes a pre-vote round with leader_election.
LEMMA FailedQuiet ==
  ASSUME TypeOK, NEW m \in calls \cup results, PreVoteFailed(m) \/ CallFailed(m) \/ RetryTimeoutNow(m),
         ~leader_election(m.src, calls \ {m})
  PROVE  QuietStep
<1>1. CASE PreVoteFailed(m)
  BY <1>1, OnPreVoteQuiet, CallFields DEF PreVoteFailed
<1>2. CASE CallFailed(m)
  BY <1>2, StutterQuiet DEF CallFailed, voteVars, electionVars
<1>3. CASE RetryTimeoutNow(m)
  BY <1>3, RetryTells, TellsQuiet
<1>4. QED
  BY <1>1, <1>2, <1>3

\* Every step is quiet, or serves a request_vote, or counts its answer, or starts an election.
LEMMA StepKinds ==
  ASSUME TypeOK, [Next]_vars
  PROVE  \/ QuietStep
         \/ \E m \in calls : ServeRequestVote(m)
         \/ \E r \in results : OnRequestVote(r)
         \/ \E s \in Server, C \in SUBSET calls : leader_election(s, C) /\ results' \subseteq results
<1>1. CASE UNCHANGED vars
  BY <1>1, StutterQuiet DEF vars, voteVars, electionVars, netVars
<1>2. CASE \E s \in Server : ServerStep(s)
  BY <1>2, ServerStepQuiet
<1>3. CASE \E m \in calls : ServeCall(m)
  BY <1>3, ServeCallQuiet
<1>4. ASSUME NEW r \in results, OnResult(r)
      PROVE  \/ QuietStep
             \/ OnRequestVote(r)
             \/ leader_election(r.src, calls) /\ results' \subseteq results
  <2>1. CASE leader_election(r.src, calls) /\ ~(results' \subseteq results)
    <3>1. QuietStep
      BY <1>4, <2>1 DEF OnResult, OnPreVote, OnRequestVote, IgnoreAppendEntries, AppendEntriesSucceeded,
        Die, AppendEntriesRefused, StepDownOnResult, OnDataTransfer, OnDoneTransfer, TransferRefused,
        OnTimeoutNow
    <3>2. QED
      BY <3>1
  <2>2. QED
    BY <1>4, <2>1, OnResultQuiet
<1>5. ASSUME NEW m \in calls \cup results, PreVoteFailed(m) \/ CallFailed(m) \/ RetryTimeoutNow(m)
      PROVE  \/ QuietStep
             \/ leader_election(m.src, calls \ {m}) /\ results' \subseteq results
  <2>1. results' \subseteq results
    BY <1>5 DEF PreVoteFailed, CallFailed, RetryTimeoutNow
  <2>2. QED
    BY <1>5, <2>1, FailedQuiet
<1>6. \A r \in results : r.src \in Server
  BY CallFields
<1>7. \A m \in calls \cup results : m.src \in Server /\ calls \ {m} \in SUBSET calls
  BY CallFields
<1>8. CASE \E r \in results : OnResult(r)
  BY <1>4, <1>6, <1>8
<1>9. CASE \E m \in calls \cup results : PreVoteFailed(m) \/ CallFailed(m) \/ RetryTimeoutNow(m)
  BY <1>5, <1>7, <1>9
<1>10. QED
  BY <1>1, <1>2, <1>3, <1>8, <1>9 DEF Next

-----------------------------------------------------------------------------
(***************************************************************************)
(* What raft.vote holds.                                                   *)
(***************************************************************************)

\* The effect of request_vote on the voter: the term grows to the candidate's, and within
\* a term only a vote that was not given is given.
LEMMA ServeRequestVoteEffect ==
  ASSUME TypeOK, NEW m \in calls, ServeRequestVote(m)
  PROVE  /\ m.dst \in Server /\ m.src \in Server /\ m.term \in Nat
         /\ \A s \in Server \ {m.dst} : /\ curr_term'[s] = curr_term[s]
                                        /\ voted_for'[s] = voted_for[s]
                                        /\ role'[s] = role[s]
         /\ \/ curr_term'[m.dst] = m.term /\ m.term > curr_term[m.dst] /\ role'[m.dst] = "FOLLOWER"
            \/ curr_term'[m.dst] = curr_term[m.dst] /\ role'[m.dst] = role[m.dst]
         /\ curr_term'[m.dst] = curr_term[m.dst] =>
              \/ voted_for'[m.dst] = voted_for[m.dst]
              \/ voted_for[m.dst] = Nil
         /\ UNCHANGED votes
<1>1. m.dst \in Server /\ m.src \in Server /\ m.term \in Nat
  BY CallFields
<1>2. curr_term[m.dst] \in Nat /\ curr_term \in [Server -> Nat] /\ role \in [Server -> Roles]
      /\ voted_for \in [Server -> Server \cup {Nil}]
  BY <1>1 DEF TypeOK
<1>3. \/ /\ m.term > curr_term[m.dst]
         /\ role' = [role EXCEPT ![m.dst] = "FOLLOWER"]
         /\ curr_term' = [curr_term EXCEPT ![m.dst] = m.term]
      \/ ~(m.term > curr_term[m.dst]) /\ UNCHANGED <<role, curr_term>>
  BY DEF ServeRequestVote, step_down
<1> DEFINE vote == HeldVote(m.dst, m.term)
           granted == m.term >= curr_term[m.dst] /\ vote \in {Nil, m.src} /\ LogPermits(m.dst, m)
           v == IF granted THEN m.src ELSE vote
<1>4. voted_for' = [voted_for EXCEPT ![m.dst] = v] /\ (v = vote \/ vote = Nil)
  BY DEF ServeRequestVote
<1> HIDE DEF v
<1>5. \A s \in Server \ {m.dst} : /\ curr_term'[s] = curr_term[s]
                                  /\ voted_for'[s] = voted_for[s]
                                  /\ role'[s] = role[s]
  BY <1>2, <1>3, <1>4
<1>6. \/ curr_term'[m.dst] = m.term /\ m.term > curr_term[m.dst] /\ role'[m.dst] = "FOLLOWER"
      \/ curr_term'[m.dst] = curr_term[m.dst] /\ role'[m.dst] = role[m.dst]
  BY <1>1, <1>2, <1>3
<1>7. ASSUME curr_term'[m.dst] = curr_term[m.dst]
      PROVE  voted_for'[m.dst] = voted_for[m.dst] \/ voted_for[m.dst] = Nil
  <2>1. ~(m.term > curr_term[m.dst])
    BY <1>1, <1>2, <1>3, <1>7
  <2>2. HeldVote(m.dst, m.term) = voted_for[m.dst]
    BY <2>1 DEF HeldVote
  <2>3. voted_for'[m.dst] = v
    BY <1>1, <1>2, <1>4
  <2>4. QED
    BY <1>4, <2>2, <2>3
<1>8. UNCHANGED votes
  BY DEF ServeRequestVote
<1>9. QED
  BY <1>1, <1>5, <1>6, <1>7, <1>8

\* Terms grow, and a vote given in a term stays, in every step.
LEMMA VoteStep ==
  ASSUME TypeOK, [Next]_vars, NEW s \in Server
  PROVE  /\ curr_term'[s] >= curr_term[s]
         /\ curr_term'[s] = curr_term[s] /\ voted_for[s] # Nil => voted_for'[s] = voted_for[s]
<1>1. curr_term[s] \in Nat /\ curr_term \in [Server -> Nat] /\ voted_for \in [Server -> Server \cup {Nil}]
  BY DEF TypeOK
<1>2. CASE QuietStep
  BY <1>2 DEF QuietStep
<1>3. CASE \E m \in calls : ServeRequestVote(m)
  <2>1. PICK m \in calls : ServeRequestVote(m)
    BY <1>3
  <2>2. QED
    BY <1>1, <2>1, ServeRequestVoteEffect
<1>4. CASE \E r \in results : OnRequestVote(r)
  <2>1. PICK r \in results : OnRequestVote(r)
    BY <1>4
  <2>2. r.src \in Server /\ r.term \in Nat
    BY CallFields
  <2>3. UNCHANGED voted_for
    BY <2>1 DEF OnRequestVote
  <2>4. \/ UNCHANGED curr_term
        \/ r.term > curr_term[r.src] /\ curr_term' = [curr_term EXCEPT ![r.src] = r.term]
    BY <2>1 DEF OnRequestVote, step_down
  <2>5. curr_term'[s] >= curr_term[s]
    BY <1>1, <2>2, <2>4
  <2>6. QED
    BY <2>3, <2>5
<1>5. CASE \E t \in Server, C \in SUBSET calls : leader_election(t, C) /\ results' \subseteq results
  <2>1. PICK t \in Server : /\ curr_term' = [curr_term EXCEPT ![t] = @ + 1]
                            /\ voted_for' = [voted_for EXCEPT ![t] = t]
    BY <1>5 DEF leader_election
  <2>2. QED
    BY <1>1, <2>1
<1>6. QED
  BY <1>2, <1>3, <1>4, <1>5, StepKinds

\* raft.vote keeps its promise in every cluster: terms only grow, and a vote given in a
\* term is neither withdrawn nor given to another.
THEOREM VoteFinal == Spec => VoteIsFinal
<1>1. TypeOK /\ [Next]_vars =>
        [\A s \in Server :
           /\ curr_term'[s] >= curr_term[s]
           /\ curr_term'[s] = curr_term[s] /\ voted_for[s] # Nil => voted_for'[s] = voted_for[s]]_vars
  BY VoteStep
<1>2. QED
  BY <1>1, TypeCorrect, PTL DEF Spec, VoteIsFinal

-----------------------------------------------------------------------------
(***************************************************************************)
(* One leader per term.                                                    *)
(***************************************************************************)
LEMMA GrantedTerm ==
  ASSUME TypeOK, NEW q \in Server, NEW T, NEW c \in Server, Granted(q, T, c)
  PROVE  T \in Terms /\ T \in Nat
<1>1. CASE \E r \in results : r.term = T
  BY <1>1, CallFields DEF Terms
<1>2. CASE curr_term[c] = T
  BY <1>2 DEF Terms, TypeOK
<1>3. QED
  BY <1>1, <1>2 DEF Granted, ResultsOf

\* VoteInv survives a step that grants no vote, if the voters keep theirs.
LEMMA NoNewGrant ==
  ASSUME TypeOK, TypeOK', VoteInv,
         \A s \in Server : /\ curr_term'[s] >= curr_term[s]
                           /\ curr_term'[s] = curr_term[s] /\ voted_for[s] # Nil => voted_for'[s] = voted_for[s],
         \A q, c \in Server : \A T \in Nat : Granted(q, T, c)' => Granted(q, T, c),
         \A m \in calls' : m.rpc = "request_vote" => m.term <= curr_term'[m.src],
         \A r \in results' : r.rpc = "request_vote" /\ r.ok => r.term <= curr_term'[r.src],
         \A s \in Server : role'[s] = "LEADER" => IsMajority(Cardinality(votes'[s]))
  PROVE  VoteInv'
<1>1. ASSUME NEW q \in Server, NEW c \in Server, NEW T \in Terms', Granted(q, T, c)'
      PROVE  /\ T <= curr_term'[q]
             /\ T = curr_term'[q] => voted_for'[q] = c
             /\ \A d \in Server : Granted(q, T, d)' => c = d
  <2>1. T \in Nat
    <3>1. \A r \in results' : r.term \in Nat
      BY DEF TypeOK, Result
    <3>2. \A s \in Server : curr_term'[s] \in Nat
      BY DEF TypeOK
    <3>3. QED
      BY <3>1, <3>2 DEF Terms
  <2>2. Granted(q, T, c) /\ T \in Terms
    BY <1>1, <2>1, GrantedTerm
  <2>3. /\ T <= curr_term[q]
        /\ T = curr_term[q] => voted_for[q] = c
        /\ \A d \in Server : Granted(q, T, d) => c = d
    BY <2>2 DEF VoteInv
  <2>4. curr_term[q] \in Nat /\ curr_term'[q] \in Nat /\ c # Nil
    BY NilAssumption DEF TypeOK
  <2>5. QED
    BY <2>1, <2>3, <2>4
<1>2. QED
  BY <1>1 DEF VoteInv, CallsOf, ResultsOf

\* A quiet step keeps the election invariant: no grant appears and no leader does.
LEMMA QuietKeeps ==
  ASSUME TypeOK, TypeOK', VoteInv, [Next]_vars, QuietStep
  PROVE  VoteInv'
<1>1. ASSUME NEW q \in Server, NEW c \in Server, NEW T \in Nat, Granted(q, T, c)'
      PROVE  Granted(q, T, c)
  BY <1>1 DEF Granted, ResultsOf, QuietStep, Standing
<1>2. ASSUME NEW m \in calls', m.rpc = "request_vote"
      PROVE  m.term <= curr_term'[m.src]
  <2>1. PICK k \in calls : k.rpc = "request_vote" /\ k.src = m.src /\ k.term = m.term
    BY <1>2 DEF QuietStep
  <2>2. k.src \in Server /\ k.term \in Nat /\ k.term <= curr_term[k.src]
    BY <2>1, CallFields DEF VoteInv, CallsOf
  <2>3. curr_term'[k.src] >= curr_term[k.src] /\ curr_term[k.src] \in Nat /\ curr_term'[k.src] \in Nat
    BY <2>2 DEF QuietStep, TypeOK
  <2>4. QED
    BY <2>1, <2>2, <2>3
<1>3. ASSUME NEW r \in results', r.rpc = "request_vote", r.ok
      PROVE  r.term <= curr_term'[r.src]
  <2>1. r \in results
    BY <1>3 DEF QuietStep
  <2>2. r.src \in Server /\ r.term \in Nat /\ r.term <= curr_term[r.src]
    BY <1>3, <2>1, CallFields DEF VoteInv, ResultsOf
  <2>3. curr_term'[r.src] >= curr_term[r.src] /\ curr_term[r.src] \in Nat /\ curr_term'[r.src] \in Nat
    BY <2>2 DEF QuietStep, TypeOK
  <2>4. QED
    BY <2>2, <2>3
<1>4. ASSUME NEW s \in Server, role'[s] = "LEADER"
      PROVE  IsMajority(Cardinality(votes'[s]))
  BY <1>4 DEF QuietStep, Standing, VoteInv
<1>5. QED
  BY <1>1, <1>2, <1>3, <1>4, VoteStep, NoNewGrant

\* An election: the new candidate has its own vote, in a term nobody has voted in for it.
LEMMA ElectionKeeps ==
  ASSUME TypeOK, TypeOK', VoteInv, [Next]_vars,
         NEW s \in Server, NEW C \in SUBSET calls, leader_election(s, C), results' \subseteq results
  PROVE  VoteInv'
<1> DEFINE N == curr_term[s] + 1
<1>1. /\ curr_term \in [Server -> Nat] /\ curr_term[s] \in Nat /\ N \in Nat
      /\ voted_for \in [Server -> Server \cup {Nil}]
      /\ role \in [Server -> Roles] /\ votes \in [Server -> SUBSET Server]
  <2>1. /\ curr_term \in [Server -> Nat] /\ voted_for \in [Server -> Server \cup {Nil}]
        /\ role \in [Server -> Roles] /\ votes \in [Server -> SUBSET Server]
    BY DEF TypeOK
  <2>2. curr_term[s] \in Nat
    BY <2>1
  <2>3. QED
    BY <2>1, <2>2
<1>2. /\ curr_term'[s] = N /\ voted_for'[s] = s /\ votes'[s] = {s} /\ role'[s] = "CANDIDATE"
      /\ \A t \in Server \ {s} : /\ curr_term'[t] = curr_term[t] /\ voted_for'[t] = voted_for[t]
                                 /\ votes'[t] = votes[t] /\ role'[t] = role[t]
  BY <1>1 DEF leader_election
<1>3. ASSUME NEW q \in Server, NEW c \in Server, NEW T \in Nat, Granted(q, T, c)'
      PROVE  Granted(q, T, c) \/ (q = s /\ T = N /\ c = s)
  <2>1. CASE \E x \in ResultsOf("request_vote")' : x.ok /\ x.dst = q /\ x.term = T /\ x.src = c
    BY <2>1 DEF Granted, ResultsOf
  <2>2. CASE role'[c] \in Standing /\ curr_term'[c] = T /\ q \in votes'[c]
    <3>1. CASE c # s
      BY <1>2, <2>2, <3>1 DEF Granted, Standing
    <3>2. CASE c = s
      BY <1>2, <2>2, <3>2
    <3>3. QED
      BY <3>1, <3>2
  <2>3. QED
    BY <1>3, <2>1, <2>2 DEF Granted, Standing
<1>4. ASSUME NEW q \in Server, NEW c \in Server, NEW T \in Nat, Granted(q, T, c)
      PROVE  /\ T <= curr_term[q]
             /\ T = curr_term[q] => voted_for[q] = c
             /\ \A d \in Server : Granted(q, T, d) => c = d
  BY <1>4, GrantedTerm DEF VoteInv
<1>5. ASSUME NEW q \in Server, NEW c \in Server, NEW T \in Terms', Granted(q, T, c)'
      PROVE  /\ T <= curr_term'[q]
             /\ T = curr_term'[q] => voted_for'[q] = c
             /\ \A d \in Server : Granted(q, T, d)' => c = d
  <2>1. T \in Nat
    <3>1. \A r \in results' : r.term \in Nat
      BY DEF TypeOK, Result
    <3>2. \A t \in Server : curr_term'[t] \in Nat
      BY DEF TypeOK
    <3>3. QED
      BY <3>1, <3>2 DEF Terms
  <2>2. ~Granted(s, N, c) /\ \A d \in Server : ~Granted(s, N, d)
    BY <1>1, <1>4
  <2>3. Granted(q, T, c) \/ (q = s /\ T = N /\ c = s)
    BY <1>3, <1>5, <2>1
  <2>4. \A d \in Server : Granted(q, T, d)' => Granted(q, T, d) \/ (q = s /\ T = N /\ d = s)
    BY <1>3, <2>1
  <2>5. CASE q = s /\ T = N
    BY <1>1, <1>2, <2>2, <2>3, <2>4, <2>5
  <2>6. CASE ~(q = s /\ T = N)
    <3>1. Granted(q, T, c) /\ \A d \in Server : Granted(q, T, d)' => c = d
      BY <1>4, <2>1, <2>3, <2>4, <2>6
    <3>2. T <= curr_term[q] /\ (T = curr_term[q] => voted_for[q] = c)
      BY <1>4, <2>1, <3>1
    <3>3. CASE q = s
      BY <1>1, <1>2, <2>1, <3>1, <3>2, <3>3
    <3>4. CASE q # s
      BY <1>2, <3>1, <3>2, <3>4
    <3>5. QED
      BY <3>3, <3>4
  <2>7. QED
    BY <2>5, <2>6
<1>6. ASSUME NEW m \in calls', m.rpc = "request_vote"
      PROVE  m.term <= curr_term'[m.src]
  <2>1. CASE m \in C
    <3>1. m.src \in Server /\ m.term \in Nat /\ m.term <= curr_term[m.src]
      BY <1>6, <2>1, CallFields DEF VoteInv, CallsOf
    <3>2. QED
      BY <1>1, <1>2, <3>1
  <2>2. CASE m \notin C
    <3>1. m.src = s /\ m.term = N
      BY <1>6, <2>2 DEF leader_election, vote_call
    <3>2. QED
      BY <1>1, <1>2, <3>1
  <2>3. QED
    BY <2>1, <2>2
<1>7. ASSUME NEW r \in results', r.rpc = "request_vote", r.ok
      PROVE  r.term <= curr_term'[r.src]
  <2>1. r.src \in Server /\ r.term \in Nat /\ r.term <= curr_term[r.src]
    BY <1>7, CallFields DEF VoteInv, ResultsOf
  <2>2. QED
    BY <1>1, <1>2, <2>1
<1>8. ASSUME NEW t \in Server, role'[t] = "LEADER"
      PROVE  IsMajority(Cardinality(votes'[t]))
  <2>1. t # s
    BY <1>2, <1>8
  <2>2. QED
    BY <1>2, <1>8, <2>1 DEF VoteInv
<1>9. QED
  BY <1>5, <1>6, <1>7, <1>8 DEF VoteInv, CallsOf, ResultsOf

\* on_request_vote touches its candidate only, and counts an answer of the candidate's
\* own term: the answer of an older term is not counted, and none is from a later one.
LEMMA CountEffect ==
  ASSUME TypeOK, VoteInv, NEW r \in results, OnRequestVote(r)
  PROVE  LET s == r.src
             counted == role[s] = "CANDIDATE" /\ r.ok /\ r.term >= curr_term[s]
         IN /\ s \in Server /\ r.dst \in Server /\ r.term \in Nat /\ r.rpc = "request_vote"
            /\ results' \subseteq results /\ \A m \in calls' : m.rpc = "request_vote" => m \in calls
            /\ \A t \in Server \ {s} :
                 role'[t] = role[t] /\ votes'[t] = votes[t] /\ curr_term'[t] = curr_term[t]
            /\ counted => r.term = curr_term[s] /\ Granted(r.dst, curr_term[s], s)
            /\ role'[s] \in Standing =>
                 /\ role[s] \in Standing /\ curr_term'[s] = curr_term[s]
                 /\ votes'[s] = IF counted THEN votes[s] \cup {r.dst} ELSE votes[s]
<1> DEFINE s == r.src
           counted == role[s] = "CANDIDATE" /\ r.ok /\ r.term >= curr_term[s]
<1>1. /\ s \in Server /\ r.dst \in Server /\ r.term \in Nat /\ r.rpc = "request_vote"
      /\ curr_term \in [Server -> Nat] /\ curr_term[s] \in Nat
      /\ role \in [Server -> Roles] /\ votes \in [Server -> SUBSET Server]
  BY CallFields DEF TypeOK, OnRequestVote
<1>2. results' \subseteq results /\ \A m \in calls' : m.rpc = "request_vote" => m \in calls
  <2>1. results' \subseteq results
    BY DEF OnRequestVote
  <2>2. CASE UNCHANGED calls
    BY <2>1, <2>2
  <2>3. CASE ~UNCHANGED calls
    <3>1. step_up(s, results \ {r})
      BY <2>3 DEF OnRequestVote
    <3>2. QED
      BY <2>1, <3>1, AppendCallsQuiet DEF step_up
  <2>4. QED
    BY <2>2, <2>3
<1>3. \A t \in Server \ {s} : role'[t] = role[t] /\ votes'[t] = votes[t] /\ curr_term'[t] = curr_term[t]
  <2>1. \A t \in Server \ {s} : votes'[t] = votes[t]
    BY <1>1 DEF OnRequestVote
  <2>2. \A t \in Server \ {s} : role'[t] = role[t] /\ curr_term'[t] = curr_term[t]
    BY <1>1 DEF OnRequestVote, step_up, step_down
  <2>3. QED
    BY <2>1, <2>2
<1>4. counted => r.term = curr_term[s] /\ Granted(r.dst, curr_term[s], s)
  <2>1. ASSUME counted PROVE r.term = curr_term[s]
    <3>1. r.term <= curr_term[s]
      BY <1>1, <2>1 DEF VoteInv, ResultsOf
    <3>2. QED
      BY <1>1, <2>1, <3>1
  <2>2. QED
    BY <1>1, <2>1 DEF Granted, ResultsOf
<1>5. role'[s] \in Standing =>
        /\ role[s] \in Standing /\ curr_term'[s] = curr_term[s]
        /\ votes'[s] = IF counted THEN votes[s] \cup {r.dst} ELSE votes[s]
  <2>1. votes'[s] = IF counted THEN votes[s] \cup {r.dst} ELSE votes[s]
    BY <1>1 DEF OnRequestVote
  <2>2. role'[s] \in Standing => role[s] \in Standing /\ curr_term'[s] = curr_term[s]
    BY <1>1 DEF OnRequestVote, step_up, step_down, Standing
  <2>3. QED
    BY <2>1, <2>2
<1>6. QED
  BY <1>1, <1>2, <1>3, <1>4, <1>5

\* on_request_vote only moves a granted vote from its answer to the count of its candidate.
LEMMA CountGrants ==
  ASSUME TypeOK, VoteInv, NEW r \in results, OnRequestVote(r),
         NEW q \in Server, NEW c \in Server, NEW T \in Nat, Granted(q, T, c)'
  PROVE  Granted(q, T, c)
<1> DEFINE s == r.src
           counted == role[s] = "CANDIDATE" /\ r.ok /\ r.term >= curr_term[s]
<1>1. CASE \E x \in ResultsOf("request_vote")' : x.ok /\ x.dst = q /\ x.term = T /\ x.src = c
  <2>1. results' \subseteq results
    BY CountEffect
  <2>2. QED
    BY <1>1, <2>1 DEF Granted, ResultsOf
<1>2. CASE role'[c] \in Standing /\ curr_term'[c] = T /\ q \in votes'[c]
  <2>1. CASE c # s
    <3>1. role'[c] = role[c] /\ votes'[c] = votes[c] /\ curr_term'[c] = curr_term[c]
      BY <2>1, CountEffect
    <3>2. QED
      BY <1>2, <3>1 DEF Granted, Standing
  <2>2. CASE c = s
    <3>1. /\ role[s] \in Standing /\ T = curr_term[s]
          /\ q \in IF counted THEN votes[s] \cup {r.dst} ELSE votes[s]
      BY <1>2, <2>2, CountEffect
    <3>2. counted => Granted(r.dst, curr_term[s], s)
      BY CountEffect
    <3> HIDE DEF counted
    <3>3. q \in votes[s] \/ (q = r.dst /\ Granted(r.dst, curr_term[s], s))
      BY <3>1, <3>2
    <3>4. QED
      BY <2>2, <3>1, <3>3 DEF Granted, Standing
  <2>3. QED
    BY <2>1, <2>2
<1>3. QED
  BY <1>1, <1>2 DEF Granted, Standing

\* Counting a vote keeps the election invariant.
LEMMA CountKeeps ==
  ASSUME TypeOK, TypeOK', VoteInv, [Next]_vars, NEW r \in results, OnRequestVote(r)
  PROVE  VoteInv'
<1> DEFINE s == r.src
           counted == role[s] = "CANDIDATE" /\ r.ok /\ r.term >= curr_term[s]
<1>1. /\ s \in Server /\ r.dst \in Server /\ r.term \in Nat /\ r.rpc = "request_vote"
      /\ curr_term \in [Server -> Nat] /\ curr_term[s] \in Nat
      /\ role \in [Server -> Roles] /\ votes \in [Server -> SUBSET Server]
  BY CallFields DEF TypeOK, OnRequestVote
<1>2. results' \subseteq results /\ \A m \in calls' : m.rpc = "request_vote" => m \in calls
  BY CountEffect
<1>3. \A t \in Server : curr_term'[t] >= curr_term[t] /\ curr_term'[t] \in Nat /\ curr_term[t] \in Nat
  BY VoteStep DEF TypeOK
<1>4. \A t \in Server \ {s} : role'[t] = role[t] /\ votes'[t] = votes[t] /\ curr_term'[t] = curr_term[t]
  BY CountEffect
<1>5. role'[s] \in Standing =>
        /\ role[s] \in Standing /\ curr_term'[s] = curr_term[s]
        /\ votes'[s] = IF counted THEN votes[s] \cup {r.dst} ELSE votes[s]
  BY CountEffect
<1>6. \A q, c \in Server : \A T \in Nat : Granted(q, T, c)' => Granted(q, T, c)
  BY CountGrants
<1>7. ASSUME NEW m \in calls', m.rpc = "request_vote"
      PROVE  m.term <= curr_term'[m.src]
  <2>1. m.src \in Server /\ m.term \in Nat /\ m.term <= curr_term[m.src]
    BY <1>2, <1>7, CallFields DEF VoteInv, CallsOf
  <2>2. QED
    BY <1>3, <2>1
<1>8. ASSUME NEW x \in results', x.rpc = "request_vote", x.ok
      PROVE  x.term <= curr_term'[x.src]
  <2>1. x.src \in Server /\ x.term \in Nat /\ x.term <= curr_term[x.src]
    BY <1>2, <1>8, CallFields DEF VoteInv, ResultsOf
  <2>2. QED
    BY <1>3, <2>1
<1>9. ASSUME NEW t \in Server, role'[t] = "LEADER"
       PROVE  IsMajority(Cardinality(votes'[t]))
  <2>1. CASE t # s
    BY <1>4, <1>9, <2>1 DEF VoteInv
  <2>2. CASE t = s
    <3>1. CASE counted /\ IsMajority(Cardinality(votes[s] \cup {r.dst}))
      BY <1>5, <1>9, <2>2, <3>1 DEF Standing
    <3>2. CASE ~(counted /\ IsMajority(Cardinality(votes[s] \cup {r.dst})))
      <4>1. role[s] = "LEADER"
        BY <1>1, <1>9, <2>2, <3>2 DEF OnRequestVote, step_down
      <4>2. votes'[s] = votes[s]
        BY <1>5, <1>9, <2>2, <4>1 DEF Standing
      <4>3. QED
        BY <2>2, <4>1, <4>2, <1>1 DEF VoteInv
    <3>3. QED
      BY <3>1, <3>2
  <2>3. QED
    BY <2>1, <2>2
<1>10. QED
  BY <1>6, <1>7, <1>8, <1>9, VoteStep, NoNewGrant

\* request_vote: a voter that grants a vote in a term has given no other in that term,
\* because it would still stand by it.
LEMMA ServeKeeps ==
  ASSUME TypeOK, TypeOK', VoteInv, [Next]_vars, NEW m \in calls, ServeRequestVote(m)
  PROVE  VoteInv'
<1> DEFINE d == m.dst
           vote == HeldVote(d, m.term)
           granted == m.term >= curr_term[d] /\ vote \in {Nil, m.src} /\ LogPermits(d, m)
           res == [rpc |-> m.rpc, src |-> m.src, dst |-> m.dst, id |-> m.id,
                   ok |-> granted, term |-> curr_term'[d], match_index |-> 0]
<1>1. /\ d \in Server /\ m.src \in Server /\ m.term \in Nat /\ curr_term[d] \in Nat
      /\ m.rpc = "request_vote" /\ m.term <= curr_term[m.src]
      /\ voted_for \in [Server -> Server \cup {Nil}]
  BY CallFields DEF TypeOK, ServeRequestVote, VoteInv, CallsOf
<1>2. /\ \A s \in Server \ {d} : curr_term'[s] = curr_term[s] /\ role'[s] = role[s]
      /\ \/ curr_term'[d] = m.term /\ m.term > curr_term[d] /\ role'[d] = "FOLLOWER"
         \/ curr_term'[d] = curr_term[d] /\ role'[d] = role[d]
      /\ UNCHANGED votes
  BY ServeRequestVoteEffect
<1>3. \A s \in Server : /\ curr_term'[s] \in Nat /\ curr_term[s] \in Nat /\ curr_term'[s] >= curr_term[s]
                        /\ curr_term'[s] = curr_term[s] /\ voted_for[s] # Nil => voted_for'[s] = voted_for[s]
  BY VoteStep DEF TypeOK
<1>4. /\ calls' \subseteq calls
      /\ results' \subseteq results \cup {res}
  BY DEF ServeRequestVote, Reply, Answer
<1>5. granted => /\ curr_term'[d] = m.term /\ voted_for'[d] = m.src
                 /\ curr_term[d] = m.term => voted_for[d] \in {Nil, m.src}
  <2>1. voted_for' = [voted_for EXCEPT ![d] = IF granted THEN m.src ELSE vote]
    BY DEF ServeRequestVote
  <2>2. granted => voted_for'[d] = m.src
    BY <1>1, <2>1
  <2>3. granted => curr_term'[d] = m.term
    <3>1. \/ m.term > curr_term[d] /\ curr_term' = [curr_term EXCEPT ![d] = m.term]
          \/ ~(m.term > curr_term[d]) /\ curr_term' = curr_term
      BY DEF ServeRequestVote, step_down
    <3>2. curr_term \in [Server -> Nat]
      BY DEF TypeOK
    <3>3. QED
      BY <1>1, <3>1, <3>2
  <2>4. curr_term[d] = m.term => vote = voted_for[d]
    BY <1>1 DEF HeldVote
  <2>5. QED
    BY <2>2, <2>3, <2>4
<1>6. res.rpc = "request_vote" /\ res.src = m.src /\ res.dst = d /\ res.ok = granted /\ res.term = curr_term'[d]
  BY <1>1
<1> HIDE DEF res, granted, vote
<1>7. ASSUME NEW q \in Server, NEW c \in Server, NEW T \in Nat, Granted(q, T, c)'
      PROVE  Granted(q, T, c) \/ (granted /\ q = d /\ T = m.term /\ c = m.src)
  <2>1. CASE \E x \in ResultsOf("request_vote")' : x.ok /\ x.dst = q /\ x.term = T /\ x.src = c
    <3>1. PICK x \in results' : x.rpc = "request_vote" /\ x.ok /\ x.dst = q /\ x.term = T /\ x.src = c
      BY <2>1 DEF ResultsOf
    <3>2. CASE x \in results
      BY <3>1, <3>2 DEF Granted, ResultsOf
    <3>3. CASE x = res
      BY <1>5, <1>6, <3>1, <3>3
    <3>4. QED
      BY <1>4, <3>2, <3>3
  <2>2. CASE role'[c] \in Standing /\ curr_term'[c] = T /\ q \in votes'[c]
    <3>1. role[c] \in Standing /\ curr_term[c] = T /\ q \in votes[c]
      BY <1>2, <2>2 DEF Standing
    <3>2. QED
      BY <3>1 DEF Granted, Standing
  <2>3. QED
    BY <1>7, <2>1, <2>2 DEF Granted, Standing
<1>8. ASSUME NEW q \in Server, NEW c \in Server, NEW T \in Nat, Granted(q, T, c)
      PROVE  /\ T <= curr_term[q]
             /\ T = curr_term[q] => voted_for[q] = c
             /\ \A e \in Server : Granted(q, T, e) => c = e
  BY <1>8, GrantedTerm DEF VoteInv
\* A vote that was already given in the term of a new one was given to the same candidate.
<1>9. ASSUME granted, NEW c \in Server, Granted(d, m.term, c)
      PROVE  c = m.src
  <2>1. m.term <= curr_term[d] /\ (m.term = curr_term[d] => voted_for[d] = c)
    BY <1>1, <1>8, <1>9
  <2>2. m.term = curr_term[d]
    BY <1>1, <1>9, <2>1 DEF granted
  <2>3. QED
    BY <1>5, <1>9, <2>1, <2>2, NilAssumption
<1>10. ASSUME NEW q \in Server, NEW c \in Server, NEW T \in Terms', Granted(q, T, c)'
       PROVE  /\ T <= curr_term'[q]
              /\ T = curr_term'[q] => voted_for'[q] = c
              /\ \A e \in Server : Granted(q, T, e)' => c = e
  <2>1. T \in Nat
    <3>1. \A r \in results' : r.term \in Nat
      BY DEF TypeOK, Result
    <3>2. QED
      BY <1>3, <3>1 DEF Terms
  <2>2. Granted(q, T, c) \/ (granted /\ q = d /\ T = m.term /\ c = m.src)
    BY <1>7, <1>10, <2>1
  <2>3. \A e \in Server : Granted(q, T, e)' => Granted(q, T, e) \/ (granted /\ q = d /\ T = m.term /\ e = m.src)
    BY <1>7, <2>1
  <2>4. CASE granted /\ q = d /\ T = m.term
    <3>1. c = m.src /\ \A e \in Server : Granted(q, T, e)' => e = m.src
      BY <1>9, <2>2, <2>3, <2>4
    <3>2. QED
      BY <1>1, <1>5, <2>4, <3>1
  <2>5. CASE ~(granted /\ q = d /\ T = m.term)
    <3>1. Granted(q, T, c) /\ \A e \in Server : Granted(q, T, e)' => c = e
      BY <1>8, <2>1, <2>2, <2>3, <2>5
    <3>2. T <= curr_term[q] /\ (T = curr_term[q] => voted_for[q] = c)
      BY <1>8, <2>1, <3>1
    <3>3. c # Nil
      BY NilAssumption
    <3>4. QED
      BY <1>3, <2>1, <3>1, <3>2, <3>3
  <2>6. QED
    BY <2>4, <2>5
<1>11. ASSUME NEW k \in calls', k.rpc = "request_vote"
       PROVE  k.term <= curr_term'[k.src]
  <2>1. k.src \in Server /\ k.term \in Nat /\ k.term <= curr_term[k.src]
    BY <1>4, <1>11, CallFields DEF VoteInv, CallsOf
  <2>2. QED
    BY <1>3, <2>1
<1>12. ASSUME NEW r \in results', r.rpc = "request_vote", r.ok
       PROVE  r.term <= curr_term'[r.src]
  <2>1. CASE r \in results
    <3>1. r.src \in Server /\ r.term \in Nat /\ r.term <= curr_term[r.src]
      BY <1>12, <2>1, CallFields DEF VoteInv, ResultsOf
    <3>2. QED
      BY <1>3, <3>1
  <2>2. CASE r = res
    <3>1. r.term = m.term /\ r.src = m.src
      BY <1>5, <1>6, <1>12, <2>2
    <3>2. QED
      BY <1>1, <1>3, <3>1
  <2>3. QED
    BY <1>4, <2>1, <2>2
<1>13. ASSUME NEW s \in Server, role'[s] = "LEADER"
       PROVE  IsMajority(Cardinality(votes'[s]))
  <2>1. role[s] = "LEADER" /\ votes'[s] = votes[s]
    BY <1>2, <1>13
  <2>2. QED
    BY <2>1 DEF VoteInv
<1>14. QED
  BY <1>10, <1>11, <1>12, <1>13 DEF VoteInv, CallsOf, ResultsOf

\* VoteInv is an invariant of every cluster.
THEOREM VotesConsistent == Spec => []VoteInv
<1>1. Init => VoteInv
  BY DEF Init, VoteInv, Granted, CallsOf, ResultsOf
<1>2. TypeOK /\ TypeOK' /\ VoteInv /\ [Next]_vars => VoteInv'
  BY StepKinds, QuietKeeps, ServeKeeps, CountKeeps, ElectionKeeps
<1>3. QED
  BY <1>1, <1>2, TypeCorrect, PTL DEF Spec

\* A term has at most one leader in every cluster: two majorities share a voter, whose
\* vote both leaders would have counted.
THEOREM ElectionSafe == Spec => []ElectionSafety
<1>1. ASSUME TypeOK, VoteInv PROVE ElectionSafety
  <2>1. SUFFICES ASSUME NEW s \in Server, NEW t \in Server, role[s] = "LEADER", role[t] = "LEADER",
                        curr_term[s] = curr_term[t]
                 PROVE  s = t
    BY DEF ElectionSafety
  <2>2. /\ votes[s] \subseteq Server /\ votes[t] \subseteq Server
        /\ IsMajority(Cardinality(votes[s])) /\ IsMajority(Cardinality(votes[t]))
    BY <1>1, <2>1 DEF TypeOK, VoteInv
  <2>3. Cardinality(Server) \in Nat /\ Cardinality(votes[s]) \in Nat /\ Cardinality(votes[t]) \in Nat
    BY <2>2, ServerAssumption, FS_CardinalityType, FS_Subset
  <2>4. Cardinality(votes[s]) + Cardinality(votes[t]) > Cardinality(Server)
    BY <2>2, <2>3 DEF IsMajority
  <2>5. PICK q : q \in votes[s] /\ q \in votes[t]
    BY <2>2, <2>4, ServerAssumption, FS_MajoritiesIntersect
  <2>6. q \in Server /\ Granted(q, curr_term[s], s) /\ Granted(q, curr_term[s], t)
    BY <2>1, <2>2, <2>5 DEF Granted
  <2>7. curr_term[s] \in Terms
    BY <2>1 DEF Terms
  <2>8. QED
    BY <1>1, <2>6, <2>7 DEF VoteInv
<1>2. QED
  BY <1>1, TypeCorrect, VotesConsistent, PTL

-----------------------------------------------------------------------------
(***************************************************************************)
(* Pre-vote rounds.  A follower whose timer is off waits for answers, and  *)
(* checkout arms the timer or stands when the last one has come.           *)
(***************************************************************************)
IsPreVote(m) == m.rpc = "pre_vote"

\* The caller of a pre-vote has not died since.
PreVotesLive == \A m \in calls : IsPreVote(m) => m.live

\* No data transfer has been accepted, so that none is being completed.
NoTransferServed ==
  /\ \A m \in calls : m.rpc # "done_transfer"
  /\ \A r \in results : r.rpc = "data_transfer" => ~r.ok

InRound(s) == role[s] = "FOLLOWER" /\ ~election_timer[s]

\* The servers whose answer s waits for.
Waits(s) == {n \in Server : \E m \in calls \cup results : IsPreVote(m) /\ m.src = s /\ m.dst = n}

\* A round is not over, and enough servers are waited for to end it.
RoundsCounted ==
  \A s \in Server : InRound(s) =>
    /\ pre_votes_granted[s] + pre_votes_refused[s] < Cardinality(Server)
    /\ pre_votes_granted[s] + pre_votes_refused[s] + Cardinality(Waits(s)) >= Cardinality(Server)

PreVoteInv == PreVotesLive /\ NoTransferServed /\ RoundsCounted

\* A step that makes no pre-vote, and leaves alone those of a server that stays in its round.
CalmStep ==
  /\ \A m \in calls' : IsPreVote(m) => m \in calls
  /\ \A r \in results' : IsPreVote(r) => r \in results
  /\ \A s \in Server : InRound(s)' =>
       /\ InRound(s)
       /\ pre_votes_granted'[s] = pre_votes_granted[s]
       /\ pre_votes_refused'[s] = pre_votes_refused[s]
       /\ \A m \in calls \cup results : IsPreVote(m) /\ m.src = s => m \in calls' \cup results'

\* Rounds are left alone: nobody enters one, and who is in one keeps its counters.
RoundsLeft ==
  \A s \in Server : InRound(s)' => /\ InRound(s)
                                   /\ pre_votes_granted'[s] = pre_votes_granted[s]
                                   /\ pre_votes_refused'[s] = pre_votes_refused[s]

\* The pre-votes are those of before.
PreVotesKept ==
  /\ \A m : IsPreVote(m) => (m \in calls' <=> m \in calls)
  /\ \A r : IsPreVote(r) => (r \in results' <=> r \in results)

LEMMA KeptIsCalm ==
  ASSUME RoundsLeft, PreVotesKept
  PROVE  CalmStep
BY DEF RoundsLeft, PreVotesKept, CalmStep

\* An answer to another call touches no pre-vote; a transfer that is refused is not accepted.
LEMMA ReplyKeeps ==
  ASSUME NoTransferServed, NEW m \in calls, ~IsPreVote(m), NEW ok \in BOOLEAN, NEW term, NEW match,
         m.rpc = "data_transfer" => ~ok, Reply(m, ok, term, match)
  PROVE  PreVotesKept /\ NoTransferServed'
<1> DEFINE res == [rpc |-> m.rpc, src |-> m.src, dst |-> m.dst, id |-> m.id,
                   ok |-> ok, term |-> term, match_index |-> match]
<1>1. res.rpc = m.rpc /\ res.ok = ok
  OBVIOUS
<1>2. calls' = calls \ {m} /\ (results' = results \cup {res} \/ results' = results)
  BY DEF Reply, Answer
<1> HIDE DEF res
<1>3. PreVotesKept
  BY <1>1, <1>2 DEF PreVotesKept, IsPreVote
<1>4. NoTransferServed'
  BY <1>1, <1>2 DEF NoTransferServed
<1> QED
  BY <1>3, <1>4

\* append_entries makes neither pre-votes nor transfers.
LEMMA AppendToKeeps ==
  ASSUME NEW s, NEW targets, NEW next, NEW R, append_entries_to(s, targets, next, calls, R)
  PROVE  /\ \A m : IsPreVote(m) => (m \in calls' <=> m \in calls)
         /\ \A m \in calls' : m.rpc = "done_transfer" => m \in calls
BY DEF append_entries_to, append_entries_call, IsPreVote

LEMMA FollowTermLeavesRounds ==
  ASSUME TypeOK, NEW d \in Server, NEW term, FollowTerm(d, term),
         election_timer' = [election_timer EXCEPT ![d] = TRUE],
         UNCHANGED <<pre_votes_granted, pre_votes_refused>>
  PROVE  RoundsLeft
BY DEF FollowTerm, RoundsLeft, InRound, TypeOK

LEMMA StepDownLeavesRounds ==
  ASSUME TypeOK, NEW d \in Server, NEW term, step_down(d, term),
         UNCHANGED <<pre_votes_granted, pre_votes_refused>>
  PROVE  RoundsLeft
BY DEF step_down, RoundsLeft, InRound, TypeOK

LEMMA SameLeavesRounds ==
  ASSUME UNCHANGED <<role, election_timer, pre_votes_granted, pre_votes_refused>>
  PROVE  RoundsLeft
BY DEF RoundsLeft, InRound

\* timeout_now calls come and go beside the pre-votes.
LEMMA TellsCalm ==
  ASSUME TypeOK, NoTransferServed, TellsToStand
  PROVE  CalmStep /\ NoTransferServed'
<1>1. UNCHANGED <<role, election_timer, pre_votes_granted, pre_votes_refused>>
  BY DEF TellsToStand, electionVars
<1>2. PreVotesKept
  BY DEF TellsToStand, PreVotesKept, IsPreVote
<1>3. NoTransferServed'
  BY DEF TellsToStand, NoTransferServed
<1>4. QED
  BY <1>1, <1>2, <1>3, SameLeavesRounds, KeptIsCalm

\* A process that dies leaves its round; its pre-votes go with it, those of others stay.
LEMMA DieCalm ==
  ASSUME TypeOK, NoTransferServed, NEW s \in Server, Die(s)
  PROVE  CalmStep /\ NoTransferServed'
<1>1. ASSUME NEW m \in calls' PROVE (m \in calls /\ m.src # s) \/ (~IsPreVote(m) /\ m.rpc # "done_transfer")
  <2>1. CASE m \in calls /\ m.src # s
    BY <2>1
  <2>2. CASE ~(m \in calls /\ m.src # s)
    <3>1. PICK k \in calls : k.rpc # "pre_vote" /\ m = [k EXCEPT !.live = FALSE]
      BY <2>2, <1>1 DEF Die
    <3>2. m.rpc = k.rpc
      <4>1. CASE k \in VoteCall
        BY <3>1, <4>1 DEF VoteCall
      <4>2. CASE k \in AppendCall
        BY <3>1, <4>2 DEF AppendCall
      <4>3. CASE k \in TransferCall
        BY <3>1, <4>3 DEF TransferCall
      <4>4. QED
        BY <4>1, <4>2, <4>3 DEF TypeOK
    <3>3. k.rpc # "done_transfer"
      BY DEF NoTransferServed
    <3>4. QED
      BY <3>1, <3>2, <3>3 DEF IsPreVote
  <2>3. QED
    BY <2>1, <2>2
<1>2. results' = {r \in results : r.src # s}
  BY DEF Die
<1>3. NoTransferServed'
  BY <1>1, <1>2 DEF NoTransferServed
<1>4. ASSUME NEW t \in Server, InRound(t)'
      PROVE  /\ InRound(t) /\ t # s
             /\ pre_votes_granted'[t] = pre_votes_granted[t] /\ pre_votes_refused'[t] = pre_votes_refused[t]
  BY <1>4 DEF Die, InRound, TypeOK
<1>5. ASSUME NEW t \in Server, t # s, NEW m \in calls \cup results, m.src = t
      PROVE  m \in calls' \cup results'
  BY <1>2, <1>5 DEF Die
<1>6. QED
  BY <1>1, <1>2, <1>3, <1>4, <1>5 DEF CalmStep

\* A step of a single server is calm, unless its timer fires.
LEMMA ServerStepCalm ==
  ASSUME TypeOK, NoTransferServed, NEW s \in Server, ServerStep(s), ~ElectionTimeout(s)
  PROVE  CalmStep /\ NoTransferServed'
<1>1. CASE HeartbeatTimeout(s)
  <2>1. UNCHANGED <<role, election_timer, pre_votes_granted, pre_votes_refused, results>>
    BY <1>1 DEF HeartbeatTimeout, electionVars
  <2>2. /\ \A m : IsPreVote(m) => (m \in calls' <=> m \in calls)
        /\ \A m \in calls' : m.rpc = "done_transfer" => m \in calls
    BY <1>1, AppendToKeeps DEF HeartbeatTimeout
  <2>3. PreVotesKept /\ NoTransferServed'
    BY <2>1, <2>2 DEF PreVotesKept, NoTransferServed
  <2>4. QED
    BY <2>1, <2>3, SameLeavesRounds, KeptIsCalm
<1>2. CASE HandleAppend(s)
  <2>1. UNCHANGED <<role, election_timer, pre_votes_granted, pre_votes_refused, results, calls>>
    BY <1>2 DEF HandleAppend, electionVars, netVars
  <2>2. PreVotesKept /\ NoTransferServed'
    BY <2>1 DEF PreVotesKept, NoTransferServed
  <2>3. QED
    BY <2>1, <2>2, SameLeavesRounds, KeptIsCalm
<1>3. CASE ApplyLogCommitted(s)
  <2>1. CASE Die(s)
    BY <2>1, DieCalm
  <2>2. CASE ~Die(s)
    <3>1. UNCHANGED <<role, election_timer, pre_votes_granted, pre_votes_refused, results, calls>>
      BY <1>3, <2>2 DEF ApplyLogCommitted, electionVars, netVars
    <3>2. PreVotesKept /\ NoTransferServed'
      BY <3>1 DEF PreVotesKept, NoTransferServed
    <3>3. QED
      BY <3>1, <3>2, SameLeavesRounds, KeptIsCalm
  <2>3. QED
    BY <2>1, <2>2
<1>4. CASE Restart(s)
  BY <1>4, DieCalm DEF Restart
<1>5. CASE \E n \in Server : TransferLeadership(s, n)
  BY <1>5, TransferTells, TellsCalm
<1>6. QED
  BY <1>1, <1>2, <1>3, <1>4, <1>5 DEF ServerStep

\* A handler other than those of pre_vote and timeout_now is calm as long as no transfer is accepted: who follows a
\* leader or a newer term arms the timer.
LEMMA ServeCallCalm ==
  ASSUME TypeOK, NoTransferServed, NEW m \in calls, ServeCall(m), ~ServePreVote(m), ~ServeDataTransfer(m),
         ~ServeTimeoutNow(m)
  PROVE  CalmStep /\ NoTransferServed'
<1>1. m.dst \in Server /\ m.term \in Nat /\ m.rpc # "done_transfer"
  BY CallFields DEF NoTransferServed
<1>2. CASE RejectAppendEntries(m) \/ RejectTransfer(m)
  <2>1. UNCHANGED <<role, election_timer, pre_votes_granted, pre_votes_refused>>
    BY <1>2 DEF RejectAppendEntries, RejectTransfer, electionVars
  <2>2. ~IsPreVote(m) /\ \E term, match : Reply(m, FALSE, term, match)
    BY <1>2 DEF RejectAppendEntries, RejectTransfer, IsPreVote
  <2>3. PreVotesKept /\ NoTransferServed'
    BY <2>2, ReplyKeeps
  <2>4. QED
    BY <2>1, <2>3, SameLeavesRounds, KeptIsCalm
<1>3. CASE RefuseAppendEntries(m) \/ AcceptAppendEntries(m)
  <2>1. /\ FollowTerm(m.dst, m.term) /\ election_timer' = [election_timer EXCEPT ![m.dst] = TRUE]
        /\ UNCHANGED <<pre_votes_granted, pre_votes_refused>>
    BY <1>3 DEF RefuseAppendEntries, AcceptAppendEntries
  <2>2. m.rpc = "append_entries" /\ \E ok \in BOOLEAN : \E term, match : Reply(m, ok, term, match)
    BY <1>3 DEF RefuseAppendEntries, AcceptAppendEntries
  <2>3. PreVotesKept /\ NoTransferServed'
    BY <2>2, ReplyKeeps DEF IsPreVote
  <2>4. QED
    BY <1>1, <2>1, <2>3, FollowTermLeavesRounds, KeptIsCalm
<1>4. CASE ServeRequestVote(m)
  <2>1. RoundsLeft
    <3>1. UNCHANGED <<pre_votes_granted, pre_votes_refused>>
      BY <1>4 DEF ServeRequestVote
    <3>2. step_down(m.dst, m.term) \/ UNCHANGED <<role, election_timer>>
      BY <1>4 DEF ServeRequestVote
    <3>3. QED
      BY <1>1, <3>1, <3>2, StepDownLeavesRounds, SameLeavesRounds
  <2>2. m.rpc = "request_vote" /\ \E ok \in BOOLEAN : \E term, match : Reply(m, ok, term, match)
    BY <1>4 DEF ServeRequestVote
  <2>3. PreVotesKept /\ NoTransferServed'
    BY <2>2, ReplyKeeps DEF IsPreVote
  <2>4. QED
    BY <2>1, <2>3, KeptIsCalm
<1>5. CASE ServeDoneTransfer(m)
  BY <1>1, <1>5 DEF ServeDoneTransfer
<1>6. QED
  BY <1>2, <1>3, <1>4, <1>5 DEF ServeCall

\* A callback other than that of a pre-vote is calm: who takes office is no follower.
LEMMA OnResultCalm ==
  ASSUME TypeOK, NoTransferServed, NEW r \in results, OnResult(r), ~OnPreVote(r)
  PROVE  CalmStep /\ NoTransferServed'
<1>1. r.src \in Server /\ r.dst \in Server /\ r.term \in Nat
  BY CallFields
<1>2. CASE IgnoreAppendEntries(r) \/ TransferRefused(r)
  <2>1. /\ UNCHANGED <<role, election_timer, pre_votes_granted, pre_votes_refused, calls>>
        /\ results' = results \ {r} /\ ~IsPreVote(r)
    BY <1>2 DEF IgnoreAppendEntries, TransferRefused, electionVars, IsPreVote
  <2>2. PreVotesKept /\ NoTransferServed'
    BY <2>1 DEF PreVotesKept, NoTransferServed
  <2>3. QED
    BY <2>1, <2>2, SameLeavesRounds, KeptIsCalm
<1>3. CASE AppendEntriesSucceeded(r)
  <2>1. CASE Die(r.src)
    BY <1>1, <2>1, DieCalm
  <2>2. CASE ~Die(r.src)
    <3>1. /\ UNCHANGED <<role, election_timer, pre_votes_granted, pre_votes_refused, calls>>
          /\ results' = results \ {r} /\ ~IsPreVote(r)
      BY <1>3, <2>2 DEF AppendEntriesSucceeded, electionVars, IsPreVote
    <3>2. PreVotesKept /\ NoTransferServed'
      BY <3>1 DEF PreVotesKept, NoTransferServed
    <3>3. QED
      BY <3>1, <3>2, SameLeavesRounds, KeptIsCalm
  <2>3. QED
    BY <2>1, <2>2
<1>4. CASE StepDownOnResult(r)
  <2>1. /\ step_down(r.src, r.term) /\ UNCHANGED <<pre_votes_granted, pre_votes_refused, calls>>
        /\ results' = results \ {r} /\ ~IsPreVote(r)
    BY <1>4 DEF StepDownOnResult, IsPreVote
  <2>2. PreVotesKept /\ NoTransferServed'
    BY <2>1 DEF PreVotesKept, NoTransferServed
  <2>3. QED
    BY <1>1, <2>1, <2>2, StepDownLeavesRounds, KeptIsCalm
<1>5. CASE AppendEntriesRefused(r) \/ OnDoneTransfer(r)
  <2>1. /\ UNCHANGED <<role, election_timer, pre_votes_granted, pre_votes_refused>>
        /\ results' = results \ {r} /\ ~IsPreVote(r)
    BY <1>5 DEF AppendEntriesRefused, OnDoneTransfer, electionVars, IsPreVote
  <2>2. /\ \A m : IsPreVote(m) => (m \in calls' <=> m \in calls)
        /\ \A m \in calls' : m.rpc = "done_transfer" => m \in calls
    <3>1. CASE OnDoneTransfer(r)
      BY <3>1, AppendToKeeps DEF OnDoneTransfer
    <3>2. CASE AppendEntriesRefused(r) /\ Present(r.src, RetryFrom(r))
      BY <3>2, AppendToKeeps DEF AppendEntriesRefused
    <3>3. CASE AppendEntriesRefused(r) /\ ~Present(r.src, RetryFrom(r))
      <4>1. PICK id : calls' = calls \cup {data_transfer_call(r.src, r.dst, id)}
        BY <3>3 DEF AppendEntriesRefused
      <4>2. QED
        BY <4>1 DEF data_transfer_call, IsPreVote
    <3>4. QED
      BY <1>5, <3>1, <3>2, <3>3
  <2>3. PreVotesKept /\ NoTransferServed'
    BY <2>1, <2>2 DEF PreVotesKept, NoTransferServed
  <2>4. QED
    BY <2>1, <2>3, SameLeavesRounds, KeptIsCalm
<1>6. CASE OnDataTransfer(r)
  BY <1>6 DEF OnDataTransfer, NoTransferServed
<1>7. CASE OnRequestVote(r)
  <2>1. /\ UNCHANGED <<pre_votes_granted, pre_votes_refused>>
        /\ results' = results \ {r} /\ ~IsPreVote(r)
    BY <1>7 DEF OnRequestVote, IsPreVote
  <2>2. \/ step_up(r.src, results \ {r})
        \/ step_down(r.src, r.term) /\ UNCHANGED calls
        \/ UNCHANGED <<role, election_timer, calls>>
    BY <1>7 DEF OnRequestVote
  <2>3. CASE step_up(r.src, results \ {r})
    <3>1. RoundsLeft
      BY <1>1, <2>1, <2>3 DEF step_up, RoundsLeft, InRound, TypeOK
    <3>2. PreVotesKept /\ NoTransferServed'
      BY <2>1, <2>3, AppendToKeeps DEF step_up, PreVotesKept, NoTransferServed
    <3>3. QED
      BY <3>1, <3>2, KeptIsCalm
  <2>4. CASE ~step_up(r.src, results \ {r})
    <3>1. RoundsLeft
      BY <1>1, <2>1, <2>2, <2>4, StepDownLeavesRounds, SameLeavesRounds
    <3>2. PreVotesKept /\ NoTransferServed'
      BY <2>1, <2>2, <2>4 DEF PreVotesKept, NoTransferServed
    <3>3. QED
      BY <3>1, <3>2, KeptIsCalm
  <2>5. QED
    BY <2>3, <2>4
<1>8. CASE OnTimeoutNow(r)
  BY <1>8, AnswerTells, TellsCalm
<1>9. QED
  BY <1>2, <1>3, <1>4, <1>5, <1>6, <1>7, <1>8 DEF OnResult

\* A calm step keeps the invariant.
LEMMA CalmKeeps ==
  ASSUME PreVoteInv, CalmStep, NoTransferServed'
  PROVE  PreVoteInv'
<1>1. PreVotesLive'
  BY DEF PreVoteInv, PreVotesLive, CalmStep
<1>2. RoundsCounted'
  <2>1. SUFFICES ASSUME NEW s \in Server, InRound(s)'
                 PROVE  /\ pre_votes_granted'[s] + pre_votes_refused'[s] < Cardinality(Server)
                        /\ pre_votes_granted'[s] + pre_votes_refused'[s] + Cardinality(Waits(s)') >= Cardinality(Server)
    BY DEF RoundsCounted
  <2>2. Waits(s)' = Waits(s)
    BY <2>1 DEF CalmStep, Waits
  <2>3. QED
    BY <2>1, <2>2 DEF CalmStep, PreVoteInv, RoundsCounted
<1>3. QED
  BY <1>1, <1>2 DEF PreVoteInv


\* Cardinalities of sets of servers are numbers.
LEMMA WaitsFinite ==
  ASSUME NEW W \in SUBSET Server
  PROVE  /\ IsFiniteSet(W) /\ Cardinality(W) \in Nat
         /\ Cardinality(Server) \in Nat /\ IsFiniteSet(Server)
BY ServerAssumption, FS_Subset, FS_CardinalityType

\* A round begins, over an older one or not: every other server is waited for.
LEMMA RoundKeeps ==
  ASSUME TypeOK, PreVoteInv, NEW s \in Server, StartsRound(s)
  PROVE  PreVoteInv'
<1>1. PreVotesLive'
  BY DEF PreVoteInv, PreVotesLive, StartsRound
<1>2. NoTransferServed'
  BY DEF PreVoteInv, NoTransferServed, StartsRound
<1>3. RoundsCounted'
  <2>1. SUFFICES ASSUME NEW t \in Server, InRound(t)'
                 PROVE  /\ pre_votes_granted'[t] + pre_votes_refused'[t] < Cardinality(Server)
                        /\ pre_votes_granted'[t] + pre_votes_refused'[t] + Cardinality(Waits(t)') >= Cardinality(Server)
    BY DEF RoundsCounted
  <2>2. CASE t = s
    <3>1. Server \ {s} \subseteq Waits(s)' /\ Waits(s)' \in SUBSET Server
      BY DEF Waits, StartsRound, IsPreVote
    <3>2. Cardinality(Server \ {s}) = Cardinality(Server) - 1 /\ Cardinality(Server) \in Nat
      BY ServerAssumption, FS_RemoveElement, FS_CardinalityType
    <3>3. /\ Cardinality(Waits(s)') >= Cardinality(Server \ {s})
          /\ Cardinality(Waits(s)') \in Nat
      BY <3>1, WaitsFinite, FS_Subset
    <3>4. pre_votes_granted'[t] = 1 /\ pre_votes_refused'[t] = 0
      BY <2>2 DEF StartsRound, TypeOK
    <3>5. QED
      BY <2>2, <3>2, <3>3, <3>4, ServerAssumption
  <2>3. CASE t # s
    <3>1. \A m : IsPreVote(m) /\ m.src = t => (m \in calls' \cup results' <=> m \in calls \cup results)
      BY <2>3 DEF StartsRound, IsPreVote
    <3>2. Waits(t)' = Waits(t)
      BY <3>1 DEF Waits
    <3>3. /\ InRound(t)
          /\ pre_votes_granted'[t] = pre_votes_granted[t] /\ pre_votes_refused'[t] = pre_votes_refused[t]
      BY <2>1, <2>3 DEF StartsRound, TypeOK, InRound
    <3>4. QED
      BY <3>2, <3>3 DEF PreVoteInv, RoundsCounted
  <2>4. QED
    BY <2>2, <2>3
<1>4. QED
  BY <1>1, <1>2, <1>3 DEF PreVoteInv

\* A pre-vote is answered: the answer takes the place of the call.
LEMMA ServePreVoteKeeps ==
  ASSUME TypeOK, PreVoteInv, NEW m \in calls, ServePreVote(m)
  PROVE  PreVoteInv'
<1>1. PICK ok, term : ok \in BOOLEAN /\ Reply(m, ok, term, 0)
  BY DEF ServePreVote
<1> DEFINE res == [rpc |-> m.rpc, src |-> m.src, dst |-> m.dst, id |-> m.id,
                   ok |-> ok, term |-> term, match_index |-> 0]
<1>2. IsPreVote(m) /\ m.live
  BY DEF ServePreVote, IsPreVote, PreVoteInv, PreVotesLive
<1>3. calls' = calls \ {m} /\ results' = results \cup {res}
  BY <1>1, <1>2 DEF Reply, Answer
<1>4. IsPreVote(res) /\ res.src = m.src /\ res.dst = m.dst /\ res.rpc = "pre_vote"
  BY <1>2 DEF IsPreVote
<1> HIDE DEF res
<1>5. PreVotesLive'
  BY <1>3 DEF PreVoteInv, PreVotesLive
<1>6. NoTransferServed'
  BY <1>3, <1>4 DEF PreVoteInv, NoTransferServed
<1>7. RoundsCounted'
  <2>1. ASSUME NEW s \in Server PROVE Waits(s)' = Waits(s)
    BY <1>2, <1>3, <1>4 DEF Waits
  <2>2. UNCHANGED <<role, election_timer, pre_votes_granted, pre_votes_refused>>
    BY DEF ServePreVote, electionVars
  <2>3. QED
    BY <2>1, <2>2 DEF PreVoteInv, RoundsCounted, InRound
<1>8. QED
  BY <1>5, <1>6, <1>7 DEF PreVoteInv

\* A pre-vote m comes to its end, with an answer or without one.
PreVoteEnds(m) ==
  /\ IsPreVote(m)
  /\ results' = results \ {m}
  /\ \E granted \in BOOLEAN, C \in SUBSET calls : calls \ {m} \subseteq C /\ on_pre_vote(m.src, granted, C)

\* checkout counts every answer, of whatever round, once: the round goes on while servers
\* are waited for.
LEMMA EndKeeps ==
  ASSUME TypeOK, PreVoteInv, NEW m \in calls \cup results, PreVoteEnds(m)
  PROVE  PreVoteInv'
<1> DEFINE s == m.src
<1>1. s \in Server /\ m.dst \in Server /\ IsPreVote(m) /\ results' = results \ {m}
  BY CallFields DEF PreVoteEnds
<1>2. PICK granted \in BOOLEAN, C \in SUBSET calls : calls \ {m} \subseteq C /\ on_pre_vote(s, granted, C)
  BY DEF PreVoteEnds
<1>3. /\ \A k : IsPreVote(k) => (k \in calls' <=> k \in C)
      /\ \A k \in calls' : k.rpc = "done_transfer" => k \in C
  <2>1. CASE calls' = C
    BY <2>1
  <2>2. CASE leader_election(s, C)
    BY <2>2 DEF leader_election, vote_call, IsPreVote
  <2>3. QED
    BY <1>2, <2>1, <2>2 DEF on_pre_vote, checkout
<1>4. PreVotesLive'
  BY <1>3 DEF PreVoteInv, PreVotesLive
<1>5. NoTransferServed'
  BY <1>1, <1>3 DEF PreVoteInv, NoTransferServed
<1>6. \A k : IsPreVote(k) /\ k # m => (k \in calls' \cup results' <=> k \in calls \cup results)
  BY <1>1, <1>2, <1>3
<1>8. RoundsCounted'
  <2>1. SUFFICES ASSUME NEW t \in Server, InRound(t)'
                 PROVE  /\ pre_votes_granted'[t] + pre_votes_refused'[t] < Cardinality(Server)
                        /\ pre_votes_granted'[t] + pre_votes_refused'[t] + Cardinality(Waits(t)') >= Cardinality(Server)
    BY DEF RoundsCounted
  <2>2. CASE t = s
    <3> DEFINE W == Waits(s)
               V == Waits(s)'
    <3>1. W \ {m.dst} \subseteq V /\ V \in SUBSET Server /\ W \in SUBSET Server /\ m.dst \in W
      BY <1>1, <1>6 DEF Waits
    <3> HIDE DEF W, V
    <3>2. /\ Cardinality(W \ {m.dst}) = Cardinality(W) - 1 /\ Cardinality(W) \in Nat
          /\ Cardinality(Server) \in Nat
      BY <3>1, WaitsFinite, FS_RemoveElement
    <3>3. Cardinality(V) >= Cardinality(W \ {m.dst}) /\ Cardinality(V) \in Nat
      BY <3>1, WaitsFinite, FS_Subset
    <3>4. pre_votes_granted[s] \in Nat /\ pre_votes_refused[s] \in Nat
      BY <1>1 DEF TypeOK
    <3>5. role[s] = "FOLLOWER"
      BY <1>1, <1>2, <2>1, <2>2 DEF on_pre_vote, InRound, electionVars
    <3>6. PICK g \in Nat, f \in Nat : g + f = pre_votes_granted[s] + pre_votes_refused[s] + 1
                                      /\ checkout(s, g, f, C)
      <4>1. \/ checkout(s, pre_votes_granted[s] + 1, pre_votes_refused[s], C)
            \/ checkout(s, pre_votes_granted[s], pre_votes_refused[s] + 1, C)
        BY <1>2, <3>5 DEF on_pre_vote
      <4>2. \A g, f \in Nat : g + f = pre_votes_granted[s] + pre_votes_refused[s] + 1 /\ checkout(s, g, f, C)
                => \E x, y \in Nat : x + y = pre_votes_granted[s] + pre_votes_refused[s] + 1 /\ checkout(s, x, y, C)
        BY Zenon
      <4>3. /\ pre_votes_granted[s] + 1 \in Nat /\ pre_votes_refused[s] + 1 \in Nat
            /\ pre_votes_granted[s] + 1 + pre_votes_refused[s] = pre_votes_granted[s] + pre_votes_refused[s] + 1
            /\ pre_votes_granted[s] + (pre_votes_refused[s] + 1) = pre_votes_granted[s] + pre_votes_refused[s] + 1
        BY <3>4
      <4>4. QED
        BY <3>4, <4>1, <4>3, Zenon
    <3>7. ~leader_election(s, C)
      BY <1>1, <2>1, <2>2 DEF leader_election, InRound, TypeOK
    <3>8. /\ election_timer' = [election_timer EXCEPT ![s] = @ \/ RoundOver(g, f)]
          /\ UNCHANGED role
      BY <3>6, <3>7 DEF checkout
    <3>9. pre_votes_granted'[s] = g /\ pre_votes_refused'[s] = f
      BY <1>1, <3>6 DEF checkout, TypeOK
    <3>10. InRound(s) /\ ~RoundOver(g, f)
      BY <1>1, <2>1, <2>2, <3>5, <3>8 DEF InRound, TypeOK
    <3>11. /\ pre_votes_granted[s] + pre_votes_refused[s] < Cardinality(Server)
           /\ pre_votes_granted[s] + pre_votes_refused[s] + Cardinality(W) >= Cardinality(Server)
      BY <1>1, <3>10 DEF PreVoteInv, RoundsCounted, W
    <3>12. g + f < Cardinality(Server) /\ g + f + Cardinality(V) >= Cardinality(Server)
      BY <3>2, <3>3, <3>4, <3>6, <3>10, <3>11 DEF RoundOver
    <3>13. QED
      BY <2>2, <3>9, <3>12 DEF V
  <2>3. CASE t # s
    <3>1. Waits(t)' = Waits(t)
      BY <1>1, <1>6, <2>3 DEF Waits
    <3>2. /\ InRound(t)
          /\ pre_votes_granted'[t] = pre_votes_granted[t] /\ pre_votes_refused'[t] = pre_votes_refused[t]
      BY ZenonT(40), <1>1, <1>2, <2>1, <2>3 DEF on_pre_vote, checkout, leader_election, TypeOK, InRound, electionVars
    <3>3. QED
      BY <3>1, <3>2 DEF PreVoteInv, RoundsCounted
  <2>4. QED
    BY <2>2, <2>3
<1>9. QED
  BY <1>4, <1>5, <1>8 DEF PreVoteInv

\* The transfer of a database to a server, which switches its timer off.
TransferServed == \E m \in calls : ServeDataTransfer(m)

LEMMA PreVoteStep ==
  ASSUME TypeOK, PreVoteInv, Next, ~TransferServed
  PROVE  PreVoteInv'
<1>1. NoTransferServed
  BY DEF PreVoteInv
<1>2. ASSUME NEW s \in Server, ServerStep(s) PROVE PreVoteInv'
  BY <1>1, <1>2, ServerStepCalm, CalmKeeps, TimeoutStartsRound, RoundKeeps
<1>3. ASSUME NEW m \in calls, ServeCall(m) PROVE PreVoteInv'
  BY <1>1, <1>3, ServeCallCalm, CalmKeeps, ServePreVoteKeeps, TimeoutNowStartsRound, RoundKeeps DEF TransferServed
<1>4. ASSUME NEW r \in results, OnResult(r) PROVE PreVoteInv'
  <2>1. CASE OnPreVote(r)
    <3>1. IsPreVote(r) /\ r.ok \in BOOLEAN
      BY <2>1, CallFields DEF OnPreVote, IsPreVote
    <3>3. PreVoteEnds(r)
      BY <2>1, <3>1 DEF OnPreVote, PreVoteEnds
    <3>4. QED
      BY <1>4, <3>3, EndKeeps
  <2>2. CASE ~OnPreVote(r)
    BY <1>1, <1>4, <2>2, OnResultCalm, CalmKeeps
  <2>3. QED
    BY <2>1, <2>2
<1>5. ASSUME NEW m \in calls \cup results, PreVoteFailed(m) PROVE PreVoteInv'
  BY <1>5, EndKeeps DEF PreVoteFailed, PreVoteEnds, IsPreVote
<1>6. ASSUME NEW m \in calls \cup results, CallFailed(m) PROVE PreVoteInv'
  <2>1. /\ UNCHANGED <<role, election_timer, pre_votes_granted, pre_votes_refused>> /\ ~IsPreVote(m)
        /\ calls' = calls \ {m} /\ results' = results \ {m}
    BY <1>6 DEF CallFailed, electionVars, IsPreVote
  <2>2. PreVotesKept /\ NoTransferServed'
    BY <1>1, <2>1 DEF PreVotesKept, NoTransferServed
  <2>3. QED
    BY <2>1, <2>2, SameLeavesRounds, KeptIsCalm, CalmKeeps
<1>7. ASSUME NEW m \in calls \cup results, RetryTimeoutNow(m) PROVE PreVoteInv'
  BY <1>1, <1>7, RetryTells, TellsCalm, CalmKeeps
<1>8. QED
  BY <1>2, <1>3, <1>4, <1>5, <1>6, <1>7 DEF Next

\* In every cluster and with any losses, deaths, late answers and rounds that timeout_now
\* starts over open ones, a follower never stays without a timer and without a round that will
\* arm it: only data_transfer, which leaves the timer off until done_transfer, can bring that
\* about.
THEOREM ElectionAlwaysPending ==
  Spec /\ [][~TransferServed]_vars => []ElectionPending
<1>1. Init => PreVoteInv
  BY DEF Init, PreVoteInv, PreVotesLive, NoTransferServed, RoundsCounted, InRound
<1>2. TypeOK /\ PreVoteInv /\ [Next]_vars /\ [~TransferServed]_vars => PreVoteInv'
  <2>1. ASSUME TypeOK, PreVoteInv, UNCHANGED vars PROVE PreVoteInv'
    <3>1. UNCHANGED <<role, election_timer, pre_votes_granted, pre_votes_refused, results, calls>>
      BY <2>1 DEF vars, electionVars, netVars
    <3>2. PreVotesKept /\ NoTransferServed'
      BY <2>1, <3>1 DEF PreVotesKept, NoTransferServed, PreVoteInv
    <3>3. QED
      BY <2>1, <3>1, <3>2, SameLeavesRounds, KeptIsCalm, CalmKeeps
  <2>2. QED
    BY <2>1, PreVoteStep
<1>3. ASSUME PreVoteInv PROVE ElectionPending
  <2>1. ASSUME NEW s \in Server PROVE Awaited(s) = Waits(s)
    BY DEF Awaited, Waits, CallsOf, ResultsOf, IsPreVote
  <2>2. QED
    BY <1>3, <2>1 DEF PreVoteInv, RoundsCounted, ElectionPending, InRound
<1>4. QED
  BY <1>1, <1>2, <1>3, TypeCorrect, PTL DEF Spec

=============================================================================
