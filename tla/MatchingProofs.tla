--------------------------- MODULE MatchingProofs ---------------------------
(***************************************************************************)
(* Logs match, for every cluster that does not compact its logs and every  *)
(* bound: the inductive step of LogInv, and what follows from it.  In a    *)
(* cluster of two, what is committed is stored by both servers.            *)
(***************************************************************************)
EXTENDS LogProofs

-----------------------------------------------------------------------------
(***************************************************************************)
(* Who may still be elected.                                               *)
(***************************************************************************)
LEMMA MoreIsMajority ==
  ASSUME NEW S \in SUBSET Server, NEW U \in SUBSET Server, S \subseteq U, IsMajority(Cardinality(S))
  PROVE  IsMajority(Cardinality(U))
<1>1. IsFiniteSet(U) /\ IsFiniteSet(S)
  BY ServerAssumption, FS_Subset
<1>2. Cardinality(S) <= Cardinality(U)
  BY <1>1, FS_Subset
<1>3. Cardinality(S) \in Nat /\ Cardinality(U) \in Nat /\ Cardinality(Server) \in Nat
  BY <1>1, ServerAssumption, FS_CardinalityType
<1>4. QED
  BY <1>2, <1>3 DEF IsMajority

\* A vote that is on record after a step, in a term the voter has left, was on record before it.
LEMMA GrantsArePresent ==
  ASSUME TypeOK, TypeOK', VoteInv, [Next]_vars, NEW q \in Server, NEW c \in Server, NEW T \in Nat,
         Granted(q, T, c)', T # curr_term'[q]
  PROVE  Granted(q, T, c)
<1>1. CASE QuietStep
  BY <1>1 DEF Granted, ResultsOf, QuietStep, Standing
<1>2. ASSUME NEW m \in calls, ServeRequestVote(m)
      PROVE  Granted(q, T, c)
  <2>1. /\ m.dst \in Server
        /\ \A s \in Server : role'[s] \in Standing => role'[s] = role[s] /\ curr_term'[s] = curr_term[s]
        /\ UNCHANGED votes
    BY <1>2, ServeRequestVoteEffect DEF Standing
  <2>2. \A r \in results' : r \in results \/ (r.dst = m.dst /\ r.term = curr_term'[m.dst])
    BY <1>2 DEF ServeRequestVote, Reply, Answer
  <2>3. CASE \E x \in ResultsOf("request_vote")' : x.ok /\ x.dst = q /\ x.term = T /\ x.src = c
    BY <2>2, <2>3 DEF Granted, ResultsOf
  <2>4. CASE role'[c] \in Standing /\ curr_term'[c] = T /\ q \in votes'[c]
    BY <2>1, <2>4 DEF Granted, Standing
  <2>5. QED
    BY <2>3, <2>4 DEF Granted, Standing
<1>3. ASSUME NEW r \in results, OnRequestVote(r)
      PROVE  Granted(q, T, c)
  BY <1>3, CountGrants
<1>4. ASSUME NEW s \in Server, NEW C \in SUBSET calls, leader_election(s, C), results' \subseteq results
      PROVE  Granted(q, T, c)
  <2>1. /\ curr_term \in [Server -> Nat] /\ role \in [Server -> Roles] /\ votes \in [Server -> SUBSET Server]
    BY DEF TypeOK
  <2>2. votes'[s] = {s} /\ \A t \in Server \ {s} : /\ curr_term'[t] = curr_term[t]
                                                   /\ votes'[t] = votes[t] /\ role'[t] = role[t]
    BY <1>4, <2>1 DEF leader_election
  <2>3. CASE \E x \in ResultsOf("request_vote")' : x.ok /\ x.dst = q /\ x.term = T /\ x.src = c
    BY <1>4, <2>3 DEF Granted, ResultsOf
  <2>4. CASE role'[c] \in Standing /\ curr_term'[c] = T /\ q \in votes'[c]
    <3>1. c # s
      BY <2>2, <2>4
    <3>2. QED
      BY <2>2, <2>4, <3>1 DEF Granted, Standing
  <2>5. QED
    BY <2>3, <2>4 DEF Granted, Standing
<1>5. QED
  BY <1>1, <1>2, <1>3, <1>4, StepKinds

\* Nobody becomes able to vote for a candidate in a term it could not vote in.
LEMMA CanVoteShrinks ==
  ASSUME TypeOK, TypeOK', VoteInv, VoteInv', [Next]_vars,
         NEW q \in Server, NEW d \in Server, NEW T \in Nat, CanVote(q, T, d)'
  PROVE  CanVote(q, T, d)
<1>1. /\ curr_term[q] \in Nat /\ curr_term'[q] \in Nat
      /\ curr_term'[q] >= curr_term[q]
      /\ curr_term'[q] = curr_term[q] /\ voted_for[q] # Nil => voted_for'[q] = voted_for[q]
  BY VoteStep DEF TypeOK
<1>2. CASE curr_term'[q] < T
  BY <1>1, <1>2 DEF CanVote
<1>3. CASE curr_term'[q] = T /\ voted_for'[q] \in {Nil, d}
  BY <1>1, <1>3 DEF CanVote
<1>4. CASE Granted(q, T, d)'
  <2>1. T = curr_term'[q] => voted_for'[q] = d
    <3>1. T \in Terms'
      BY <1>4 DEF Granted, Terms, ResultsOf
    <3>2. QED
      BY <1>4, <3>1 DEF VoteInv
  <2>2. CASE T = curr_term'[q]
    BY <1>3, <2>1, <2>2
  <2>3. CASE T # curr_term'[q]
    BY <1>4, <2>3, GrantsArePresent DEF CanVote
  <2>4. QED
    BY <2>2, <2>3
<1>5. QED
  BY <1>2, <1>3, <1>4 DEF CanVote

\* How a server comes to be a candidate or leader: an election gives it a new term, and a
\* leader was one or was elected by those who voted for it.
LEMMA RoleStep ==
  ASSUME TypeOK, TypeOK', VoteInv, [Next]_vars, NEW s \in Server
  PROVE  /\ role'[s] = "CANDIDATE" /\ curr_term'[s] = curr_term[s] => role[s] = "CANDIDATE"
         /\ role'[s] = "LEADER" =>
              /\ curr_term'[s] = curr_term[s]
              /\ role[s] = "LEADER" \/ (role[s] = "CANDIDATE" /\ MayLead(s, curr_term[s]))
<1> DEFINE Goal == /\ role'[s] = "CANDIDATE" /\ curr_term'[s] = curr_term[s] => role[s] = "CANDIDATE"
                   /\ role'[s] = "LEADER" =>
                        /\ curr_term'[s] = curr_term[s]
                        /\ role[s] = "LEADER" \/ (role[s] = "CANDIDATE" /\ MayLead(s, curr_term[s]))
<1>1. CASE QuietStep
  BY <1>1 DEF QuietStep, Standing
<1>2. ASSUME NEW m \in calls, ServeRequestVote(m)
      PROVE  Goal
  BY <1>2, ServeRequestVoteEffect
<1>3. ASSUME NEW t \in Server, NEW C \in SUBSET calls, leader_election(t, C)
      PROVE  Goal
  <2>1. /\ curr_term \in [Server -> Nat] /\ role \in [Server -> Roles] /\ curr_term[t] \in Nat
    BY DEF TypeOK
  <2>2. curr_term'[t] = curr_term[t] + 1 /\ role'[t] = "CANDIDATE"
    BY <1>3, <2>1 DEF leader_election
  <2>3. s # t => curr_term'[s] = curr_term[s] /\ role'[s] = role[s]
    BY <1>3, <2>1 DEF leader_election
  <2>4. CASE s = t
    BY <2>1, <2>2, <2>4
  <2>5. QED
    BY <2>3, <2>4
<1>4. ASSUME NEW r \in results, OnRequestVote(r)
      PROVE  Goal
  <2>1. /\ r.src \in Server /\ r.dst \in Server /\ r.rpc = "request_vote" /\ r.term \in Nat
        /\ role \in [Server -> Roles] /\ curr_term \in [Server -> Nat] /\ curr_term[s] \in Nat
        /\ votes \in [Server -> SUBSET Server]
    BY <1>4, CallFields DEF TypeOK, OnRequestVote
  <2>2. CASE s # r.src
    <3>1. role'[s] = role[s] /\ curr_term'[s] = curr_term[s]
      BY <1>4, <2>1, <2>2 DEF OnRequestVote, step_up, step_down
    <3>2. QED
      BY <3>1
  <2>3. CASE s = r.src
    <3> DEFINE won == /\ role[s] = "CANDIDATE" /\ r.ok /\ r.term >= curr_term[s]
                      /\ IsMajority(Cardinality(votes[s] \cup {r.dst}))
    <3>1. CASE ~won
      <4>1. \/ UNCHANGED <<role, curr_term>>
            \/ role' = [role EXCEPT ![s] = "FOLLOWER"]
        BY <1>4, <2>3, <3>1 DEF OnRequestVote, step_down
      <4>2. role'[s] = "FOLLOWER" \/ UNCHANGED <<role, curr_term>>
        BY <2>1, <4>1
      <4>3. QED
        BY <4>2
    <3>2. CASE won
      <4>1. role'[s] = "LEADER" /\ UNCHANGED curr_term
        BY <1>4, <2>1, <2>3, <3>2 DEF OnRequestVote, step_up
      <4>2. r.term = curr_term[s]
        <5>1. r.term <= curr_term[s]
          BY <2>1, <2>3, <3>2 DEF VoteInv, ResultsOf
        <5>2. QED
          BY <2>1, <3>2, <5>1
      <4>3. \A q \in votes[s] \cup {r.dst} : Granted(q, curr_term[s], s)
        BY <2>1, <2>3, <3>2, <4>2 DEF Granted, ResultsOf
      <4>4. votes[s] \cup {r.dst} \subseteq {q \in Server : CanVote(q, curr_term[s], s)}
        BY <2>1, <4>3 DEF CanVote
      <4>5. IsMajority(Cardinality({q \in Server : CanVote(q, curr_term[s], s)}))
        BY <2>1, <3>2, <4>4, MoreIsMajority
      <4>6. QED
        BY <3>2, <4>1, <4>5 DEF MayLead
    <3>3. QED
      BY <3>1, <3>2
  <2>4. QED
    BY <2>2, <2>3
<1>5. QED
  BY <1>1, <1>2, <1>3, <1>4, StepKinds

\* Who cannot become leader of a term never can again.
LEMMA MayLeadShrinks ==
  ASSUME TypeOK, TypeOK', VoteInv, VoteInv', [Next]_vars,
         NEW d \in Server, NEW T \in Nat, MayLead(d, T)'
  PROVE  MayLead(d, T)
<1>1. /\ curr_term'[d] < T \/ (curr_term'[d] = T /\ role'[d] = "CANDIDATE")
      /\ IsMajority(Cardinality({q \in Server : CanVote(q, T, d)'}))
  BY DEF MayLead
<1>2. curr_term[d] < T \/ (curr_term[d] = T /\ role[d] = "CANDIDATE")
  <2>1. curr_term[d] \in Nat /\ curr_term'[d] \in Nat /\ curr_term'[d] >= curr_term[d]
    BY VoteStep DEF TypeOK
  <2>2. role'[d] = "CANDIDATE" /\ curr_term'[d] = curr_term[d] => role[d] = "CANDIDATE"
    BY RoleStep
  <2>3. QED
    BY <1>1, <2>1, <2>2
<1>3. {q \in Server : CanVote(q, T, d)'} \subseteq {q \in Server : CanVote(q, T, d)}
  BY CanVoteShrinks
<1>4. IsMajority(Cardinality({q \in Server : CanVote(q, T, d)}))
  BY <1>1, <1>3, MoreIsMajority
<1>5. QED
  BY <1>2, <1>4 DEF MayLead

\* The term of a leader is decided: its majority has voted.
LEMMA LeaderDecides ==
  ASSUME TypeOK, VoteInv, NEW s \in Server, role[s] = "LEADER", NEW d \in Server
  PROVE  ~MayLead(d, curr_term[s])
<1> DEFINE T == curr_term[s]
           Voters == {q \in Server : CanVote(q, T, d)}
<1>1. SUFFICES ASSUME MayLead(d, T) PROVE FALSE
  OBVIOUS
<1>2. /\ votes[s] \in SUBSET Server /\ Voters \in SUBSET Server
      /\ IsMajority(Cardinality(votes[s])) /\ IsMajority(Cardinality(Voters))
  BY <1>1 DEF TypeOK, VoteInv, MayLead
<1> HIDE DEF Voters
<1>3. Cardinality(Server) \in Nat /\ Cardinality(votes[s]) \in Nat /\ Cardinality(Voters) \in Nat
  BY <1>2, ServerAssumption, FS_CardinalityType, FS_Subset
<1>4. Cardinality(votes[s]) + Cardinality(Voters) > Cardinality(Server)
  BY <1>2, <1>3 DEF IsMajority
<1>5. PICK q : q \in votes[s] /\ q \in Voters
  BY <1>2, <1>4, ServerAssumption, FS_MajoritiesIntersect
<1>6. q \in Server /\ Granted(q, T, s) /\ CanVote(q, T, d)
  BY <1>2, <1>5 DEF Granted, Voters
<1>7. /\ T <= curr_term[q] /\ (T = curr_term[q] => voted_for[q] = s)
      /\ \A c \in Server : Granted(q, T, c) => s = c
  BY <1>6 DEF VoteInv, Terms
<1>8. T \in Nat /\ curr_term[q] \in Nat /\ s # Nil
  BY <1>6, NilAssumption DEF TypeOK
<1>9. s = d
  BY <1>6, <1>7, <1>8 DEF CanVote
<1>10. QED
  BY <1>1, <1>8, <1>9 DEF MayLead

-----------------------------------------------------------------------------
(***************************************************************************)
(* A client's append, and what a step adds to the links.                   *)
(***************************************************************************)
LEMMA LastEntryOfRun ==
  ASSUME TypeOK, RunsOfEntries, ConfigEntries, NEW s \in Server
  PROVE  last_entry_index(s) = Len(log[s])
<1>1. /\ log[s] \in Seq(LogEntry) /\ last_index[s] = 0 /\ Len(log[s]) \in Nat
      /\ \A k \in 1..Len(log[s]) : log[s][k].index = k
  BY LogRun
<1>2. CASE log[s] = <<>>
  BY <1>1, <1>2 DEF last_entry_index
<1>3. CASE log[s] # <<>>
  <2>1. Len(log[s]) \in 1..Len(log[s])
    BY <1>1, <1>3, EmptySeq
  <2>2. QED
    BY <1>1, <1>3, <2>1 DEF last_entry_index
<1>4. QED
  BY <1>2, <1>3

\* What a leader says of the entry it appends.
LeaderLink(s) ==
  [index |-> Len(log[s]) + 1, term |-> curr_term[s], prev |-> TermAt(log[s], Len(log[s]))]

LEMMA HandleAppendRuns ==
  ASSUME TypeOK, RunsOfEntries, ConfigEntries, NEW s \in Server, HandleAppend(s)
  PROVE  /\ UNCHANGED <<last_index, last_term>>
         /\ \A t \in Server \ {s} : log'[t] = log[t]
         /\ log'[s] \in Seq(LogEntry) /\ Len(log'[s]) = Len(log[s]) + 1
         /\ \A k \in 1..Len(log'[s]) : log'[s][k].index = k /\ ConfigOfTerm(log'[s][k])
         /\ LinksOf(0, 0, log'[s]) \subseteq Links \cup {LeaderLink(s)}
<1> DEFINE lg == log[s]
           new == log'[s]
           n == Len(lg)
           e == [index |-> n + 1, term |-> curr_term[s], cfg |-> FALSE]
<1>1. /\ lg \in Seq(LogEntry) /\ n \in Nat
      /\ \A k \in 1..n : lg[k].index = k /\ ConfigOfTerm(lg[k])
  BY LogRun
<1>2. curr_term[s] \in Nat /\ curr_term[s] > 1
  BY DEF TypeOK, ConfigEntries, HandleAppend
<1>3. e \in LogEntry /\ e.index = n + 1 /\ e.term = curr_term[s] /\ ConfigOfTerm(e)
  BY <1>1, <1>2 DEF LogEntry, ConfigOfTerm
<1>4. /\ UNCHANGED <<last_index, last_term>> /\ \A t \in Server \ {s} : log'[t] = log[t]
      /\ new = Append(lg, e)
  BY LastEntryOfRun DEF HandleAppend, TypeOK
<1> HIDE DEF e
<1>5. /\ new \in Seq(LogEntry) /\ Len(new) = n + 1
      /\ \A k \in 1..n : new[k] = lg[k]
      /\ new[n + 1] = e
  BY <1>1, <1>3, <1>4, AppendProperties
<1> HIDE DEF new
<1>6. ASSUME NEW k \in 1..Len(new) PROVE new[k].index = k /\ ConfigOfTerm(new[k])
  <2>1. CASE k = n + 1
    BY <1>3, <1>5, <2>1
  <2>2. CASE k # n + 1
    <3>1. k \in 1..n
      BY <1>1, <1>5, <2>2
    <3>2. QED
      BY <1>1, <1>5, <3>1
  <2>3. QED
    BY <2>1, <2>2
<1>7. LinksOf(0, 0, lg) \subseteq Links
  BY LinksIff
<1>8. ASSUME NEW x \in LinksOf(0, 0, new) PROVE x \in LinksOf(0, 0, lg) \cup {LeaderLink(s)}
  <2>1. PICK k \in 1..Len(new) :
          x = [index |-> 0 + k, term |-> new[k].term, prev |-> IF k = 1 THEN 0 ELSE new[k - 1].term]
    BY <1>5, <1>8 DEF LinksOf
  <2>2. CASE k = n + 1
    <3>1. (IF k = 1 THEN 0 ELSE new[k - 1].term) = TermAt(lg, n)
      <4>1. CASE n = 0
        BY <2>2, <4>1 DEF TermAt
      <4>2. CASE n # 0
        <5>1. k # 1 /\ k - 1 = n /\ n \in 1..n
          BY <1>1, <2>2, <4>2
        <5>2. QED
          BY <1>5, <4>2, <5>1 DEF TermAt
      <4>3. QED
        BY <4>1, <4>2
    <3>2. new[k].term = curr_term[s] /\ 0 + k = n + 1
      BY <1>1, <1>3, <1>5, <2>2
    <3>3. QED
      BY <2>1, <3>1, <3>2 DEF LeaderLink
  <2>3. CASE k # n + 1
    <3>1. k \in 1..n
      BY <1>1, <1>5, <2>3
    <3>2. new[k].term = lg[k].term
      BY <1>5, <3>1
    <3>3. (IF k = 1 THEN 0 ELSE new[k - 1].term) = (IF k = 1 THEN 0 ELSE lg[k - 1].term)
      <4>1. k # 1 => k - 1 \in 1..n
        BY <1>1, <3>1
      <4>2. QED
        BY <1>5, <4>1
    <3>4. QED
      BY <1>1, <2>1, <3>1, <3>2, <3>3, LinkIn
  <2>4. QED
    BY <2>2, <2>3
<1>9. QED
  BY <1>4, <1>5, <1>6, <1>7, <1>8 DEF new

\* Logs and calls stay runs of entries, with configuration entries of the first term.
LEMMA RunsKept ==
  ASSUME TypeOK, TypeOK', RunsOfEntries, ConfigEntries, ~log_compaction_enabled, [Next]_vars
  PROVE  /\ RunsOfEntries'
         /\ \A s \in Server : \A k \in DOMAIN log'[s] : ConfigOfTerm(log'[s][k])
         /\ \A m \in calls' : m.rpc = "append_entries" =>
              \A k \in DOMAIN m.entries : ConfigOfTerm(m.entries[k])
<1>1. ASSUME NEW m \in calls', m.rpc = "append_entries"
      PROVE  \A k \in DOMAIN m.entries : /\ m.entries[k].index = m.prev_log_index + k
                                         /\ ConfigOfTerm(m.entries[k])
  <2>1. Fits(m)
    BY <1>1, LogKinds
  <2>2. m.entries \in Seq(LogEntry)
    BY <2>1 DEF Fits, AppendCall
  <2>3. QED
    BY <2>1, <2>2 DEF Fits
<1>2. ASSUME NEW s \in Server
      PROVE  /\ last_index'[s] = 0 /\ last_term'[s] = 0
             /\ \A k \in 1..Len(log'[s]) : log'[s][k].index = k /\ ConfigOfTerm(log'[s][k])
  <2>1. /\ last_index[s] = 0 /\ last_term[s] = 0
        /\ \A k \in 1..Len(log[s]) : log[s][k].index = k /\ ConfigOfTerm(log[s][k])
    BY LogRun
  <2>2. CASE UNCHANGED logVars
    BY <2>1, <2>2 DEF logVars
  <2>3. ASSUME NEW t \in Server, HandleAppend(t)
        PROVE  /\ last_index'[s] = 0 /\ last_term'[s] = 0
               /\ \A k \in 1..Len(log'[s]) : log'[s][k].index = k /\ ConfigOfTerm(log'[s][k])
    <3>1. CASE s = t
      BY <2>1, <2>3, <3>1, HandleAppendRuns
    <3>2. CASE s # t
      <4>1. UNCHANGED <<last_index, last_term>> /\ log'[s] = log[s]
        BY <2>3, <3>2, HandleAppendRuns
      <4>2. QED
        BY <2>1, <4>1
    <3>3. QED
      BY <3>1, <3>2
  <2>4. ASSUME NEW m \in calls, AcceptAppendEntries(m)
        PROVE  /\ last_index'[s] = 0 /\ last_term'[s] = 0
               /\ \A k \in 1..Len(log'[s]) : log'[s][k].index = k /\ ConfigOfTerm(log'[s][k])
    <3>1. CASE s = m.dst
      BY <2>1, <2>4, <3>1, AcceptRuns
    <3>2. CASE s # m.dst
      <4>1. UNCHANGED <<last_index, last_term>> /\ log'[s] = log[s]
        BY <2>4, <3>2, AcceptRuns
      <4>2. QED
        BY <2>1, <4>1
    <3>3. QED
      BY <3>1, <3>2
  <2>5. QED
    BY <2>2, <2>3, <2>4, LogKinds
<1>3. \A s \in Server : log'[s] \in Seq(LogEntry)
  BY DEF TypeOK
<1>4. \A s \in Server : DOMAIN log'[s] = 1..Len(log'[s])
  BY <1>3
<1>5. QED
  BY <1>1, <1>2, <1>4 DEF RunsOfEntries, CallsOf

\* A step adds to the links at most what a leader says of the entry it appends.
LEMMA LinksGrow ==
  ASSUME TypeOK, TypeOK', RunsOfEntries, ConfigEntries, ~log_compaction_enabled, [Next]_vars,
         NEW x \in Links'
  PROVE  x \in Links \/ \E s \in Server : HandleAppend(s) /\ x = LeaderLink(s)
<1>1. \/ \E s \in Server : x \in LinksOf(0, 0, log'[s])
      \/ \E m \in calls' : /\ m.rpc = "append_entries"
                           /\ x \in LinksOf(m.prev_log_index, m.prev_log_term, m.entries)
  BY LinksIffPrime
<1>2. ASSUME NEW m \in calls', m.rpc = "append_entries",
             x \in LinksOf(m.prev_log_index, m.prev_log_term, m.entries)
      PROVE  x \in Links
  <2>1. Fits(m)
    BY <1>2, LogKinds
  <2>2. QED
    BY <1>2, <2>1 DEF Fits
<1>3. ASSUME NEW s \in Server, x \in LinksOf(0, 0, log'[s])
      PROVE  x \in Links \/ (HandleAppend(s) /\ x = LeaderLink(s))
  <2>1. CASE log'[s] = log[s]
    BY <1>3, <2>1, LinksIff
  <2>2. CASE log'[s] # log[s]
    <3>1. CASE UNCHANGED logVars
      BY <2>2, <3>1 DEF logVars
    <3>2. ASSUME NEW t \in Server, HandleAppend(t)
          PROVE  x \in Links \/ (HandleAppend(s) /\ x = LeaderLink(s))
      <4>1. t = s
        BY <2>2, <3>2, HandleAppendRuns
      <4>2. LinksOf(0, 0, log'[s]) \subseteq Links \cup {LeaderLink(s)}
        BY <3>2, <4>1, HandleAppendRuns
      <4>3. QED
        BY <1>3, <3>2, <4>1, <4>2
    <3>3. ASSUME NEW m \in calls, AcceptAppendEntries(m)
          PROVE  x \in Links
      <4>1. m.dst = s
        BY <2>2, <3>3, AcceptRuns
      <4>2. QED
        BY <1>3, <3>3, <4>1, AcceptRuns
    <3>4. QED
      BY <3>1, <3>2, <3>3, LogKinds
  <2>3. QED
    BY <2>1, <2>2
<1>4. QED
  BY <1>1, <1>2, <1>3

-----------------------------------------------------------------------------
(***************************************************************************)
(* Logs match.                                                             *)
(***************************************************************************)
LEMMA LinkTypes ==
  ASSUME TypeOK, NEW x \in Links
  PROVE  x.index \in Nat /\ x.term \in Nat
<1>1. ASSUME NEW base \in Nat, NEW bt, NEW es \in Seq(LogEntry), x \in LinksOf(base, bt, es)
      PROVE  x.index \in Nat /\ x.term \in Nat
  <2>1. PICK k \in 1..Len(es) : x.index = base + k /\ x.term = es[k].term
    BY <1>1, LinkOut
  <2>2. es[k] \in LogEntry
    BY <1>1, ElementOfSeq
  <2>3. QED
    BY <1>1, <2>1, <2>2 DEF LogEntry
<1>2. ASSUME NEW s \in Server, x \in LinksOf(0, 0, log[s])
      PROVE  x.index \in Nat /\ x.term \in Nat
  BY <1>1, <1>2 DEF TypeOK
<1>3. ASSUME NEW m \in calls, m.rpc = "append_entries",
             x \in LinksOf(m.prev_log_index, m.prev_log_term, m.entries)
      PROVE  x.index \in Nat /\ x.term \in Nat
  <2>1. m.entries \in Seq(LogEntry) /\ m.prev_log_index \in Nat
    BY <1>3, AppendCalls DEF AppendCall
  <2>2. QED
    BY <1>1, <1>3, <2>1
<1>4. QED
  BY <1>2, <1>3, LinksIff

\* A candidate or leader has left the first term, in which the configurations are.
LEMMA LateTermsKept ==
  ASSUME TypeOK, TypeOK', VoteInv, ConfigEntries, [Next]_vars, NEW s \in Server
  PROVE  curr_term'[s] >= 1 /\ (role'[s] # "FOLLOWER" => curr_term'[s] > 1)
<1>1. /\ curr_term[s] \in Nat /\ curr_term'[s] \in Nat /\ curr_term'[s] >= curr_term[s]
      /\ curr_term[s] >= 1 /\ (role[s] # "FOLLOWER" => curr_term[s] > 1)
      /\ role'[s] \in {"LEADER", "CANDIDATE", "FOLLOWER"}
  BY VoteStep DEF TypeOK, ConfigEntries, Roles
<1>2. /\ role'[s] = "CANDIDATE" /\ curr_term'[s] = curr_term[s] => role[s] = "CANDIDATE"
      /\ role'[s] = "LEADER" => curr_term'[s] = curr_term[s] /\ role[s] \in {"LEADER", "CANDIDATE"}
  BY RoleStep
<1>3. QED
  BY <1>1, <1>2

\* The inductive step: the one new link that there can be is of the leader's term and of
\* an index its log did not reach.
LEMMA LogInvStep ==
  ASSUME TypeOK, TypeOK', VoteInv, VoteInv', ElectionSafety, LogInv, ~log_compaction_enabled,
         [Next]_vars
  PROVE  LogInv'
<1>1. RunsOfEntries /\ ConfigEntries /\ LinksAgree /\ LinksDecided /\ LeaderHasLinks
  BY DEF LogInv
<1>2. RunsOfEntries' /\ ConfigEntries'
  <2>1. \A s \in Server : curr_term'[s] >= 1 /\ (role'[s] # "FOLLOWER" => curr_term'[s] > 1)
    BY <1>1, LateTermsKept
  <2>2. QED
    BY <1>1, <2>1, RunsKept DEF ConfigEntries, ConfigOfTerm, CallsOf
<1>3. \A x \in Links' : x \in Links \/ \E s \in Server : HandleAppend(s) /\ x = LeaderLink(s)
  BY <1>1, LinksGrow
<1>4. ASSUME NEW s \in Server, HandleAppend(s)
      PROVE  /\ role[s] = "LEADER" /\ Len(log[s]) \in Nat /\ curr_term[s] \in Nat
             /\ LeaderLink(s).index = Len(log[s]) + 1 /\ LeaderLink(s).term = curr_term[s]
             /\ UNCHANGED <<role, curr_term>>
             /\ Len(log'[s]) = Len(log[s]) + 1
  <2>1. role[s] = "LEADER" /\ UNCHANGED <<role, curr_term>>
    BY <1>4 DEF HandleAppend, voteVars, electionVars
  <2>2. Len(log[s]) \in Nat /\ curr_term[s] \in Nat
    BY DEF TypeOK
  <2>3. QED
    BY <1>1, <1>4, <2>1, <2>2, HandleAppendRuns DEF LeaderLink
\* No entry of a leader's term is where the leader puts its next one.
<1>5. ASSUME NEW s \in Server, HandleAppend(s), NEW y \in Links, y.index = LeaderLink(s).index,
             y.term = LeaderLink(s).term
      PROVE  FALSE
  <2>1. y.index <= Len(log[s])
    BY <1>1, <1>4, <1>5 DEF LeaderHasLinks
  <2>2. QED
    BY <1>4, <1>5, <2>1
<1>6. LinksAgree'
  <2>1. SUFFICES ASSUME NEW x \in Links', NEW y \in Links', x.index = y.index, x.term = y.term
                 PROVE  x.prev = y.prev
    BY DEF LinksAgree
  <2>2. CASE x \in Links /\ y \in Links
    BY <1>1, <2>1, <2>2 DEF LinksAgree
  <2>3. ASSUME NEW s \in Server, HandleAppend(s), x = LeaderLink(s) \/ y = LeaderLink(s),
               x \in Links \/ y \in Links
        PROVE  FALSE
    BY <1>5, <2>1, <2>3
  <2>4. ASSUME NEW s \in Server, NEW t \in Server, HandleAppend(s), HandleAppend(t),
               x = LeaderLink(s), y = LeaderLink(t)
        PROVE  x.prev = y.prev
    <3>1. s = t
      BY <1>4, <2>1, <2>4 DEF ElectionSafety
    <3>2. QED
      BY <2>4, <3>1
  <2>5. QED
    BY <1>3, <2>2, <2>3, <2>4
<1>7. LinksDecided'
  <2>1. SUFFICES ASSUME NEW x \in Links', NEW d \in Server, MayLead(d, x.term)' PROVE FALSE
    BY DEF LinksDecided
  <2>2. CASE x \in Links
    BY <1>1, <2>1, <2>2, LinkTypes, MayLeadShrinks DEF LinksDecided
  <2>3. ASSUME NEW s \in Server, HandleAppend(s), x = LeaderLink(s)
        PROVE  FALSE
    BY <1>4, <2>1, <2>3, LeaderDecides, MayLeadShrinks
  <2>4. QED
    BY <1>3, <2>2, <2>3
<1>8. LeaderHasLinks'
  <2>1. SUFFICES ASSUME NEW s \in Server, role'[s] = "LEADER", NEW x \in Links', x.term = curr_term'[s]
                 PROVE  x.index <= Len(log'[s])
    BY DEF LeaderHasLinks
  <2>2. curr_term'[s] = curr_term[s] /\ (role[s] = "LEADER" \/ MayLead(s, curr_term[s]))
    BY <2>1, RoleStep
  <2>3. curr_term[s] \in Nat /\ Len(log[s]) \in Nat /\ Len(log'[s]) \in Nat
    <3>1. curr_term[s] \in Nat /\ log[s] \in Seq(LogEntry) /\ log'[s] \in Seq(LogEntry)
      BY DEF TypeOK
    <3>2. QED
      BY <3>1
  <2>4. CASE x \in Links /\ role[s] = "LEADER"
    <3>1. x.index <= Len(log[s]) /\ x.index \in Nat
      BY <1>1, <2>1, <2>2, <2>4, LinkTypes DEF LeaderHasLinks
    <3>2. Len(log'[s]) >= Len(log[s])
      <4>1. log'[s] = log[s] \/ HandleAppend(s)
        BY <2>1, LogChanges
      <4>2. CASE HandleAppend(s)
        BY <1>4, <2>3, <4>2
      <4>3. CASE log'[s] = log[s]
        BY <2>3, <4>3
      <4>4. QED
        BY <4>1, <4>2, <4>3
    <3>3. QED
      BY <2>3, <3>1, <3>2
  <2>5. CASE x \in Links /\ MayLead(s, curr_term[s])
    BY <1>1, <2>1, <2>2, <2>5 DEF LinksDecided
  <2>6. ASSUME NEW t \in Server, HandleAppend(t), x = LeaderLink(t)
        PROVE  x.index <= Len(log'[s])
    <3>1. s = t
      <4>1. role[t] = "LEADER" /\ role[s] = "LEADER" /\ curr_term[s] = curr_term[t]
        BY <1>4, <2>1, <2>6
      <4>2. QED
        BY <4>1 DEF ElectionSafety
    <3>2. QED
      BY <1>4, <2>3, <2>6, <3>1
  <2>7. QED
    BY <1>3, <2>2, <2>4, <2>5, <2>6
<1>9. QED
  BY <1>2, <1>6, <1>7, <1>8 DEF LogInv

\* The reloaded cluster: every server has the same configurations, all of the first term.
LEMMA LogInvInit == Init => LogInv
<1>1. SUFFICES ASSUME Init PROVE LogInv
  OBVIOUS
<1> DEFINE N == Cardinality(Server)
           Config(i) == [index |-> i, term |-> 1, cfg |-> TRUE]
<1>2. N \in Nat
  BY ServerAssumption, FS_CardinalityType
<1>3. \A s \in Server : /\ last_index[s] = 0 /\ last_term[s] = 0
                        /\ role[s] = "FOLLOWER" /\ curr_term[s] = 1
  BY <1>1 DEF Init
<1>4. \A s \in Server : log[s] = [i \in 1..N |-> Config(i)]
  BY <1>1 DEF Init
<1>5. \A i : Config(i).index = i /\ Config(i).term = 1 /\ ConfigOfTerm(Config(i))
  BY Zenon DEF ConfigOfTerm
<1>6. calls = {}
  BY <1>1 DEF Init
<1> HIDE DEF Config
<1>7. \A s \in Server : DOMAIN log[s] = 1..N /\ \A k \in 1..N : log[s][k] = Config(k)
  BY <1>4
<1>8. ASSUME NEW x \in Links
      PROVE  x.term = 1 /\ x.prev = IF x.index = 1 THEN 0 ELSE 1
  <2>1. PICK s \in Server : x \in LinksOf(0, 0, log[s])
    BY <1>6, <1>8, LinksIff
  <2>2. PICK k \in 1..N : x = [index |-> 0 + k, term |-> log[s][k].term,
                               prev |-> IF k = 1 THEN 0 ELSE log[s][k - 1].term]
    BY <1>7, <2>1 DEF LinksOf
  <2>3. log[s][k].term = 1 /\ (k # 1 => log[s][k - 1].term = 1)
    <3>1. k # 1 => k - 1 \in 1..N
      BY <1>2
    <3>2. QED
      BY <1>5, <1>7, <3>1
  <2>4. x.index = k /\ x.term = log[s][k].term /\ x.prev = IF k = 1 THEN 0 ELSE log[s][k - 1].term
    BY <1>2, <2>2
  <2>5. QED
    BY <2>3, <2>4
<1>9. RunsOfEntries
  BY <1>3, <1>5, <1>6, <1>7 DEF RunsOfEntries, CallsOf
<1>10. ConfigEntries
  <2>1. \A s \in Server : \A k \in DOMAIN log[s] : ConfigOfTerm(log[s][k])
    BY <1>5, <1>7
  <2>2. \A s \in Server : curr_term[s] >= 1 /\ (role[s] # "FOLLOWER" => curr_term[s] > 1)
    BY <1>3
  <2>3. QED
    BY <1>6, <2>1, <2>2 DEF ConfigEntries, ConfigOfTerm, CallsOf
<1>11. LinksAgree
  BY <1>8 DEF LinksAgree
<1>12. LinksDecided
  <2>1. ASSUME NEW d \in Server, MayLead(d, 1) PROVE FALSE
    BY <1>3, <2>1 DEF MayLead
  <2>2. QED
    BY <1>8, <2>1 DEF LinksDecided
<1>13. LeaderHasLinks
  BY <1>3 DEF LeaderHasLinks
<1>14. QED
  BY <1>9, <1>10, <1>11, <1>12, <1>13 DEF LogInv

\* Without compaction LogInv is an invariant of every cluster: an entry exists only in a
\* term whose election is over, and only where its leader has one.
THEOREM LogsConsistent ==
  ASSUME ~log_compaction_enabled
  PROVE  Spec => []LogInv
<1>1. Init => LogInv
  BY LogInvInit
<1>2. TypeOK /\ TypeOK' /\ VoteInv /\ VoteInv' /\ ElectionSafety /\ LogInv /\ [Next]_vars => LogInv'
  BY LogInvStep
<1>3. QED
  BY <1>1, <1>2, TypeCorrect, VotesConsistent, ElectionSafe, PTL DEF Spec

\* Without compaction operator[] finds for an index the entry that has it.
THEOREM LogsContiguous ==
  ASSUME ~log_compaction_enabled
  PROVE  Spec => []LogContiguous
<1>1. ASSUME TypeOK, LogInv PROVE LogContiguous
  <2>1. SUFFICES ASSUME NEW s \in Server, NEW k \in DOMAIN log[s]
                 PROVE  log[s][k].index = last_index[s] + k
    BY DEF LogContiguous
  <2>2. log[s][k].index = k /\ last_index[s] = 0
    BY <1>1 DEF LogInv, RunsOfEntries
  <2>3. log[s] \in Seq(LogEntry) /\ k \in Nat
    BY <1>1 DEF TypeOK
  <2>4. QED
    BY <2>2, <2>3
<1>2. QED
  BY <1>1, TypeCorrect, LogsConsistent, PTL

\* Of the entries there are, index and term tell which one it is.
LEMMA SameEntry ==
  ASSUME NEW a \in LogEntry, NEW b \in LogEntry, ConfigOfTerm(a), ConfigOfTerm(b),
         a.index = b.index, a.term = b.term
  PROVE  a = b
<1>1. a.cfg \in BOOLEAN /\ b.cfg \in BOOLEAN
  BY DEF LogEntry
<1>2. (a.cfg <=> a.term = 1) /\ (b.cfg <=> b.term = 1)
  BY DEF ConfigOfTerm
<1>3. a.cfg = b.cfg
  <2>1. CASE a.term = 1
    <3>1. a.cfg = TRUE /\ b.cfg = TRUE
      BY <1>1, <1>2, <2>1
    <3>2. QED
      BY <3>1
  <2>2. CASE a.term # 1
    <3>1. a.cfg = FALSE /\ b.cfg = FALSE
      BY <1>1, <1>2, <2>2
    <3>2. QED
      BY <3>1
  <2>3. QED
    BY <2>1, <2>2
<1>4. QED
  BY <1>3 DEF LogEntry

\* Without compaction two logs with an entry of the same index and term agree on the entry
\* before it, and so on all of them.
THEOREM LogsMatch ==
  ASSUME ~log_compaction_enabled
  PROVE  Spec => []LogMatching
<1>1. ASSUME TypeOK, LogInv PROVE LogMatching
  <2>1. SUFFICES ASSUME NEW s \in Server, NEW t \in Server, NEW i \in Indices(s) \cap Indices(t),
                        EntryAt(s, i).term = EntryAt(t, i).term, i - 1 \in Indices(s) \cap Indices(t)
                 PROVE  EntryAt(s, i - 1) = EntryAt(t, i - 1)
    BY DEF LogMatching
  <2>2. \A u \in Server : /\ log[u] \in Seq(LogEntry) /\ last_index[u] = 0 /\ Len(log[u]) \in Nat
                          /\ \A k \in 1..Len(log[u]) : log[u][k].index = k /\ ConfigOfTerm(log[u][k])
    BY <1>1, LogRun DEF LogInv
  <2>3. i \in 1..Len(log[s]) /\ i \in 1..Len(log[t]) /\ i - 1 \in 1..Len(log[s]) /\ i - 1 \in 1..Len(log[t])
    <3>1. ASSUME NEW u \in Server, NEW j \in Indices(u) PROVE j \in 1..Len(log[u])
      <4>1. PICK k \in DOMAIN log[u] : j = log[u][k].index
        BY <3>1 DEF Indices
      <4>2. k \in 1..Len(log[u])
        BY <2>2, <4>1
      <4>3. QED
        BY <2>2, <4>1, <4>2
    <3>2. QED
      BY <2>1, <3>1
  <2>4. i # 0 /\ i - 1 # 0 /\ i # 1 /\ \A u \in Server : i - last_index[u] = i /\ (i - 1) - last_index[u] = i - 1
    BY <2>2, <2>3
  <2>5. /\ EntryAt(s, i) = log[s][i] /\ EntryAt(t, i) = log[t][i]
        /\ EntryAt(s, i - 1) = log[s][i - 1] /\ EntryAt(t, i - 1) = log[t][i - 1]
    BY <2>4 DEF EntryAt
  <2>6. \A u \in Server : i \in 1..Len(log[u]) =>
          \E x \in Links : x.index = i /\ x.term = log[u][i].term /\ x.prev = log[u][i - 1].term
    <3>1. SUFFICES ASSUME NEW u \in Server, i \in 1..Len(log[u])
                   PROVE  \E x \in Links : /\ x.index = i /\ x.term = log[u][i].term
                                           /\ x.prev = log[u][i - 1].term
      OBVIOUS
    <3> DEFINE x == [index |-> 0 + i, term |-> log[u][i].term,
                     prev |-> IF i = 1 THEN 0 ELSE log[u][i - 1].term]
    <3>2. x \in LinksOf(0, 0, log[u])
      BY <2>2, <3>1, LinkIn
    <3>3. x \in Links
      BY <3>2, LinksIff
    <3>4. x.index = i /\ x.term = log[u][i].term /\ x.prev = log[u][i - 1].term
      BY <2>3, <2>4
    <3>5. QED
      BY <3>3, <3>4
  <2>7. log[s][i - 1].term = log[t][i - 1].term
    BY <1>1, <2>1, <2>3, <2>5, <2>6 DEF LogInv, LinksAgree
  <2>8. /\ log[s][i - 1] \in LogEntry /\ log[t][i - 1] \in LogEntry
        /\ log[s][i - 1].index = log[t][i - 1].index
    BY <2>2, <2>3
  <2>9. log[s][i - 1] = log[t][i - 1]
    BY SMTT(30), <2>2, <2>3, <2>7, <2>8, SameEntry
  <2>10. QED
    BY <2>5, <2>9
<1>2. QED
  BY <1>1, TypeCorrect, LogsConsistent, PTL

-----------------------------------------------------------------------------
(***************************************************************************)
(* Commitment in a cluster of two.  Both servers elect a leader, so that   *)
(* its log is never the shorter one and no entry is ever replaced: a log   *)
(* is a beginning of the other.                                            *)
(***************************************************************************)

\* Every server has an entry at index i, as far as indices are positions.
OnAll(i) == \A q \in Server : i <= Len(log[q])

\* Logs say the same as far as both go.
LogsComparable ==
  \A s, d \in Server : \A k \in 1..Len(log[s]) : k <= Len(log[d]) => log[s][k] = log[d][k]

\* A call carries entries its caller has and a leader_commit that both have.
FromLog(m) ==
  /\ m.src \in Server /\ m.prev_log_index \in Nat /\ Len(m.entries) \in Nat /\ m.leader_commit \in Nat
  /\ m.prev_log_index + Len(m.entries) <= Len(log[m.src])
  /\ \A k \in 1..Len(m.entries) : m.entries[k] = log[m.src][m.prev_log_index + k]
  /\ OnAll(m.leader_commit)

CallsFromLog == \A m \in calls : m.rpc = "append_entries" => FromLog(m)

\* What is counted as stored or committed is stored, and only what is committed is applied.
MatchesStored ==
  /\ \A r \in results : r.rpc = "append_entries" /\ r.ok => r.match_index <= Len(log[r.dst])
  /\ \A s \in Server : \A n \in Server \ {s} : OnAll(match_index[s][n])
  /\ \A s \in Server : OnAll(commit_index[s]) /\ last_applied[s] <= commit_index[s]

\* No voter is ahead of the server it voted for, and no request promises more than the log has.
VotersBehind ==
  /\ \A s, q \in Server : role[s] \in Standing /\ Granted(q, curr_term[s], s) => Len(log[q]) <= Len(log[s])
  /\ \A m \in calls : m.rpc = "request_vote" /\ m.term = curr_term[m.src] /\ role[m.src] \in Standing =>
       m.last_log_index <= Len(log[m.src])

PairInv == LogsComparable /\ CallsFromLog /\ MatchesStored /\ VotersBehind

\* Entries are added to logs and none is replaced.
LogsOnlyGrow ==
  \A s \in Server : /\ Len(log[s]) \in Nat /\ Len(log'[s]) \in Nat /\ Len(log[s]) <= Len(log'[s])
                    /\ \A k \in 1..Len(log[s]) : log'[s][k] = log[s][k]

\* A leader of two has both votes, and so the longer log.
LEMMA LeaderLongest ==
  ASSUME TypeOK, VoteInv, Cardinality(Server) = 2, NEW s \in Server, role[s] = "LEADER"
  PROVE  /\ \A q \in Server : Granted(q, curr_term[s], s)
         /\ VotersBehind => \A q \in Server : Len(log[q]) <= Len(log[s])
<1>1. votes[s] \subseteq Server /\ IsMajority(Cardinality(votes[s]))
  BY DEF TypeOK, VoteInv
<1>2. /\ Cardinality(votes[s]) \in Nat /\ Cardinality(votes[s]) <= 2
      /\ Cardinality(Server) = Cardinality(votes[s]) => Server = votes[s]
  BY <1>1, ServerAssumption, FS_Subset, FS_CardinalityType
<1>3. Cardinality(votes[s]) > 1
  BY <1>1 DEF IsMajority
<1>4. votes[s] = Server
  BY <1>2, <1>3
<1>5. \A q \in Server : Granted(q, curr_term[s], s)
  BY <1>4 DEF Granted
<1>6. QED
  BY <1>5 DEF VotersBehind, Standing

\* There is no third server.
LEMMA NoThird ==
  ASSUME Cardinality(Server) = 2, NEW a \in Server, NEW b \in Server, a # b, NEW c \in Server
  PROVE  c = a \/ c = b
<1>1. IsFiniteSet({a}) /\ Cardinality({a}) = 1
  BY FS_Singleton
<1>2. Cardinality({a} \cup {b}) = 2
  BY <1>1, FS_AddElement
<1>3. {a} \cup {b} = Server
  BY <1>2, ServerAssumption, FS_Subset
<1>4. QED
  BY <1>3

\* What a server puts into a call it has in its log.
LEMMA MadeFromLog ==
  ASSUME TypeOK, RunsOfEntries, ConfigEntries, NEW s \in Server, NEW n \in Server, NEW next \in Nat \ {0}, NEW id
  PROVE  LET m == append_entries_call(s, n, next, id)
         IN /\ m.prev_log_index \in Nat /\ Len(m.entries) \in Nat
            /\ m.prev_log_index + Len(m.entries) <= Len(log[s])
            /\ \A k \in 1..Len(m.entries) : m.entries[k] = log[s][m.prev_log_index + k]
            /\ m.src = s /\ m.leader_commit = commit_index[s]
<1> DEFINE lg == log[s]
           pi == PrevLog(s, next - 1).index
           es == EntriesFrom(s, next)
<1>1. /\ lg \in Seq(LogEntry) /\ last_index[s] = 0 /\ Len(lg) \in Nat
      /\ \A k \in 1..Len(lg) : lg[k].index = k
  BY LogRun
<1>2. pi \in Nat /\ pi <= Len(lg) /\ (next - 1 <= Len(lg) => pi = next - 1)
  <2>1. (next - 1) - last_index[s] = next - 1 /\ next - 1 \in Nat
    BY <1>1
  <2>2. CASE next - 1 = 0
    BY <1>1, <2>2 DEF PrevLog, Present, EntryAt, Sentry
  <2>3. CASE next - 1 # 0 /\ next - 1 <= Len(lg)
    <3>1. next - 1 \in 1..Len(lg)
      BY <1>1, <2>1, <2>3
    <3>2. Present(s, next - 1) /\ EntryAt(s, next - 1) = lg[next - 1]
      BY <1>1, <2>1, <2>3, <3>1 DEF Present, EntryAt
    <3>3. QED
      BY <1>1, <2>1, <3>1, <3>2 DEF PrevLog
  <2>4. CASE next - 1 # 0 /\ ~(next - 1 <= Len(lg))
    <3>1. ~Present(s, next - 1)
      BY <1>1, <2>1, <2>4 DEF Present
    <3>2. QED
      BY <1>1, <2>1, <2>4, <3>1 DEF PrevLog
  <2>5. QED
    BY <2>2, <2>3, <2>4
<1>3. /\ Len(es) \in Nat /\ pi + Len(es) <= Len(lg)
      /\ \A k \in 1..Len(es) : es[k] = lg[pi + k]
  <2>1. next - last_index[s] = next
    BY <1>1
  <2>2. CASE next <= Len(lg)
    <3>1. next \in 1..Len(lg) /\ pi = next - 1
      BY <1>1, <1>2, <2>2
    <3>2. Present(s, next)
      BY <1>1, <2>1, <3>1 DEF Present
    <3>3. es = SubSeq(lg, next, Len(lg))
      BY <2>1, <3>2 DEF EntriesFrom
    <3>4. Len(es) = Len(lg) - next + 1 /\ \A k \in 1..Len(es) : es[k] = lg[next + k - 1]
      BY <1>1, <3>1, <3>3
    <3> HIDE DEF es, pi, lg
    <3>5. QED
      BY <1>1, <3>1, <3>4
  <2>3. CASE ~(next <= Len(lg))
    <3>1. ~Present(s, next)
      BY <1>1, <2>1, <2>3 DEF Present
    <3>2. es = <<>>
      BY <3>1 DEF EntriesFrom
    <3>3. QED
      BY <1>1, <1>2, <3>2
  <2>4. QED
    BY <2>2, <2>3
<1>4. QED
  BY <1>2, <1>3 DEF append_entries_call

\* In a cluster of two an accepted call only adds entries that its caller has.
LEMMA AcceptGrows ==
  ASSUME TypeOK, RunsOfEntries, ConfigEntries, LogsComparable, CallsFromLog, NEW m \in calls, AcceptAppendEntries(m)
  PROVE  LET d == m.dst IN
         /\ d \in Server /\ m.src \in Server /\ m.leader_commit \in Nat
         /\ \A s \in Server \ {d} : log'[s] = log[s]
         /\ Len(log[d]) \in Nat /\ Len(log'[d]) \in Nat /\ Len(log[d]) <= Len(log'[d])
         /\ \A k \in 1..Len(log[d]) : log'[d][k] = log[d][k]
         /\ \A k \in 1..Len(log'[d]) : k > Len(log[d]) => k <= Len(log[m.src]) /\ log'[d][k] = log[m.src][k]
<1> DEFINE d == m.dst
           lg == log[d]
           es == m.entries
           pi == m.prev_log_index
           new == log'[d]
<1>1. /\ m.rpc = "append_entries" /\ has_entry(d, pi, m.prev_log_term) /\ d \in Server /\ m.src \in Server
  BY CallFields DEF AcceptAppendEntries
<1>2. es \in Seq(LogEntry) /\ Len(es) \in Nat /\ pi \in Nat /\ m.leader_commit \in Nat
  BY <1>1, AppendCalls DEF AppendCall
<1>3. PICK k \in 0..Len(es) : Skips(d, es, k) /\ log' = [log EXCEPT ![d] = LogAfter(d, es, k)]
  BY DEF AcceptAppendEntries
<1>4. new = LogAfter(d, es, k) /\ \A s \in Server \ {d} : log'[s] = log[s]
  BY <1>1, <1>3 DEF TypeOK
<1>5. lg \in Seq(LogEntry) /\ Len(lg) \in Nat /\ last_index[d] = 0 /\ \A j \in 1..Len(lg) : lg[j].index = j
  BY <1>1, LogRun
<1>6. Len(log[m.src]) \in Nat
  BY <1>1, LogRun
<1>7. pi + Len(es) <= Len(log[m.src]) /\ \A j \in 1..Len(es) : es[j] = log[m.src][pi + j]
  BY <1>1 DEF CallsFromLog, FromLog
<1>8. CASE k = Len(es)
  <2>1. new = lg
    BY <1>4, <1>8 DEF LogAfter
  <2>2. QED
    BY <1>1, <1>2, <1>4, <1>5, <2>1
<1>9. CASE k # Len(es)
  <2> DEFINE p == pi + k
             tail == SubSeq(es, k + 1, Len(es))
  <2>1. p \in 0..Len(lg) /\ new = SubSeq(lg, 1, p) \o tail
    BY <1>1, <1>3, <1>4, <1>9, LogAfterCall
  <2>2. tail \in Seq(LogEntry) /\ Len(tail) = Len(es) - k /\ \A j \in 1..Len(tail) : tail[j] = es[k + j]
    BY <1>2
  <2>3. k + 1 \in 1..Len(es) /\ es[k + 1] = log[m.src][p + 1] /\ p + 1 <= Len(log[m.src]) /\ p + 1 \in 1..Len(log[m.src])
    <3>1. k + 1 \in 1..Len(es) /\ pi + (k + 1) = p + 1
      BY <1>2, <1>9
    <3>2. p + 1 <= Len(log[m.src]) /\ p + 1 \in 1..Len(log[m.src])
      BY SMTT(30), <1>2, <1>6, <1>7, <3>1
    <3>3. es[k + 1] = log[m.src][pi + (k + 1)]
      BY <1>7, <3>1
    <3>4. QED
      BY <3>1, <3>2, <3>3
  <2>4. p = Len(lg)
    <3>1. SUFFICES ASSUME p # Len(lg) PROVE FALSE
      OBVIOUS
    <3>2. p + 1 \in 1..Len(lg) /\ p + 1 # 0 /\ (p + 1) - last_index[d] = p + 1
      <4>1. p \in 0..Len(lg) /\ Len(lg) \in Nat /\ last_index[d] = 0 /\ p # Len(lg)
        BY <1>5, <2>1, <3>1
      <4> HIDE DEF p, lg, d
      <4>2. QED
        BY <4>1
    <3>3. log[m.src][p + 1] = lg[p + 1]
      BY <1>1, <2>3, <3>2 DEF LogsComparable
    <3>4. es[k + 1].index = p + 1
      BY <1>5, <2>3, <3>2, <3>3
    <3>5. Present(d, p + 1) /\ EntryAt(d, p + 1) = es[k + 1]
      BY <1>5, <2>3, <3>2, <3>3 DEF Present, EntryAt
    <3>6. has_entry(d, es[k + 1].index, es[k + 1].term)
      BY <3>4, <3>5 DEF has_entry
    <3>7. k < Len(es)
      BY <1>2, <1>9
    <3>8. QED
      BY <1>3, <3>6, <3>7 DEF Skips
  <2>5. p = pi + k
    OBVIOUS
  <2> HIDE DEF tail, p, new, es, pi
  <2>6. /\ Len(new) = p + Len(tail)
        /\ \A j \in 1..p : new[j] = lg[j]
        /\ \A j \in 1..Len(tail) : new[p + j] = tail[j]
    <3>1. lg \in Seq(LogEntry) /\ p \in 0..Len(lg) /\ tail \in Seq(LogEntry) /\ new = SubSeq(lg, 1, p) \o tail
      BY <1>5, <2>1, <2>2
    <3> HIDE DEF lg
    <3>2. QED
      BY <3>1, ChopThenAppend
  <2>7. Len(tail) \in Nat /\ Len(new) \in Nat /\ Len(lg) <= Len(new)
    BY <1>5, <2>2, <2>4, <2>6
  <2>8. ASSUME NEW j \in 1..Len(new), j > Len(lg)
        PROVE  j <= Len(log[m.src]) /\ new[j] = log[m.src][j]
    <3> DEFINE i == j - p
    <3>1. i \in 1..Len(tail) /\ j = p + i
      BY <1>5, <2>4, <2>6, <2>7, <2>8
    <3>2. new[j] = tail[i]
      BY <2>6, <3>1
    <3>3. tail[i] = es[k + i]
      BY <2>2, <3>1
    <3> HIDE DEF i
    <3>4. k + i \in 1..Len(es) /\ pi + (k + i) = j
      BY <1>2, <2>2, <2>5, <3>1
    <3>5. es[k + i] = log[m.src][j]
      BY <1>7, <3>4
    <3>6. j <= Len(log[m.src])
      BY <1>2, <1>6, <1>7, <3>4
    <3>7. QED
      BY <3>2, <3>3, <3>5, <3>6
  <2>9. QED
    BY <1>1, <1>2, <1>4, <1>5, <2>4, <2>6, <2>7, <2>8 DEF new
<1>10. QED
  BY <1>8, <1>9

\* A vote on record after a step was on record before it, is the candidate's own, or is given
\* in the step, by a voter whose log permits it.
LEMMA GrantKinds ==
  ASSUME TypeOK, TypeOK', VoteInv, [Next]_vars, NEW s \in Server, NEW q \in Server, NEW T \in Nat,
         role'[s] \in Standing, T = curr_term'[s], Granted(q, T, s)'
  PROVE  \/ role[s] \in Standing /\ curr_term'[s] = curr_term[s] /\ Granted(q, curr_term[s], s)
         \/ q = s
         \/ \E m \in calls : /\ ServeRequestVote(m) /\ m.src = s /\ m.dst = q /\ LogPermits(q, m)
                             /\ m.term = curr_term[s] /\ role[s] \in Standing
<1> DEFINE Old == role[s] \in Standing /\ curr_term'[s] = curr_term[s] /\ Granted(q, curr_term[s], s)
<1>2. CASE QuietStep
  <2>1. role[s] \in Standing /\ curr_term'[s] = curr_term[s] /\ votes'[s] = votes[s]
    BY <1>2 DEF QuietStep
  <2>2. Granted(q, curr_term[s], s)
    BY <1>2, <2>1 DEF QuietStep, Granted, ResultsOf, Standing
  <2>3. QED
    BY <2>1, <2>2
<1>3. ASSUME NEW r \in results, OnRequestVote(r)
      PROVE  Old
  <2>1. role[s] \in Standing /\ curr_term'[s] = curr_term[s]
    BY <1>3, CountEffect
  <2>2. Granted(q, T, s)
    BY <1>3, CountGrants
  <2>3. QED
    BY <2>1, <2>2
<1>4. ASSUME NEW t \in Server, NEW C \in SUBSET calls, leader_election(t, C), results' \subseteq results
      PROVE  Old \/ q = s
  <2>1. /\ curr_term \in [Server -> Nat] /\ role \in [Server -> Roles] /\ votes \in [Server -> SUBSET Server]
    BY DEF TypeOK
  <2>2. /\ votes'[t] = {t} /\ curr_term'[t] = curr_term[t] + 1
        /\ \A u \in Server \ {t} : curr_term'[u] = curr_term[u] /\ votes'[u] = votes[u] /\ role'[u] = role[u]
    BY <1>4, <2>1 DEF leader_election
  <2>3. CASE s # t
    <3>1. role[s] \in Standing /\ curr_term'[s] = curr_term[s] /\ votes'[s] = votes[s]
      BY <2>2, <2>3
    <3>2. Granted(q, curr_term[s], s)
      BY <1>4, <3>1 DEF Granted, ResultsOf, Standing
    <3>3. QED
      BY <3>1, <3>2
  <2>4. CASE s = t
    <3>1. CASE \E x \in ResultsOf("request_vote")' : x.ok /\ x.dst = q /\ x.term = T /\ x.src = s
      <4>1. PICK x \in results : x.rpc = "request_vote" /\ x.ok /\ x.term = T /\ x.src = s
        BY <1>4, <3>1 DEF ResultsOf
      <4>2. x.term <= curr_term[s]
        BY <4>1 DEF VoteInv, ResultsOf
      <4>3. T = curr_term[s] + 1 /\ curr_term[s] \in Nat
        BY <2>1, <2>2, <2>4
      <4>4. QED
        BY <4>1, <4>2, <4>3
    <3>2. CASE q \in votes'[s]
      BY <2>2, <2>4, <3>2
    <3>3. QED
      BY <3>1, <3>2 DEF Granted
  <2>5. QED
    BY <2>3, <2>4
<1>5. ASSUME NEW m \in calls, ServeRequestVote(m)
      PROVE  \/ Old
             \/ /\ m.src = s /\ m.dst = q /\ LogPermits(q, m)
                /\ m.term = curr_term[s] /\ role[s] \in Standing
  <2> DEFINE d == m.dst
             granted == m.term >= curr_term[d] /\ HeldVote(d, m.term) \in {Nil, m.src} /\ LogPermits(d, m)
             res == [rpc |-> m.rpc, src |-> m.src, dst |-> m.dst, id |-> m.id,
                     ok |-> granted, term |-> curr_term'[d], match_index |-> 0]
  <2>1. role[s] \in Standing /\ curr_term'[s] = curr_term[s] /\ votes'[s] = votes[s]
    BY <1>5, ServeRequestVoteEffect DEF Standing
  <2>2. results' \subseteq results \cup {res} /\ res.src = m.src /\ res.dst = d /\ res.ok = granted
        /\ res.term = curr_term'[d]
    BY <1>5 DEF ServeRequestVote, Reply, Answer
  <2>3. granted => curr_term'[d] = m.term
    <3>1. \/ m.term > curr_term[d] /\ curr_term' = [curr_term EXCEPT ![d] = m.term]
          \/ ~(m.term > curr_term[d]) /\ curr_term' = curr_term
      BY <1>5 DEF ServeRequestVote, step_down
    <3>2. curr_term \in [Server -> Nat] /\ d \in Server /\ m.term \in Nat /\ curr_term[d] \in Nat
      BY CallFields DEF TypeOK
    <3>3. QED
      BY <3>1, <3>2
  <2>4. granted => LogPermits(d, m)
    OBVIOUS
  <2> HIDE DEF res, granted
  <2>5. CASE \E x \in ResultsOf("request_vote")' : x.ok /\ x.dst = q /\ x.term = T /\ x.src = s
    <3>1. PICK x \in results' : x.rpc = "request_vote" /\ x.ok /\ x.dst = q /\ x.term = T /\ x.src = s
      BY <2>5 DEF ResultsOf
    <3>2. CASE x \in results
      <4>1. Granted(q, curr_term[s], s)
        BY <2>1, <3>1, <3>2 DEF Granted, ResultsOf
      <4>2. QED
        BY <2>1, <4>1
    <3>3. CASE x = res
      BY <2>1, <2>2, <2>3, <2>4, <3>1, <3>3
    <3>4. QED
      BY <2>2, <3>2, <3>3
  <2>6. CASE q \in votes'[s]
    <3>1. Granted(q, curr_term[s], s)
      BY <2>1, <2>6 DEF Granted, Standing
    <3>2. QED
      BY <2>1, <3>1
  <2>7. QED
    BY <2>5, <2>6 DEF Granted
<1>6. QED
  BY <1>2, <1>3, <1>4, <1>5, StepKinds

\* A request for votes in the term of its candidate was there, with the candidate in that
\* term, or tells of the last entry the candidate has.
LEMMA RequestKinds ==
  ASSUME TypeOK, TypeOK', VoteInv, [Next]_vars, NEW m \in calls', m.rpc = "request_vote",
         m.term = curr_term'[m.src], role'[m.src] \in Standing
  PROVE  \/ \E k \in calls : /\ k.rpc = "request_vote" /\ k.src = m.src /\ k.term = curr_term[m.src]
                             /\ k.last_log_index = m.last_log_index /\ role[m.src] \in Standing
         \/ m.last_log_index = last_entry_index(m.src)
<1> DEFINE s == m.src
           Old == \E k \in calls : /\ k.rpc = "request_vote" /\ k.src = m.src /\ k.term = curr_term[m.src]
                                   /\ k.last_log_index = m.last_log_index /\ role[m.src] \in Standing
<1>1. s \in Server
  BY DEF TypeOK, VoteCall, AppendCall, TransferCall
<1>2. CASE QuietStep
  <2>1. role[s] \in Standing /\ curr_term'[s] = curr_term[s]
    BY <1>1, <1>2 DEF QuietStep
  <2>2. QED
    BY <1>2, <2>1 DEF QuietStep
<1>3. ASSUME NEW r \in results, OnRequestVote(r)
      PROVE  Old
  <2>1. role[s] \in Standing /\ curr_term'[s] = curr_term[s] /\ m \in calls
    BY <1>1, <1>3, CountEffect
  <2>2. QED
    BY <2>1
<1>4. ASSUME NEW k \in calls, ServeRequestVote(k)
      PROVE  Old
  <2>1. role[s] \in Standing /\ curr_term'[s] = curr_term[s]
    BY <1>1, <1>4, ServeRequestVoteEffect DEF Standing
  <2>2. m \in calls
    BY <1>4 DEF ServeRequestVote, Reply, Answer
  <2>3. QED
    BY <2>1, <2>2
<1>5. ASSUME NEW t \in Server, NEW C \in SUBSET calls, leader_election(t, C)
      PROVE  Old \/ m.last_log_index = last_entry_index(m.src)
  <2>1. /\ curr_term \in [Server -> Nat] /\ role \in [Server -> Roles]
    BY DEF TypeOK
  <2>2. /\ curr_term'[t] = curr_term[t] + 1
        /\ \A u \in Server \ {t} : curr_term'[u] = curr_term[u] /\ role'[u] = role[u]
    BY <1>5, <2>1 DEF leader_election
  <2>3. CASE m \notin calls
    BY <1>5, <2>3 DEF leader_election, vote_call
  <2>4. CASE m \in calls
    <3>1. m.term <= curr_term[s] /\ curr_term[s] \in Nat
      BY <1>1, <2>1, <2>4 DEF VoteInv, CallsOf
    <3>2. s # t
      BY <2>2, <3>1
    <3>3. QED
      BY <1>1, <2>2, <2>4, <3>2
  <2>5. QED
    BY <2>3, <2>4
<1>6. QED
  BY <1>2, <1>3, <1>4, <1>5, StepKinds


\* A vote is for one candidate, and no voter is behind the term it voted in.
LEMMA OneVote ==
  ASSUME VoteInv, NEW q \in Server, NEW s \in Server, Granted(q, curr_term[s], s)
  PROVE  /\ curr_term[s] <= curr_term[q]
         /\ \A t \in Server : Granted(q, curr_term[s], t) => t = s
<1>1. curr_term[s] \in Terms
  BY DEF Terms
<1>2. QED
  BY <1>1 DEF VoteInv

\* While one of two servers leads, nobody who stands has its vote.
LEMMA NoRival ==
  ASSUME TypeOK, VoteInv, Cardinality(Server) = 2, NEW s \in Server, role[s] = "LEADER",
         NEW t \in Server, role[t] \in Standing, Granted(s, curr_term[t], t)
  PROVE  t = s
<1>1. curr_term[s] \in Nat /\ curr_term[t] \in Nat
  BY DEF TypeOK
<1>2. Granted(t, curr_term[s], s) /\ Granted(s, curr_term[s], s)
  BY LeaderLongest
<1>3. curr_term[s] <= curr_term[t]
  BY <1>2, OneVote
<1>4. curr_term[t] <= curr_term[s]
  BY OneVote
<1>5. curr_term[t] = curr_term[s]
  BY <1>1, <1>3, <1>4
<1>6. Granted(s, curr_term[s], t)
  BY <1>5
<1>7. QED
  BY <1>2, <1>6, OneVote

\* Of two servers, voters stay behind those they voted for.
VotersStayBehind ==
  \A s, q \in Server : role[s] \in Standing /\ role'[s] \in Standing /\ Granted(q, curr_term[s], s) =>
                         Len(log'[q]) <= Len(log'[s])

LEMMA PairLogs ==
  ASSUME TypeOK, VoteInv, RunsOfEntries, ConfigEntries, PairInv, Cardinality(Server) = 2,
         ~log_compaction_enabled, [Next]_vars
  PROVE  LogsOnlyGrow /\ LogsComparable' /\ VotersStayBehind
<1>1. \A s \in Server : Len(log[s]) \in Nat
  BY LogRun
<1>2. LogsComparable /\ CallsFromLog /\ VotersBehind
  BY DEF PairInv
<1>3. CASE UNCHANGED logVars
  <2>1. UNCHANGED log
    BY <1>3 DEF logVars
  <2>2. LogsOnlyGrow
    BY <1>1, <2>1 DEF LogsOnlyGrow
  <2>3. LogsComparable'
    BY <1>2, <2>1 DEF LogsComparable
  <2>4. VotersStayBehind
    BY <1>2, <2>1 DEF VotersStayBehind, VotersBehind
  <2>5. QED
    BY <2>2, <2>3, <2>4
<1>4. ASSUME NEW d \in Server, HandleAppend(d)
      PROVE  LogsOnlyGrow /\ LogsComparable' /\ VotersStayBehind
  <2>1. role[d] = "LEADER" /\ \A q \in Server : Len(log[q]) <= Len(log[d])
    BY <1>2, <1>4, LeaderLongest DEF HandleAppend
  <2>2. /\ \A t \in Server \ {d} : log'[t] = log[t]
        /\ Len(log'[d]) = Len(log[d]) + 1 /\ Len(log'[d]) \in Nat
    <3>1. /\ \A t \in Server \ {d} : log'[t] = log[t]
          /\ Len(log'[d]) = Len(log[d]) + 1
      BY <1>4, HandleAppendRuns
    <3>2. QED
      BY <1>1, <3>1
  <2>3. \A k \in 1..Len(log[d]) : log'[d][k] = log[d][k]
    <3> DEFINE e == [index |-> last_entry_index(d) + 1, term |-> curr_term[d], cfg |-> FALSE]
    <3>1. log[d] \in Seq(LogEntry) /\ log \in [Server -> Seq(LogEntry)]
      BY DEF TypeOK
    <3>2. log'[d] = Append(log[d], e)
      BY <1>4, <3>1 DEF HandleAppend
    <3> HIDE DEF e
    <3>3. QED
      BY <3>1, <3>2
  <2>4. LogsOnlyGrow
    <3>1. ASSUME NEW s \in Server
          PROVE  /\ Len(log[s]) \in Nat /\ Len(log'[s]) \in Nat /\ Len(log[s]) <= Len(log'[s])
                 /\ \A k \in 1..Len(log[s]) : log'[s][k] = log[s][k]
      <4>1. CASE s = d
        BY <1>1, <2>2, <2>3, <4>1
      <4>2. CASE s # d
        BY <1>1, <2>2, <4>2
      <4>3. QED
        BY <4>1, <4>2
    <3>2. QED
      BY <3>1 DEF LogsOnlyGrow
  <2>5. ASSUME NEW s \in Server, NEW t \in Server, NEW k \in 1..Len(log'[s]), k <= Len(log'[t])
        PROVE  log'[s][k] = log'[t][k]
    <3>1. CASE s = t
      BY <3>1
    <3>2. CASE s # t
      <4>1. k \in 1..Len(log[s]) /\ k <= Len(log[t])
        <5>1. CASE s = d
          <6>1. log'[t] = log[t] /\ Len(log[t]) <= Len(log[d]) /\ Len(log[t]) \in Nat /\ Len(log[d]) \in Nat
            BY <1>1, <2>1, <2>2, <3>2, <5>1
          <6>2. QED
            BY <2>2, <2>5, <5>1, <6>1
        <5>2. CASE t = d
          <6>1. log'[s] = log[s] /\ Len(log[s]) <= Len(log[d]) /\ Len(log[s]) \in Nat /\ Len(log[d]) \in Nat
            BY <1>1, <2>1, <2>2, <3>2, <5>2
          <6>2. QED
            BY <2>2, <2>5, <5>2, <6>1
        <5>3. CASE s # d /\ t # d
          <6>1. log'[s] = log[s] /\ log'[t] = log[t]
            BY <2>2, <5>3
          <6>2. QED
            BY <2>5, <6>1
        <5>4. QED
          BY <5>1, <5>2, <5>3
      <4>2. log[s][k] = log[t][k]
        BY <1>2, <4>1 DEF LogsComparable
      <4>3. k \in 1..Len(log[t])
        BY <1>1, <4>1
      <4>4. log'[s][k] = log[s][k] /\ log'[t][k] = log[t][k]
        BY <2>4, <4>1, <4>3 DEF LogsOnlyGrow
      <4>5. QED
        BY <4>2, <4>4
    <3>3. QED
      BY <3>1, <3>2
  <2>6. ASSUME NEW s \in Server, NEW q \in Server, role[s] \in Standing, Granted(q, curr_term[s], s)
        PROVE  Len(log'[q]) <= Len(log'[s])
    <3>1. CASE q = d
      <4>1. s = d
        BY <2>1, <2>6, <3>1, NoRival
      <4>2. QED
        BY <2>2, <3>1, <4>1
    <3>2. CASE q # d
      <4>1. log'[q] = log[q] /\ Len(log[q]) <= Len(log[s])
        BY <1>2, <2>2, <2>6, <3>2 DEF VotersBehind
      <4>2. Len(log[s]) <= Len(log'[s]) /\ Len(log[s]) \in Nat /\ Len(log'[s]) \in Nat /\ Len(log[q]) \in Nat
        BY <2>4 DEF LogsOnlyGrow
      <4>3. QED
        BY <4>1, <4>2
    <3>3. QED
      BY <3>1, <3>2
  <2>7. LogsComparable'
    BY <2>5 DEF LogsComparable
  <2>8. VotersStayBehind
    BY <2>6 DEF VotersStayBehind
  <2>9. QED
    BY <2>4, <2>7, <2>8
<1>5. ASSUME NEW m \in calls, AcceptAppendEntries(m)
      PROVE  LogsOnlyGrow /\ LogsComparable' /\ VotersStayBehind
  <2> DEFINE d == m.dst
             c == m.src
  <2>1. /\ d \in Server /\ c \in Server
        /\ \A s \in Server \ {d} : log'[s] = log[s]
        /\ Len(log[d]) \in Nat /\ Len(log'[d]) \in Nat /\ Len(log[d]) <= Len(log'[d])
        /\ \A k \in 1..Len(log[d]) : log'[d][k] = log[d][k]
        /\ \A k \in 1..Len(log'[d]) : k > Len(log[d]) => k <= Len(log[c]) /\ log'[d][k] = log[c][k]
    BY <1>2, <1>5, AcceptGrows
  <2>2. role'[d] = "FOLLOWER"
    BY <1>5, <2>1 DEF AcceptAppendEntries, FollowTerm, TypeOK
  <2> HIDE DEF d, c
  <2>3. LogsOnlyGrow
    <3>1. ASSUME NEW s \in Server
          PROVE  /\ Len(log[s]) \in Nat /\ Len(log'[s]) \in Nat /\ Len(log[s]) <= Len(log'[s])
                 /\ \A k \in 1..Len(log[s]) : log'[s][k] = log[s][k]
      <4>1. CASE s = d
        BY <2>1, <4>1
      <4>2. CASE s # d
        BY <1>1, <2>1, <4>2
      <4>3. QED
        BY <4>1, <4>2
    <3>2. QED
      BY <3>1 DEF LogsOnlyGrow
  \* An entry of the new log is an entry of the other one, if that goes so far.
  <2>4. ASSUME NEW t \in Server, t # d, NEW k \in 1..Len(log'[d]), k <= Len(log[t])
        PROVE  log'[d][k] = log[t][k]
    <3>1. CASE k \in 1..Len(log[d])
      <4>1. log'[d][k] = log[d][k]
        BY <2>1, <3>1
      <4>2. log[d][k] = log[t][k]
        BY <1>2, <2>1, <2>4, <3>1 DEF LogsComparable
      <4>3. QED
        BY <4>1, <4>2
    <3>2. CASE k \notin 1..Len(log[d])
      <4>1. k > Len(log[d])
        BY <2>1, <3>2
      <4>2. k <= Len(log[c]) /\ log'[d][k] = log[c][k]
        BY <2>1, <4>1
      <4>3. c # d
        BY <2>1, <4>1, <4>2
      <4>4. c = t
        BY <2>1, <2>4, <4>3, NoThird
      <4>5. QED
        BY <4>2, <4>4
    <3>3. QED
      BY <3>1, <3>2
  <2>5. ASSUME NEW s \in Server, NEW t \in Server, NEW k \in 1..Len(log'[s]), k <= Len(log'[t])
        PROVE  log'[s][k] = log'[t][k]
    <3>1. CASE s = t
      BY <3>1
    <3>2. CASE s = d /\ t # d
      <4>1. log'[t] = log[t]
        BY <2>1, <3>2
      <4>2. QED
        BY <2>4, <2>5, <3>2, <4>1
    <3>3. CASE s # d /\ t = d
      <4>1. log'[s] = log[s]
        BY <2>1, <3>3
      <4>2. k \in 1..Len(log'[d]) /\ k <= Len(log[s])
        <5>1. k \in 1..Len(log[s]) /\ k <= Len(log'[d]) /\ Len(log[s]) \in Nat /\ Len(log'[d]) \in Nat
          BY <1>1, <2>1, <2>5, <3>3, <4>1
        <5>2. QED
          BY <5>1
      <4>3. log'[d][k] = log[s][k]
        BY <2>4, <3>3, <4>2
      <4>4. QED
        BY <3>3, <4>1, <4>3
    <3>4. CASE s # d /\ t # d
      <4>1. log'[s] = log[s] /\ log'[t] = log[t]
        BY <2>1, <3>4
      <4>2. QED
        BY <1>2, <2>5, <4>1 DEF LogsComparable
    <3>5. QED
      BY <3>1, <3>2, <3>3, <3>4
  <2>6. ASSUME NEW s \in Server, NEW q \in Server, role[s] \in Standing, role'[s] \in Standing,
               Granted(q, curr_term[s], s)
        PROVE  Len(log'[q]) <= Len(log'[s])
    <3>1. s # d /\ log'[s] = log[s] /\ Len(log[q]) <= Len(log[s]) /\ Len(log[s]) \in Nat
      BY <1>1, <1>2, <2>1, <2>2, <2>6 DEF Standing, VotersBehind
    <3>2. CASE q # d
      BY <2>1, <3>1, <3>2
    <3>3. CASE q = d
      <4>1. SUFFICES ASSUME ~(Len(log'[d]) <= Len(log[s])) PROVE FALSE
        BY <3>1, <3>3
      <4>2. Len(log'[d]) \in 1..Len(log'[d]) /\ Len(log'[d]) > Len(log[d])
        BY <2>1, <3>1, <3>3, <4>1
      <4>3. Len(log'[d]) <= Len(log[c])
        BY <2>1, <4>2
      <4>4. c # d
        BY <2>1, <4>2, <4>3
      <4>5. c = s
        BY <2>1, <3>1, <4>4, NoThird
      <4>6. QED
        BY <4>1, <4>3, <4>5
    <3>4. QED
      BY <3>2, <3>3
  <2>7. LogsComparable'
    BY <2>5 DEF LogsComparable
  <2>8. VotersStayBehind
    BY <2>6 DEF VotersStayBehind
  <2>9. QED
    BY <2>3, <2>7, <2>8
<1>6. QED
  BY <1>3, <1>4, <1>5, LogKinds


-----------------------------------------------------------------------------
(***************************************************************************)
(* The steps that move commit_index, match_index or last_applied on.       *)
(***************************************************************************)
\* Nothing new is counted as stored, committed or applied.
CommitQuiet ==
  /\ \A s \in Server : \/ commit_index'[s] = commit_index[s] /\ last_applied'[s] = last_applied[s]
                       \/ commit_index'[s] = 0 /\ last_applied'[s] = 0
  /\ \A s, n \in Server : match_index'[s][n] \in {match_index[s][n], 0}
  /\ \A r \in results' : r.rpc = "append_entries" /\ r.ok => r \in results

LEMMA SameCommits ==
  ASSUME UNCHANGED <<commit_index, last_applied, match_index>>, results' \subseteq results
  PROVE  CommitQuiet
BY DEF CommitQuiet

LEMMA NotStored ==
  ASSUME UNCHANGED <<commit_index, last_applied, match_index>>, NEW m \in calls, NEW ok \in BOOLEAN,
         NEW term, NEW match, m.rpc # "append_entries" \/ ~ok, Reply(m, ok, term, match)
  PROVE  CommitQuiet
<1> DEFINE res == [rpc |-> m.rpc, src |-> m.src, dst |-> m.dst, id |-> m.id,
                   ok |-> ok, term |-> term, match_index |-> match]
<1>1. results' \subseteq results \cup {res}
  BY DEF Reply, Answer
<1>2. res.rpc = m.rpc /\ res.ok = ok
  OBVIOUS
<1> HIDE DEF res
<1>3. \A r \in results' : r.rpc = "append_entries" /\ r.ok => r \in results
  BY <1>1, <1>2
<1>4. QED
  BY <1>3 DEF CommitQuiet

LEMMA DieCommits ==
  ASSUME TypeOK, RunsOfEntries, NEW s \in Server, Die(s)
  PROVE  CommitQuiet
<1>1. last_index[s] = 0
  BY DEF RunsOfEntries
<1>2. /\ commit_index \in [Server -> Nat] /\ last_applied \in [Server -> Nat]
      /\ match_index \in [Server -> [Server -> Nat]]
  BY DEF TypeOK
<1>3. \A t \in Server : \/ commit_index'[t] = commit_index[t] /\ last_applied'[t] = last_applied[t]
                        \/ commit_index'[t] = 0 /\ last_applied'[t] = 0
  BY <1>1, <1>2 DEF Die
<1>4. \A t, n \in Server : match_index'[t][n] \in {match_index[t][n], 0}
  BY <1>2 DEF Die
<1>5. results' \subseteq results
  BY DEF Die
<1>6. QED
  BY <1>3, <1>4, <1>5 DEF CommitQuiet

LEMMA StandingCommits ==
  ASSUME TypeOK, (\E s \in Server : StartsRound(s)) \/ TellsToStand
  PROVE  CommitQuiet
<1>1. UNCHANGED <<commit_index, last_applied, match_index>>
  BY DEF StartsRound, TellsToStand, commitVars, leaderVars
<1>2. \A r \in results' : r.rpc = "append_entries" /\ r.ok => r \in results
  BY DEF StartsRound, TellsToStand
<1>3. QED
  BY <1>1, <1>2 DEF CommitQuiet

LEMMA CommitKinds ==
  ASSUME TypeOK, RunsOfEntries, ~log_compaction_enabled, [Next]_vars
  PROVE  \/ CommitQuiet
         \/ \E s \in Server : ApplyLogCommitted(s) /\ ~Die(s)
         \/ \E m \in calls : AcceptAppendEntries(m)
         \/ \E r \in results : AppendEntriesSucceeded(r) /\ ~Die(r.src)
<1>1. CASE UNCHANGED vars
  BY <1>1, SameCommits DEF vars, commitVars, leaderVars, netVars
<1>2. ASSUME NEW s \in Server, ServerStep(s)
      PROVE  CommitQuiet \/ (ApplyLogCommitted(s) /\ ~Die(s))
  <2>1. CASE Die(s)
    BY <2>1, DieCommits
  <2>2. CASE HeartbeatTimeout(s) \/ HandleAppend(s)
    BY <2>2, SameCommits DEF HeartbeatTimeout, HandleAppend, commitVars, leaderVars, netVars
  <2>3. CASE ElectionTimeout(s) \/ \E n \in Server : TransferLeadership(s, n)
    BY <2>3, TimeoutStartsRound, TransferTells, StandingCommits
  <2>4. QED
    BY <1>2, <2>1, <2>2, <2>3 DEF ServerStep, Restart
<1>3. ASSUME NEW m \in calls, ServeCall(m)
      PROVE  CommitQuiet \/ AcceptAppendEntries(m)
  <2>1. CASE ServePreVote(m)
    <3>1. /\ UNCHANGED <<commit_index, last_applied, match_index>> /\ m.rpc # "append_entries"
          /\ \E ok \in BOOLEAN : Reply(m, ok, IF ok THEN m.term ELSE curr_term[m.dst], 0)
      BY <2>1 DEF ServePreVote, commitVars, leaderVars
    <3>2. QED
      BY <3>1, NotStored
  <2>2. CASE ServeRequestVote(m)
    <3> DEFINE ok == /\ m.term >= curr_term[m.dst] /\ HeldVote(m.dst, m.term) \in {Nil, m.src}
                     /\ LogPermits(m.dst, m)
    <3>1. /\ UNCHANGED <<commit_index, last_applied, match_index>> /\ m.rpc # "append_entries"
          /\ Reply(m, ok, curr_term'[m.dst], 0)
      BY <2>2 DEF ServeRequestVote, commitVars, leaderVars
    <3>2. ok \in BOOLEAN
      OBVIOUS
    <3> HIDE DEF ok
    <3>3. QED
      BY <3>1, <3>2, NotStored
  <2>3. CASE RejectAppendEntries(m)
    <3>1. /\ UNCHANGED <<commit_index, last_applied, match_index>>
          /\ Reply(m, FALSE, curr_term[m.dst], last_entry_index(m.dst))
      BY <2>3 DEF RejectAppendEntries, commitVars, leaderVars
    <3>2. QED
      BY <3>1, NotStored
  <2>4. CASE RefuseAppendEntries(m)
    <3>1. /\ UNCHANGED <<commit_index, last_applied, match_index>>
          /\ Reply(m, FALSE, m.term, last_entry_index(m.dst))
      BY <2>4 DEF RefuseAppendEntries, commitVars, leaderVars
    <3>2. QED
      BY <3>1, NotStored
  <2>5. CASE RejectTransfer(m)
    <3>1. /\ UNCHANGED <<commit_index, last_applied, match_index>>
          /\ Reply(m, FALSE, curr_term[m.dst], 0)
      BY <2>5 DEF RejectTransfer, commitVars, leaderVars
    <3>2. QED
      BY <3>1, NotStored
  <2>6. CASE ServeDataTransfer(m) \/ ServeDoneTransfer(m)
    <3>1. /\ UNCHANGED <<commit_index, last_applied, match_index>> /\ m.rpc # "append_entries"
          /\ Reply(m, TRUE, m.term, 0)
      BY <2>6 DEF ServeDataTransfer, ServeDoneTransfer, commitVars, leaderVars
    <3>2. QED
      BY <3>1, NotStored
  <2>7. CASE ServeTimeoutNow(m)
    BY <2>7, TimeoutNowStartsRound, StandingCommits
  <2>8. QED
    BY <1>3, <2>1, <2>2, <2>3, <2>4, <2>5, <2>6, <2>7 DEF ServeCall
<1>4. ASSUME NEW r \in results, OnResult(r)
      PROVE  CommitQuiet \/ (AppendEntriesSucceeded(r) /\ ~Die(r.src))
  <2>1. r.src \in Server
    BY CallFields
  <2>2. CASE Die(r.src)
    BY <2>1, <2>2, DieCommits
  <2>3. CASE OnPreVote(r)
    BY <2>3, SameCommits DEF OnPreVote, on_pre_vote, commitVars, leaderVars
  <2>4. CASE OnRequestVote(r)
    <3>1. UNCHANGED <<commit_index, last_applied>> /\ results' \subseteq results
      BY <2>4 DEF OnRequestVote, commitVars
    <3>2. \A s, n \in Server : match_index'[s][n] \in {match_index[s][n], 0}
      <4>1. \/ match_index' = match_index
            \/ match_index' = [match_index EXCEPT ![r.src] = [n \in Server |-> 0]]
        BY <2>4 DEF OnRequestVote, step_up
      <4>2. match_index \in [Server -> [Server -> Nat]]
        BY DEF TypeOK
      <4>3. QED
        BY <2>1, <4>1, <4>2
    <3>3. QED
      BY <3>1, <3>2 DEF CommitQuiet
  <2>5. CASE IgnoreAppendEntries(r) \/ AppendEntriesRefused(r) \/ StepDownOnResult(r)
    BY <2>5, SameCommits DEF IgnoreAppendEntries, AppendEntriesRefused, StepDownOnResult, commitVars, leaderVars
  <2>6. CASE OnDataTransfer(r) \/ OnDoneTransfer(r) \/ TransferRefused(r)
    BY <2>6, SameCommits DEF OnDataTransfer, OnDoneTransfer, TransferRefused, commitVars, leaderVars
  <2>7. CASE OnTimeoutNow(r)
    BY <2>7, AnswerTells, StandingCommits
  <2>8. QED
    BY <1>4, <2>2, <2>3, <2>4, <2>5, <2>6, <2>7 DEF OnResult
<1>5. ASSUME NEW m \in calls \cup results, PreVoteFailed(m) \/ CallFailed(m) \/ RetryTimeoutNow(m)
      PROVE  CommitQuiet
  BY <1>5, SameCommits, RetryTells, StandingCommits
     DEF PreVoteFailed, CallFailed, on_pre_vote, commitVars, leaderVars
<1>6. QED
  BY <1>1, <1>2, <1>3, <1>4, <1>5 DEF Next


-----------------------------------------------------------------------------
(***************************************************************************)
(* The inductive step for two servers.                                     *)
(***************************************************************************)
\* Every server has an entry at index i after the step.
OnAllAfter(i) == \A q \in Server : i <= Len(log'[q])

LEMMA OnAllKept ==
  ASSUME LogsOnlyGrow, NEW i \in Nat, OnAll(i)
  PROVE  OnAllAfter(i)
<1>1. ASSUME NEW q \in Server PROVE i <= Len(log'[q])
  <2>1. i <= Len(log[q]) /\ Len(log[q]) \in Nat /\ Len(log'[q]) \in Nat /\ Len(log[q]) <= Len(log'[q])
    BY DEF OnAll, LogsOnlyGrow
  <2>2. QED
    BY <2>1
<1>2. QED
  BY <1>1 DEF OnAllAfter

LEMMA FromLogKept ==
  ASSUME LogsOnlyGrow, NEW m, FromLog(m)
  PROVE  FromLog(m)'
<1> DEFINE p == m.prev_log_index
           n == Len(m.entries)
           lg == log[m.src]
           new == log'[m.src]
<1>1. m.src \in Server /\ p \in Nat /\ n \in Nat /\ m.leader_commit \in Nat /\ OnAll(m.leader_commit)
      /\ p + n <= Len(lg) /\ \A k \in 1..n : m.entries[k] = lg[p + k]
  BY DEF FromLog
<1>2. /\ Len(lg) \in Nat /\ Len(new) \in Nat /\ Len(lg) <= Len(new)
      /\ \A k \in 1..Len(lg) : new[k] = lg[k]
  BY <1>1 DEF LogsOnlyGrow
<1>3. OnAll(m.leader_commit)'
  BY <1>1, OnAllKept DEF OnAll, OnAllAfter
<1>4. p + n <= Len(new) /\ \A k \in 1..n : m.entries[k] = new[p + k]
  <2> HIDE DEF p, n, lg, new
  <2>1. p + n <= Len(new)
    BY <1>1, <1>2
  <2>2. ASSUME NEW k \in 1..n PROVE m.entries[k] = new[p + k]
    <3>1. p + k \in 1..Len(lg)
      BY <1>1, <1>2
    <3>2. QED
      BY <1>1, <1>2, <3>1
  <2>3. QED
    BY <2>1, <2>2
<1>5. QED
  BY <1>1, <1>3, <1>4 DEF FromLog

LEMMA CallsFromLogStep ==
  ASSUME TypeOK, RunsOfEntries, ConfigEntries, PairInv, LogsOnlyGrow, ~log_compaction_enabled, [Next]_vars
  PROVE  CallsFromLog'
<1>1. ASSUME NEW m, OldCall(m) PROVE FromLog(m)
  <2>1. PICK k \in calls : /\ k.rpc = "append_entries" /\ m.src = k.src /\ m.entries = k.entries
                           /\ m.leader_commit = k.leader_commit /\ m.prev_log_index = k.prev_log_index
    BY <1>1 DEF OldCall
  <2>2. FromLog(k)
    BY <2>1 DEF PairInv, CallsFromLog
  <2>3. QED
    BY <2>1, <2>2 DEF FromLog
<1>2. ASSUME NEW m, MadeCall(m) PROVE FromLog(m)
  <2>1. PICK s \in Server, n \in Server, next \in Nat \ {0}, id \in Nat : m = append_entries_call(s, n, next, id)
    BY <1>2 DEF MadeCall
  <2>2. /\ m.prev_log_index \in Nat /\ Len(m.entries) \in Nat
        /\ m.prev_log_index + Len(m.entries) <= Len(log[s])
        /\ \A k \in 1..Len(m.entries) : m.entries[k] = log[s][m.prev_log_index + k]
        /\ m.src = s /\ m.leader_commit = commit_index[s]
    BY SMTT(30), <2>1, MadeFromLog
  <2>3. commit_index[s] \in Nat /\ OnAll(commit_index[s])
    BY DEF TypeOK, PairInv, MatchesStored
  <2>4. QED
    BY <2>2, <2>3 DEF FromLog
<1>3. ASSUME NEW m \in calls', m.rpc = "append_entries" PROVE FromLog(m)'
  <2>1. FromLog(m)
    BY <1>1, <1>2, <1>3, CallKinds
  <2>2. QED
    BY <2>1, FromLogKept
<1>4. QED
  BY <1>3 DEF CallsFromLog

\* What was stored is stored after the step.
LEMMA StoredKept ==
  ASSUME TypeOK, MatchesStored, LogsOnlyGrow
  PROVE  /\ \A r \in results : r.rpc = "append_entries" /\ r.ok => r.match_index <= Len(log'[r.dst])
         /\ \A s \in Server : \A n \in Server \ {s} : OnAllAfter(match_index[s][n])
         /\ \A s \in Server : OnAllAfter(commit_index[s])
<1>1. ASSUME NEW r \in results, r.rpc = "append_entries", r.ok
      PROVE  r.match_index <= Len(log'[r.dst])
  <2>1. /\ r.dst \in Server /\ r.match_index \in Nat /\ r.match_index <= Len(log[r.dst])
    BY <1>1, CallFields DEF MatchesStored
  <2>2. Len(log[r.dst]) \in Nat /\ Len(log'[r.dst]) \in Nat /\ Len(log[r.dst]) <= Len(log'[r.dst])
    BY <2>1 DEF LogsOnlyGrow
  <2>3. QED
    BY <2>1, <2>2
<1>2. ASSUME NEW s \in Server, NEW n \in Server \ {s}
      PROVE  OnAllAfter(match_index[s][n])
  <2>1. match_index[s][n] \in Nat /\ OnAll(match_index[s][n])
    BY DEF TypeOK, MatchesStored
  <2>2. QED
    BY <2>1, OnAllKept
<1>3. ASSUME NEW s \in Server
      PROVE  OnAllAfter(commit_index[s])
  <2>1. commit_index[s] \in Nat /\ OnAll(commit_index[s])
    BY DEF TypeOK, MatchesStored
  <2>2. QED
    BY <2>1, OnAllKept
<1>4. QED
  BY <1>1, <1>2, <1>3

\* MatchesStored after a step, from what the step may count.
LEMMA MatchesStoredAfter ==
  ASSUME \A r \in results' : r.rpc = "append_entries" /\ r.ok => r.match_index <= Len(log'[r.dst]),
         \A s \in Server : \A n \in Server \ {s} : OnAllAfter(match_index'[s][n]),
         \A s \in Server : OnAllAfter(commit_index'[s]) /\ last_applied'[s] <= commit_index'[s]
  PROVE  MatchesStored'
BY DEF MatchesStored, OnAll, OnAllAfter

LEMMA QuietStored ==
  ASSUME TypeOK, MatchesStored, LogsOnlyGrow, CommitQuiet
  PROVE  MatchesStored'
<1>1. OnAllAfter(0)
  BY DEF OnAllAfter, LogsOnlyGrow
<1>2. \A r \in results' : r.rpc = "append_entries" /\ r.ok => r.match_index <= Len(log'[r.dst])
  BY StoredKept DEF CommitQuiet
<1>3. \A s \in Server : \A n \in Server \ {s} : OnAllAfter(match_index'[s][n])
  BY <1>1, StoredKept DEF CommitQuiet
<1>4. ASSUME NEW s \in Server
      PROVE  OnAllAfter(commit_index'[s]) /\ last_applied'[s] <= commit_index'[s]
  <2>1. OnAllAfter(commit_index[s]) /\ last_applied[s] <= commit_index[s]
    BY StoredKept DEF MatchesStored
  <2>2. \/ commit_index'[s] = commit_index[s] /\ last_applied'[s] = last_applied[s]
        \/ commit_index'[s] = 0 /\ last_applied'[s] = 0
    BY DEF CommitQuiet
  <2>3. QED
    BY <1>1, <2>1, <2>2
<1>5. QED
  BY <1>2, <1>3, <1>4, MatchesStoredAfter

LEMMA ApplyStored ==
  ASSUME TypeOK, MatchesStored, LogsOnlyGrow, NEW a \in Server, ApplyLogCommitted(a), ~Die(a)
  PROVE  MatchesStored'
<1>1. UNCHANGED <<commit_index, match_index, results>>
  BY DEF ApplyLogCommitted, leaderVars, netVars
<1>2. /\ last_applied' = [last_applied EXCEPT ![a] = last_applied[a] + 1]
      /\ last_applied[a] < commit_index[a]
  BY DEF ApplyLogCommitted, HasUnapplied
<1>3. last_applied \in [Server -> Nat] /\ commit_index \in [Server -> Nat]
  BY DEF TypeOK
<1>4. ASSUME NEW s \in Server PROVE last_applied'[s] <= commit_index'[s]
  <2>1. CASE s = a
    BY <1>1, <1>2, <1>3, <2>1
  <2>2. CASE s # a
    BY <1>1, <1>2, <1>3, <2>2 DEF MatchesStored
  <2>3. QED
    BY <2>1, <2>2
<1>5. QED
  BY <1>1, <1>4, StoredKept, MatchesStoredAfter

LEMMA AcceptStored ==
  ASSUME TypeOK, RunsOfEntries, ConfigEntries, PairInv, LogsOnlyGrow, NEW m \in calls, AcceptAppendEntries(m)
  PROVE  MatchesStored'
<1> DEFINE d == m.dst
           lc == m.leader_commit
           last == Len(log'[d])
           res == [rpc |-> m.rpc, src |-> m.src, dst |-> m.dst, id |-> m.id,
                   ok |-> TRUE, term |-> m.term, match_index |-> last]
<1>1. /\ d \in Server /\ m.rpc = "append_entries"
  BY CallFields DEF AcceptAppendEntries
<1>2. FromLog(m)
  BY <1>1 DEF PairInv, CallsFromLog
<1>3. lc \in Nat /\ OnAllAfter(lc)
  BY <1>2, OnAllKept DEF FromLog
<1>4. MatchesStored
  BY DEF PairInv
<1>5. PICK k \in 0..Len(m.entries) :
        LET new == LogAfter(d, m.entries, k)
            end == IF new = <<>> THEN last_index[d] ELSE new[Len(new)].index
        IN /\ log' = [log EXCEPT ![d] = new]
           /\ commit_index' = [commit_index EXCEPT ![d] =
                IF lc > @ THEN IF lc < end THEN lc ELSE end ELSE @]
           /\ Reply(m, TRUE, m.term, end)
  BY DEF AcceptAppendEntries
<1> DEFINE new == LogAfter(d, m.entries, k)
           end == IF new = <<>> THEN last_index[d] ELSE new[Len(new)].index
<1>6. log'[d] = new
  BY <1>1, <1>5 DEF TypeOK
<1>7. end = last
  <2>1. last_index[d] = 0
    BY <1>1 DEF RunsOfEntries
  <2>2. new \in Seq(LogEntry) /\ \A j \in 1..Len(new) : new[j].index = j
    <3>1. log'[d] \in Seq(LogEntry) /\ \A j \in 1..Len(log'[d]) : log'[d][j].index = j
      BY AcceptRuns, Zenon
    <3> HIDE DEF new
    <3> QED
      BY <1>6, <3>1, Zenon
  <2>3. last = Len(new)
    BY <1>6
  <2> HIDE DEF new, last
  <2>4. CASE new = <<>>
    BY <2>1, <2>3, <2>4
  <2>5. CASE new # <<>>
    <3>1. Len(new) \in 1..Len(new)
      BY <2>2, <2>5, EmptySeq
    <3>2. QED
      BY <2>2, <2>3, <2>5, <3>1
  <2>6. QED
    BY <2>4, <2>5
<1>8. /\ commit_index' = [commit_index EXCEPT ![d] = IF lc > @ THEN IF lc < last THEN lc ELSE last ELSE @]
      /\ Reply(m, TRUE, m.term, last)
  BY <1>5, <1>7
<1>9. UNCHANGED <<match_index, last_applied>>
  BY DEF AcceptAppendEntries, leaderVars
<1>10. \A r \in results' : r.rpc = "append_entries" /\ r.ok => r.match_index <= Len(log'[r.dst])
  <2>1. results' \subseteq results \cup {res}
    BY <1>8 DEF Reply, Answer
  <2>2. res.dst = d /\ res.match_index = last /\ last <= last
    BY <1>1 DEF LogsOnlyGrow
  <2> HIDE DEF res
  <2>3. res.match_index <= Len(log'[res.dst])
    BY <2>2
  <2>4. QED
    BY <1>4, <2>1, <2>3, StoredKept
<1>11. ASSUME NEW s \in Server
       PROVE  OnAllAfter(commit_index'[s]) /\ last_applied'[s] <= commit_index'[s]
  <2>1. commit_index \in [Server -> Nat] /\ commit_index[s] \in Nat /\ last_applied[s] \in Nat
    BY DEF TypeOK
  <2>2. OnAllAfter(commit_index[s]) /\ last_applied[s] <= commit_index[s]
    BY <1>4, StoredKept DEF MatchesStored
  <2>3. CASE s # d
    BY <1>8, <1>9, <2>1, <2>2, <2>3
  <2>4. CASE s = d
    <3> DEFINE c == commit_index[d]
    <3>1. commit_index'[s] = IF lc > c THEN IF lc < last THEN lc ELSE last ELSE c
      BY <1>1, <1>8, <2>1, <2>4
    <3>2. c <= last /\ last \in Nat
      BY <1>1, <2>2, <2>4 DEF OnAllAfter, LogsOnlyGrow
    <3>3. CASE ~(lc > c)
      BY <1>9, <2>2, <2>4, <3>1, <3>3
    <3>4. CASE lc > c
      <4>1. commit_index'[s] <= lc /\ c <= commit_index'[s] /\ commit_index'[s] \in Nat
        <5> HIDE DEF c, lc, last
        <5>1. c \in Nat
          BY <2>1, <2>4 DEF c
        <5>2. QED
          BY <1>3, <3>1, <3>2, <3>4, <5>1
      <4>2. OnAllAfter(commit_index'[s])
        <5>1. ASSUME NEW q \in Server PROVE commit_index'[s] <= Len(log'[q])
          <6>1. lc <= Len(log'[q]) /\ Len(log'[q]) \in Nat
            BY <1>3 DEF OnAllAfter, LogsOnlyGrow
          <6> HIDE DEF lc
          <6>2. QED
            BY <1>3, <4>1, <6>1
        <5>2. QED
          BY <5>1 DEF OnAllAfter
      <4>3. last_applied'[s] <= commit_index'[s]
        <5>1. last_applied'[s] = last_applied[s] /\ last_applied[s] <= c /\ c \in Nat
          BY <1>9, <2>1, <2>2, <2>4
        <5> HIDE DEF c
        <5>2. QED
          BY <2>1, <4>1, <5>1
      <4>4. QED
        BY <4>2, <4>3
    <3>5. QED
      BY <3>3, <3>4
  <2>5. QED
    BY <2>3, <2>4
<1>12. QED
  BY <1>4, <1>9, <1>10, <1>11, StoredKept, MatchesStoredAfter

LEMMA CountStored ==
  ASSUME TypeOK, VoteInv, RunsOfEntries, ConfigEntries, PairInv, LogsOnlyGrow, Cardinality(Server) = 2,
         NEW r \in results, AppendEntriesSucceeded(r), ~Die(r.src)
  PROVE  MatchesStored'
<1> DEFINE s == r.src
           match == [match_index[s] EXCEPT ![r.dst] = r.match_index]
<1>1. /\ s \in Server /\ r.dst \in Server /\ r.match_index \in Nat
      /\ r.rpc = "append_entries" /\ r.ok /\ role[s] = "LEADER"
  BY CallFields DEF AppendEntriesSucceeded
<1>2. /\ match_index' = [match_index EXCEPT ![s] = match] /\ adjust_commit_index(s, match)
      /\ results' \subseteq results /\ UNCHANGED last_applied
  BY DEF AppendEntriesSucceeded
<1>3. MatchesStored /\ VotersBehind
  BY DEF PairInv
<1>4. /\ match_index \in [Server -> [Server -> Nat]] /\ commit_index \in [Server -> Nat]
      /\ last_applied \in [Server -> Nat]
  BY DEF TypeOK
<1>5. \A n \in Server : match[n] = IF n = r.dst THEN r.match_index ELSE match_index[s][n]
  BY <1>1, <1>4
<1>6. match \in [Server -> Nat]
  BY <1>1, <1>4
<1>7. s # r.dst => OnAll(r.match_index)
  <2>1. SUFFICES ASSUME s # r.dst, NEW q \in Server PROVE r.match_index <= Len(log[q])
    BY DEF OnAll
  <2>2. r.match_index <= Len(log[r.dst])
    BY <1>1, <1>3 DEF MatchesStored
  <2>3. Len(log[r.dst]) <= Len(log[s]) /\ Len(log[r.dst]) \in Nat /\ Len(log[s]) \in Nat
    BY <1>1, <1>3, LeaderLongest, LogRun
  <2>4. q = s \/ q = r.dst
    BY <1>1, <2>1, NoThird
  <2>5. r.match_index <= Len(log[s])
    BY <1>1, <2>2, <2>3
  <2>6. QED
    BY <2>2, <2>4, <2>5
<1> HIDE DEF match
<1>8. ASSUME NEW n \in Server \ {s} PROVE OnAllAfter(match[n])
  <2>1. CASE n = r.dst
    BY <1>1, <1>5, <1>7, <2>1, OnAllKept
  <2>2. CASE n # r.dst
    <3>1. match[n] = match_index[s][n]
      BY <1>5, <2>2
    <3>2. QED
      BY <1>1, <1>3, <3>1, StoredKept
  <2>3. QED
    BY <2>1, <2>2
<1>9. ASSUME NEW t \in Server, NEW n \in Server \ {t} PROVE OnAllAfter(match_index'[t][n])
  <2>1. CASE t = s
    <3>1. match_index'[t] = match
      BY <1>1, <1>2, <1>4, <2>1
    <3>2. QED
      BY <1>8, <2>1, <3>1
  <2>2. CASE t # s
    <3>1. match_index'[t] = match_index[t]
      BY <1>2, <1>4, <2>2
    <3>2. QED
      BY <1>3, <3>1, StoredKept
  <2>3. QED
    BY <2>1, <2>2
<1>10. \A x \in results' : x.rpc = "append_entries" /\ x.ok => x.match_index <= Len(log'[x.dst])
  BY <1>2, <1>3, StoredKept
<1>11. ASSUME NEW t \in Server
       PROVE  OnAllAfter(commit_index'[t]) /\ last_applied'[t] <= commit_index'[t]
  <2>1. OnAllAfter(commit_index[t]) /\ last_applied[t] <= commit_index[t]
        /\ commit_index[t] \in Nat /\ last_applied[t] \in Nat
    BY <1>3, <1>4, StoredKept DEF MatchesStored
  <2>2. CASE commit_index'[t] = commit_index[t]
    BY <1>2, <2>1, <2>2
  <2>3. CASE commit_index'[t] # commit_index[t]
    <3>1. PICK c \in Committable(s, match) : commit_index' = [commit_index EXCEPT ![s] = c]
      BY <1>2, <2>3 DEF adjust_commit_index
    <3>2. t = s /\ commit_index'[t] = c
      BY <1>1, <1>4, <2>3, <3>1
    <3>3. last_entry_index(s) \in Nat /\ c \in 1..last_entry_index(s) /\ c \in Nat
      BY <1>1, <3>1, LastEntryType DEF Committable
    <3>4. PICK a \in Counted(s, match) : c <= match[a]
      BY <3>1 DEF Committable
    <3>5. PICK b \in Counted(s, match) : match[b] <= c
      BY <3>1 DEF Committable
    <3>6. /\ a \in Server \ {s} /\ match[a] \in Nat
          /\ b \in Server \ {s} /\ match[b] \in Nat /\ match[b] > commit_index[s]
      BY <1>6, <3>4, <3>5 DEF Counted
    <3>7. OnAllAfter(c)
      <4>1. ASSUME NEW q \in Server PROVE c <= Len(log'[q])
        <5>1. match[a] <= Len(log'[q]) /\ Len(log'[q]) \in Nat
          BY <1>8, <3>6 DEF OnAllAfter, LogsOnlyGrow
        <5>2. QED
          BY <3>3, <3>4, <3>6, <5>1
      <4>2. QED
        BY <4>1 DEF OnAllAfter
    <3>8. last_applied[t] <= c
      BY <2>1, <3>2, <3>3, <3>5, <3>6
    <3>9. QED
      BY <1>2, <3>2, <3>7, <3>8
  <2>4. QED
    BY <2>2, <2>3
<1>12. QED
  BY <1>9, <1>10, <1>11, MatchesStoredAfter

LEMMA VotersBehindStep ==
  ASSUME TypeOK, TypeOK', VoteInv, RunsOfEntries, ConfigEntries, PairInv, LogsOnlyGrow, VotersStayBehind,
         [Next]_vars
  PROVE  VotersBehind'
<1>1. VotersBehind
  BY DEF PairInv
<1>2. \A s \in Server : last_entry_index(s) = Len(log[s]) /\ Len(log[s]) \in Nat
  BY LastEntryOfRun, LogRun
<1>3. \A s \in Server : Len(log'[s]) \in Nat /\ Len(log[s]) <= Len(log'[s])
  BY DEF LogsOnlyGrow
<1>4. ASSUME NEW s \in Server, NEW q \in Server, NEW T \in Nat, role'[s] \in Standing,
             T = curr_term'[s], Granted(q, T, s)'
      PROVE  Len(log'[q]) <= Len(log'[s])
  <2>1. CASE role[s] \in Standing /\ Granted(q, curr_term[s], s)
    BY <1>4, <2>1 DEF VotersStayBehind
  <2>2. CASE q = s
    BY <1>3, <2>2
  <2>3. ASSUME NEW m \in calls, ServeRequestVote(m), m.src = s, m.dst = q, LogPermits(q, m),
               m.term = curr_term[s], role[s] \in Standing
        PROVE  Len(log'[q]) <= Len(log'[s])
    <3>1. UNCHANGED log /\ m.rpc = "request_vote"
      BY <2>3 DEF ServeRequestVote, logVars
    <3>2. m.last_log_index \in Nat /\ m.last_log_index <= Len(log[s])
      BY <1>1, <2>3, <3>1 DEF VotersBehind, TypeOK, VoteCall, AppendCall, TransferCall
    <3>3. ~(last_entry_index(q) > m.last_log_index)
      BY <2>3 DEF LogPermits
    <3>4. Len(log[q]) <= Len(log[s])
      BY <1>2, <3>2, <3>3
    <3>5. QED
      BY <3>1, <3>4
  <2>4. QED
    BY <1>4, <2>1, <2>2, <2>3, GrantKinds
<1>5. ASSUME NEW m \in calls', m.rpc = "request_vote", m.term = curr_term'[m.src], role'[m.src] \in Standing
      PROVE  m.last_log_index <= Len(log'[m.src])
  <2>1. m.src \in Server /\ m.last_log_index \in Nat
    BY <1>5 DEF TypeOK, VoteCall, AppendCall, TransferCall
  <2>2. m.last_log_index <= Len(log[m.src])
    <3>1. CASE m.last_log_index = last_entry_index(m.src)
      BY <1>2, <2>1, <3>1
    <3>2. CASE \E k \in calls : /\ k.rpc = "request_vote" /\ k.src = m.src /\ k.term = curr_term[m.src]
                                /\ k.last_log_index = m.last_log_index /\ role[m.src] \in Standing
      BY <1>1, <3>2 DEF VotersBehind
    <3>3. QED
      BY <1>5, <3>1, <3>2, RequestKinds
  <2>3. QED
    BY <1>2, <1>3, <2>1, <2>2
<1>6. ASSUME NEW s \in Server, NEW q \in Server, role'[s] \in Standing, Granted(q, curr_term[s], s)'
      PROVE  Len(log'[q]) <= Len(log'[s])
  <2>1. PICK T \in Nat : T = curr_term'[s]
    BY DEF TypeOK
  <2>2. Granted(q, T, s)'
    BY <1>6, <2>1 DEF Granted
  <2>3. QED
    BY <1>4, <1>6, <2>1, <2>2
<1>7. QED
  BY <1>5, <1>6 DEF VotersBehind

LEMMA PairStep ==
  ASSUME TypeOK, TypeOK', VoteInv, RunsOfEntries, ConfigEntries, PairInv, Cardinality(Server) = 2,
         ~log_compaction_enabled, [Next]_vars
  PROVE  PairInv'
<1>1. LogsOnlyGrow /\ LogsComparable' /\ VotersStayBehind
  BY PairLogs
<1>2. CallsFromLog'
  BY <1>1, CallsFromLogStep
<1>3. VotersBehind'
  BY <1>1, VotersBehindStep
<1>4. MatchesStored
  BY DEF PairInv
<1>5. MatchesStored'
  <2>1. CASE CommitQuiet
    BY <1>1, <1>4, <2>1, QuietStored
  <2>2. CASE \E s \in Server : ApplyLogCommitted(s) /\ ~Die(s)
    BY <1>1, <1>4, <2>2, ApplyStored
  <2>3. CASE \E m \in calls : AcceptAppendEntries(m)
    BY <1>1, <2>3, AcceptStored
  <2>4. CASE \E r \in results : AppendEntriesSucceeded(r) /\ ~Die(r.src)
    BY <1>1, <2>4, CountStored
  <2>5. QED
    BY <2>1, <2>2, <2>3, <2>4, CommitKinds
<1>6. QED
  BY <1>1, <1>2, <1>3, <1>5 DEF PairInv

LEMMA PairInit == Init => PairInv
<1>1. SUFFICES ASSUME Init PROVE PairInv
  OBVIOUS
<1>2. TypeOK
  BY <1>1, InitType
<1>3. calls = {} /\ results = {} /\ \A s, d \in Server : log[s] = log[d] /\ role[s] = "FOLLOWER"
  BY <1>1 DEF Init
<1>4. \A s \in Server : Len(log[s]) \in Nat
  BY <1>2 DEF TypeOK
<1>5. OnAll(0)
  BY <1>4 DEF OnAll
<1>6. \A s, n \in Server : match_index[s][n] = 0 /\ commit_index[s] = 0 /\ last_applied[s] = 0
  BY <1>1 DEF Init
<1>7. LogsComparable /\ CallsFromLog
  BY <1>3 DEF LogsComparable, CallsFromLog
<1>8. MatchesStored
  BY <1>3, <1>5, <1>6 DEF MatchesStored
<1>9. VotersBehind
  BY <1>3 DEF VotersBehind, Standing
<1>10. QED
  BY <1>7, <1>8, <1>9 DEF PairInv


\* In a cluster of two that does not compact its logs PairInv is an invariant: logs never
\* differ, what a server counts as stored or committed is in both, and no voter is ahead of
\* the server it voted for.
THEOREM PairAgrees ==
  ASSUME Cardinality(Server) = 2, ~log_compaction_enabled
  PROVE  Spec => []PairInv
<1>1. Init => PairInv
  BY PairInit
<1>2. TypeOK /\ TypeOK' /\ VoteInv /\ LogInv /\ PairInv /\ [Next]_vars => PairInv'
  BY PairStep DEF LogInv
<1>3. QED
  BY <1>1, <1>2, TypeCorrect, VotesConsistent, LogsConsistent, PTL DEF Spec

\* In such a cluster what a server takes for committed is stored by both.
THEOREM PairCommits ==
  ASSUME Cardinality(Server) = 2, ~log_compaction_enabled
  PROVE  Spec => []CommittedOnQuorum
<1>1. ASSUME TypeOK, LogInv, PairInv PROVE CommittedOnQuorum
  <2>1. SUFFICES ASSUME NEW s \in Server, NEW i \in Indices(s), i <= commit_index[s]
                 PROVE  IsMajority(Cardinality({n \in Server : StoredAt(n, i, EntryAt(s, i).term)}))
    BY DEF CommittedOnQuorum
  <2>2. \A n \in Server : /\ log[n] \in Seq(LogEntry) /\ last_index[n] = 0 /\ Len(log[n]) \in Nat
                          /\ \A k \in 1..Len(log[n]) : log[n][k].index = k
    BY <1>1, LogRun DEF LogInv
  <2>3. i \in 1..Len(log[s])
    <3>1. PICK k \in DOMAIN log[s] : i = log[s][k].index
      BY DEF Indices
    <3>2. k \in 1..Len(log[s])
      BY <2>2, <3>1
    <3>3. QED
      BY <2>2, <3>1, <3>2
  <2>4. ASSUME NEW n \in Server PROVE StoredAt(n, i, EntryAt(s, i).term)
    <3>1. commit_index[s] \in Nat /\ commit_index[s] <= Len(log[n])
      BY <1>1 DEF TypeOK, PairInv, MatchesStored, OnAll
    <3>2. i \in 1..Len(log[n]) /\ i # 0
      BY <2>1, <2>2, <2>3, <3>1
    <3>3. log[n][i] = log[s][i]
      BY <1>1, <2>3, <3>2 DEF PairInv, LogsComparable
    <3>4. i - last_index[n] = i /\ i - last_index[s] = i
      BY <2>2, <2>3
    <3>5. Present(n, i) /\ EntryAt(n, i) = log[n][i] /\ EntryAt(s, i) = log[s][i]
      BY <2>2, <3>2, <3>4 DEF Present, EntryAt
    <3>6. log[n][i].index = i
      BY <2>2, <3>2
    <3>7. has_entry(n, i, EntryAt(s, i).term)
      BY <3>3, <3>5, <3>6 DEF has_entry
    <3>8. QED
      BY <3>7 DEF StoredAt
  <2>5. {n \in Server : StoredAt(n, i, EntryAt(s, i).term)} = Server
    BY <2>4
  <2>6. IsMajority(Cardinality(Server))
    BY DEF IsMajority
  <2>7. QED
    BY <2>5, <2>6
<1>2. QED
  BY <1>1, TypeCorrect, LogsConsistent, PairAgrees, PTL

\* In such a cluster the apply thread stays behind commit_index, which stays inside the log.
THEOREM PairCommitsWithinLog ==
  ASSUME Cardinality(Server) = 2, ~log_compaction_enabled
  PROVE  Spec => []CommitWithinLog
<1>1. ASSUME TypeOK, LogInv, PairInv PROVE CommitWithinLog
  <2>1. SUFFICES ASSUME NEW s \in Server
                 PROVE  /\ last_index[s] <= last_applied[s]
                        /\ last_applied[s] <= commit_index[s]
                        /\ commit_index[s] <= last_entry_index(s)
    BY DEF CommitWithinLog
  <2>2. last_index[s] = 0 /\ last_applied[s] \in Nat /\ last_entry_index(s) = Len(log[s])
    BY <1>1, LastEntryOfRun DEF LogInv, RunsOfEntries, TypeOK
  <2>3. last_applied[s] <= commit_index[s] /\ commit_index[s] <= Len(log[s])
    BY <1>1 DEF PairInv, MatchesStored, OnAll
  <2>4. QED
    BY <2>2, <2>3
<1>2. QED
  BY <1>1, TypeCorrect, LogsConsistent, PairAgrees, PTL


=============================================================================
