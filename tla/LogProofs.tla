------------------------------ MODULE LogProofs ------------------------------
(***************************************************************************)
(* The safety of log replication, for every cluster and every bound: a     *)
(* leader only appends.  For MatchingProofs: what the entries of logs and  *)
(* calls say when nothing is compacted, and what a step adds to it.        *)
(***************************************************************************)
EXTENDS RaftProofs

-----------------------------------------------------------------------------
(***************************************************************************)
(* A leader only appends to its log or compacts its front.                 *)
(***************************************************************************)
\* drop(i) leaves of a log what follows position i - last_index, which is inside it.
LEMMA DropKeepsRest ==
  ASSUME NEW lg \in Seq(LogEntry), NEW n \in 1..Len(lg)
  PROVE  LET rest == SubSeq(lg, n + 1, Len(lg))
         IN Len(rest) <= Len(rest) /\ SubSeq(rest, 1, Len(rest)) = rest
<1>1. SubSeq(lg, n + 1, Len(lg)) \in Seq(LogEntry)
  OBVIOUS
<1>2. QED
  BY <1>1, SubSeqFull

\* Nothing is dropped from the front, so the whole old log is the beginning of the new one.
LEMMA PrefixKept ==
  ASSUME NEW lg \in Seq(LogEntry), NEW new \in Seq(LogEntry),
         new = lg \/ \E e \in LogEntry : new = Append(lg, e)
  PROVE  LET kept == SubSeq(lg, 1, Len(lg))
         IN Len(kept) <= Len(new) /\ SubSeq(new, 1, Len(kept)) = kept
<1>1. SubSeq(lg, 1, Len(lg)) = lg /\ SubSeq(new, 1, Len(new)) = new /\ Len(lg) \in Nat
  BY SubSeqFull
<1>2. CASE new = lg
  BY <1>1, <1>2
<1>3. ASSUME NEW e \in LogEntry, new = Append(lg, e)
      PROVE  Len(lg) <= Len(new) /\ SubSeq(new, 1, Len(lg)) = lg
  <2>1. Len(new) = Len(lg) + 1 /\ \A i \in 1..Len(lg) : new[i] = lg[i]
    BY <1>3, AppendProperties
  <2>2. \A i \in 1..Len(lg) : new[i] \in LogEntry
    BY <2>1
  <2>3. /\ SubSeq(new, 1, Len(lg)) \in Seq(LogEntry)
        /\ Len(SubSeq(new, 1, Len(lg))) = Len(lg)
        /\ \A i \in 1..Len(lg) : SubSeq(new, 1, Len(lg))[i] = lg[i]
    BY <1>1, <2>1, <2>2, SubSeqProperties
  <2>4. SubSeq(new, 1, Len(lg)) = lg
    BY <2>3, SeqEqual
  <2>5. QED
    BY <1>1, <2>1, <2>4
<1>4. QED
  BY <1>1, <1>2, <1>3

\* What the apply thread does to a log when it compacts it.
Compacts(s) ==
  LET i == last_applied[s] + 1 IN
  /\ log_compaction_enabled
  /\ Present(s, i)
  /\ log' = [log EXCEPT ![s] = CompactedAt(s, i)]
  /\ last_index' = [last_index EXCEPT ![s] = i]

\* A round of the apply thread leaves the log alone or compacts it.
LEMMA ApplyKinds ==
  ASSUME NEW s \in Server, ApplyLogCommitted(s)
  PROVE  UNCHANGED logVars \/ Compacts(s)
<1>1. CASE Die(s)
  BY <1>1 DEF Die
<1>2. CASE ~Die(s)
  BY <1>2 DEF ApplyLogCommitted, Compacts
<1>3. QED
  BY <1>1, <1>2

\* Neither a pre-vote round nor a timeout_now call that comes or goes touches a log or makes
\* an append_entries call.
LEMMA StandingLogs ==
  ASSUME TypeOK, (\E s \in Server : StartsRound(s)) \/ TellsToStand
  PROVE  UNCHANGED logVars /\ \A m \in calls' : m.rpc = "append_entries" => m \in calls
BY DEF StartsRound, TellsToStand

\* The steps by which a log changes: a client's append, compaction, and the handlers of
\* append_entries and data_transfer, which make a follower of the server.
LEMMA LogChanges ==
  ASSUME TypeOK, [Next]_vars, NEW s \in Server
  PROVE  \/ UNCHANGED <<log[s], last_index[s]>>
         \/ HandleAppend(s)
         \/ ApplyLogCommitted(s) /\ log_compaction_enabled
         \/ role'[s] = "FOLLOWER"
<1>1. CASE UNCHANGED vars
  BY <1>1 DEF vars, logVars
<1>2. ASSUME NEW t \in Server, ServerStep(t)
      PROVE  \/ UNCHANGED <<log[s], last_index[s]>>
             \/ HandleAppend(s)
             \/ ApplyLogCommitted(s) /\ log_compaction_enabled
             \/ role'[s] = "FOLLOWER"
  <2>1. CASE ElectionTimeout(t) \/ \E n \in Server : TransferLeadership(t, n)
    BY <2>1, TimeoutStartsRound, TransferTells, StandingLogs DEF logVars
  <2>2. CASE HeartbeatTimeout(t) \/ Restart(t)
    BY <2>2 DEF HeartbeatTimeout, Restart, Die, logVars
  <2>3. CASE HandleAppend(t)
    BY <2>3 DEF HandleAppend, TypeOK
  <2>4. CASE ApplyLogCommitted(t)
    <3>1. CASE t = s /\ log_compaction_enabled
      BY <2>4, <3>1
    <3>2. CASE Compacts(t)
      BY <3>1, <3>2 DEF Compacts, TypeOK
    <3>3. CASE UNCHANGED logVars
      BY <3>3 DEF logVars
    <3>4. QED
      BY <2>4, <3>2, <3>3, ApplyKinds
  <2>5. QED
    BY <1>2, <2>1, <2>2, <2>3, <2>4 DEF ServerStep
<1>3. ASSUME NEW m \in calls, ServeCall(m)
      PROVE  UNCHANGED <<log[s], last_index[s]>> \/ role'[s] = "FOLLOWER"
  <2>1. CASE AcceptAppendEntries(m)
    <3>1. m.dst \in Server /\ FollowTerm(m.dst, m.term) /\ UNCHANGED last_index
      BY <2>1, CallFields DEF AcceptAppendEntries
    <3>2. \E new : log' = [log EXCEPT ![m.dst] = new]
      BY <2>1 DEF AcceptAppendEntries
    <3>3. QED
      BY <3>1, <3>2 DEF FollowTerm, TypeOK
  <2>2. CASE ServeDataTransfer(m)
    <3>1. m.dst \in Server /\ FollowTerm(m.dst, m.term)
      BY <2>2, CallFields DEF ServeDataTransfer
    <3>2. \/ UNCHANGED <<log, last_index>>
          \/ \E new, i : /\ log' = [log EXCEPT ![m.dst] = new]
                         /\ last_index' = [last_index EXCEPT ![m.dst] = i]
      BY <2>2 DEF ServeDataTransfer, logVars
    <3>3. QED
      BY <3>1, <3>2 DEF FollowTerm, TypeOK
  <2>3. CASE ServeTimeoutNow(m)
    BY <2>3, TimeoutNowStartsRound, StandingLogs DEF logVars
  <2>4. CASE ~AcceptAppendEntries(m) /\ ~ServeDataTransfer(m) /\ ~ServeTimeoutNow(m)
    BY <1>3, <2>4 DEF ServeCall, ServePreVote, ServeRequestVote, RejectAppendEntries,
         RefuseAppendEntries, RejectTransfer, ServeDoneTransfer, logVars
  <2>5. QED
    BY <2>1, <2>2, <2>3, <2>4
<1>4. ASSUME NEW r \in results, OnResult(r)
      PROVE  UNCHANGED <<log[s], last_index[s]>>
  BY <1>4 DEF OnResult, OnPreVote, on_pre_vote, OnRequestVote, IgnoreAppendEntries,
       AppendEntriesSucceeded, AppendEntriesRefused, StepDownOnResult, OnDataTransfer,
       OnDoneTransfer, TransferRefused, OnTimeoutNow, Die, logVars
<1>5. ASSUME NEW m \in calls \cup results, PreVoteFailed(m) \/ CallFailed(m) \/ RetryTimeoutNow(m)
      PROVE  UNCHANGED <<log[s], last_index[s]>>
  BY <1>5, RetryTells, StandingLogs DEF PreVoteFailed, on_pre_vote, CallFailed, logVars
<1>6. QED
  BY <1>1, <1>2, <1>3, <1>4, <1>5 DEF Next

\* A leader that stays leader only appends to its log or compacts its front, in every
\* cluster and whatever calls of other leaders, late or from its own term, reach it.
THEOREM LeadersAppend == Spec => LeaderAppendOnly
<1> DEFINE Kept(s) == LET dropped == last_index'[s] - last_index[s]
                          kept == SubSeq(log[s], dropped + 1, Len(log[s]))
                      IN Len(kept) <= Len(log'[s]) /\ SubSeq(log'[s], 1, Len(kept)) = kept
<1>1. ASSUME TypeOK, TypeOK', [Next]_vars, NEW s \in Server, role[s] = "LEADER", role'[s] = "LEADER"
      PROVE  Kept(s)
  <2>1. /\ log[s] \in Seq(LogEntry) /\ log'[s] \in Seq(LogEntry)
        /\ last_index[s] \in Nat /\ last_index'[s] \in Nat
    BY <1>1 DEF TypeOK
  <2>2. ASSUME last_index'[s] = last_index[s],
               log'[s] = log[s] \/ \E e \in LogEntry : log'[s] = Append(log[s], e)
        PROVE  Kept(s)
    <3>1. last_index'[s] - last_index[s] + 1 = 1
      BY <2>1, <2>2
    <3>2. QED
      BY <2>1, <2>2, <3>1, PrefixKept
  <2>3. CASE HandleAppend(s)
    <3>1. curr_term[s] \in Nat /\ last_entry_index(s) \in Nat
      BY <1>1, LastEntryType DEF TypeOK
    <3> DEFINE e == [index |-> last_entry_index(s) + 1, term |-> curr_term[s], cfg |-> FALSE]
    <3>2. e \in LogEntry
      BY <3>1 DEF LogEntry
    <3>3. log'[s] = Append(log[s], e) /\ last_index'[s] = last_index[s]
      BY <1>1, <2>3 DEF HandleAppend, TypeOK
    <3>4. QED
      BY <2>2, <3>2, <3>3
  <2>4. CASE ApplyLogCommitted(s) /\ log_compaction_enabled /\ ~UNCHANGED <<log[s], last_index[s]>>
    <3> DEFINE i == last_applied[s] + 1
    <3>1. /\ Present(s, i)
          /\ log' = [log EXCEPT ![s] = CompactedAt(s, i)]
          /\ last_index' = [last_index EXCEPT ![s] = i]
      BY <2>4, ApplyKinds DEF Compacts, logVars
    <3>2. last_applied[s] \in Nat
      BY <1>1 DEF TypeOK
    <3>3. i - last_index[s] \in 1..Len(log[s])
      BY <2>1, <3>1, <3>2 DEF Present
    <3>4. /\ log'[s] = SubSeq(log[s], i - last_index[s] + 1, Len(log[s]))
          /\ last_index'[s] - last_index[s] = i - last_index[s]
      BY <1>1, <3>1 DEF CompactedAt, TypeOK
    <3>5. QED
      BY <2>1, <3>3, <3>4, DropKeepsRest
  <2>5. QED
    BY <1>1, <2>2, <2>3, <2>4, LogChanges
<1>2. TypeOK /\ TypeOK' /\ [Next]_vars =>
        [\A s \in Server : role[s] = "LEADER" /\ role'[s] = "LEADER" => Kept(s)]_vars
  BY <1>1
<1>3. QED
  BY <1>2, TypeCorrect, PTL DEF Spec, LeaderAppendOnly

-----------------------------------------------------------------------------
(***************************************************************************)
(* The links of a run of entries.                                          *)
(***************************************************************************)
LEMMA LinkIn ==
  ASSUME NEW es \in Seq(LogEntry), NEW base, NEW bt, NEW k \in 1..Len(es)
  PROVE  [index |-> base + k, term |-> es[k].term, prev |-> IF k = 1 THEN bt ELSE es[k - 1].term]
           \in LinksOf(base, bt, es)
BY DEF LinksOf

LEMMA LinkOut ==
  ASSUME NEW es \in Seq(LogEntry), NEW base, NEW bt, NEW x \in LinksOf(base, bt, es)
  PROVE  \E k \in 1..Len(es) : /\ x.index = base + k
                               /\ x.term = es[k].term
                               /\ x.prev = IF k = 1 THEN bt ELSE es[k - 1].term
                               /\ x = [index |-> base + k, term |-> es[k].term,
                                       prev |-> IF k = 1 THEN bt ELSE es[k - 1].term]
BY DEF LinksOf

\* The end of a run, from the entry after its n-th on, says nothing new (entries_from).
LEMMA LinksOfSuffix ==
  ASSUME NEW es \in Seq(LogEntry), NEW base \in Nat, NEW bt \in Nat, NEW n \in 0..Len(es)
  PROVE  LinksOf(base + n, IF n = 0 THEN bt ELSE es[n].term, SubSeq(es, n + 1, Len(es)))
           \subseteq LinksOf(base, bt, es)
<1> DEFINE rest == SubSeq(es, n + 1, Len(es))
           b == IF n = 0 THEN bt ELSE es[n].term
<1>1. rest \in Seq(LogEntry) /\ Len(rest) = Len(es) - n /\ \A k \in 1..Len(rest) : rest[k] = es[n + k]
  OBVIOUS
<1> HIDE DEF rest
<1>2. SUFFICES ASSUME NEW x \in LinksOf(base + n, b, rest) PROVE x \in LinksOf(base, bt, es)
  BY DEF rest
<1>3. PICK k \in 1..Len(rest) :
        x = [index |-> (base + n) + k, term |-> rest[k].term, prev |-> IF k = 1 THEN b ELSE rest[k - 1].term]
  BY <1>1, LinkOut
<1>4. n + k \in 1..Len(es) /\ (base + n) + k = base + (n + k) /\ rest[k].term = es[n + k].term
  BY <1>1
<1>5. (IF k = 1 THEN b ELSE rest[k - 1].term) = (IF n + k = 1 THEN bt ELSE es[(n + k) - 1].term)
  <2>1. CASE k = 1
    BY <2>1
  <2>2. CASE k # 1
    <3>1. k - 1 \in 1..Len(rest) /\ n + (k - 1) = (n + k) - 1 /\ n + k # 1
      BY <1>1, <2>2
    <3>2. QED
      BY <1>1, <2>2, <3>1
  <2>3. QED
    BY <2>1, <2>2
<1>6. QED
  BY <1>3, <1>4, <1>5, LinkIn

\* A beginning of a log followed by other entries: chop and append.
LEMMA ChopThenAppend ==
  ASSUME NEW es \in Seq(LogEntry), NEW n \in 0..Len(es), NEW tail \in Seq(LogEntry)
  PROVE  /\ SubSeq(es, 1, n) \o tail \in Seq(LogEntry)
         /\ Len(SubSeq(es, 1, n) \o tail) = n + Len(tail)
         /\ \A k \in 1..n : (SubSeq(es, 1, n) \o tail)[k] = es[k]
         /\ \A k \in 1..Len(tail) : (SubSeq(es, 1, n) \o tail)[n + k] = tail[k]
OBVIOUS

LEMMA LinksOfConcat ==
  ASSUME NEW es \in Seq(LogEntry), NEW n \in 0..Len(es), NEW tail \in Seq(LogEntry)
  PROVE  LinksOf(0, 0, SubSeq(es, 1, n) \o tail)
           \subseteq LinksOf(0, 0, es) \cup LinksOf(n, IF n = 0 THEN 0 ELSE es[n].term, tail)
<1> DEFINE all == SubSeq(es, 1, n) \o tail
           b == IF n = 0 THEN 0 ELSE es[n].term
<1>1. /\ all \in Seq(LogEntry) /\ Len(all) = n + Len(tail)
      /\ \A k \in 1..n : all[k] = es[k]
      /\ \A k \in 1..Len(tail) : all[n + k] = tail[k]
  BY ChopThenAppend
<1> HIDE DEF all
<1>2. SUFFICES ASSUME NEW x \in LinksOf(0, 0, all) PROVE x \in LinksOf(0, 0, es) \cup LinksOf(n, b, tail)
  BY DEF all
<1>3. PICK k \in 1..Len(all) :
        x = [index |-> 0 + k, term |-> all[k].term, prev |-> IF k = 1 THEN 0 ELSE all[k - 1].term]
  BY <1>1 DEF LinksOf
<1>4. CASE k <= n
  <2>1. k \in 1..Len(es) /\ all[k] = es[k]
    BY <1>1, <1>4
  <2>2. k # 1 => k - 1 \in 1..n
    BY <1>4
  <2>3. (IF k = 1 THEN 0 ELSE all[k - 1].term) = (IF k = 1 THEN 0 ELSE es[k - 1].term)
    BY <1>1, <2>2
  <2>4. QED
    BY <1>3, <2>1, <2>3, LinkIn
<1>5. CASE k > n
  <2> DEFINE j == k - n
  <2>1. j \in 1..Len(tail) /\ k = n + j /\ all[k] = tail[j] /\ 0 + k = n + j
    <3>1. k \in 1..(n + Len(tail)) /\ Len(tail) \in Nat /\ n \in Nat
      BY <1>1
    <3>2. j \in 1..Len(tail) /\ k = n + j /\ 0 + k = n + j
      BY <1>5, <3>1
    <3>3. all[n + j] = tail[j]
      BY <1>1, <3>2
    <3>4. QED
      BY <3>2, <3>3
  <2>2. (IF k = 1 THEN 0 ELSE all[k - 1].term) = (IF j = 1 THEN b ELSE tail[j - 1].term)
    <3>1. CASE j = 1 /\ n = 0
      BY <2>1, <3>1
    <3>2. CASE j = 1 /\ n # 0
      <4>1. k # 1 /\ k - 1 = n /\ n \in 1..n
        BY <2>1, <3>2
      <4>2. QED
        BY <1>1, <3>2, <4>1
    <3>3. CASE j # 1
      <4>1. k # 1 /\ k - 1 = n + (j - 1) /\ j - 1 \in 1..Len(tail)
        BY <1>1, <2>1, <3>3
      <4>2. QED
        BY <1>1, <3>3, <4>1
    <3>4. QED
      BY <3>1, <3>2, <3>3
  <2>3. QED
    BY <1>3, <2>1, <2>2, LinkIn
<1>6. QED
  BY <1>4, <1>5

-----------------------------------------------------------------------------
(***************************************************************************)
(* The entries of a call are a piece of the caller's log.                  *)
(***************************************************************************)
\* A configuration entry is one of the first term.
ConfigOfTerm(e) == e.cfg <=> e.term = 1

LEMMA LinksIn ==
  ASSUME NEW lgs, NEW cs, NEW x
  PROVE  x \in (UNION {LinksOf(0, 0, lgs[s]) : s \in Server})
               \cup (UNION {LinksOf(m.prev_log_index, m.prev_log_term, m.entries)
                              : m \in {c \in cs : c.rpc = "append_entries"}})
           <=> \/ \E s \in Server : x \in LinksOf(0, 0, lgs[s])
               \/ \E m \in cs : /\ m.rpc = "append_entries"
                                /\ x \in LinksOf(m.prev_log_index, m.prev_log_term, m.entries)
OBVIOUS

LEMMA LinksIff ==
  ASSUME NEW x
  PROVE  x \in Links <=> \/ \E s \in Server : x \in LinksOf(0, 0, log[s])
                         \/ \E m \in calls : /\ m.rpc = "append_entries"
                                             /\ x \in LinksOf(m.prev_log_index, m.prev_log_term, m.entries)
BY LinksIn DEF Links, CallsOf

LEMMA LinksIffPrime ==
  ASSUME NEW x
  PROVE  x \in Links' <=> \/ \E s \in Server : x \in LinksOf(0, 0, log'[s])
                          \/ \E m \in calls' : /\ m.rpc = "append_entries"
                                               /\ x \in LinksOf(m.prev_log_index, m.prev_log_term, m.entries)
BY LinksIn DEF Links, CallsOf

LEMMA NoLinks ==
  ASSUME NEW base, NEW bt
  PROVE  LinksOf(base, bt, <<>>) = {}
BY DEF LinksOf

\* A call says nothing that is not said already, and its entries are a run.
Fits(m) ==
  /\ m \in AppendCall
  /\ \A k \in 1..Len(m.entries) : /\ m.entries[k].index = m.prev_log_index + k
                                  /\ ConfigOfTerm(m.entries[k])
  /\ LinksOf(m.prev_log_index, m.prev_log_term, m.entries) \subseteq Links

LEMMA AppendCalls ==
  ASSUME TypeOK, NEW m \in calls, m.rpc = "append_entries"
  PROVE  m \in AppendCall
BY DEF TypeOK, VoteCall, AppendCall, TransferCall

LEMMA OpenCallFits ==
  ASSUME TypeOK, RunsOfEntries, ConfigEntries, NEW m \in calls, m.rpc = "append_entries"
  PROVE  Fits(m)
<1>1. m \in AppendCall /\ m.entries \in Seq(LogEntry) /\ m \in CallsOf("append_entries")
  BY AppendCalls DEF AppendCall, CallsOf
<1>2. \A k \in 1..Len(m.entries) : /\ m.entries[k].index = m.prev_log_index + k
                                   /\ ConfigOfTerm(m.entries[k])
  <2>1. \A k \in DOMAIN m.entries : m.entries[k].index = m.prev_log_index + k
    BY <1>1 DEF RunsOfEntries
  <2>2. \A k \in DOMAIN m.entries : ConfigOfTerm(m.entries[k])
    BY <1>1 DEF ConfigEntries, ConfigOfTerm
  <2>3. QED
    BY <1>1, <2>1, <2>2
<1>3. LinksOf(m.prev_log_index, m.prev_log_term, m.entries) \subseteq Links
  BY <1>1, LinksIff
<1>4. QED
  BY <1>1, <1>2, <1>3 DEF Fits

\* What append_entries(n) and fill put into a call, whether next_index is in the log or
\* behind it.
LEMMA NewCallFits ==
  ASSUME TypeOK, RunsOfEntries, ConfigEntries,
         NEW s \in Server, NEW n \in Server, NEW next \in Nat \ {0}, NEW id \in Nat
  PROVE  Fits(append_entries_call(s, n, next, id))
<1> DEFINE m == append_entries_call(s, n, next, id)
           lg == log[s]
<1>1. /\ lg \in Seq(LogEntry) /\ last_index[s] = 0
      /\ \A k \in 1..Len(lg) : lg[k].index = k /\ ConfigOfTerm(lg[k])
  <2>1. lg \in Seq(LogEntry) /\ last_index[s] = 0 /\ \A k \in DOMAIN lg : lg[k].index = k
    BY DEF TypeOK, RunsOfEntries
  <2>2. \A k \in DOMAIN lg : ConfigOfTerm(lg[k])
    BY DEF ConfigEntries, ConfigOfTerm
  <2>3. QED
    BY <2>1, <2>2
<1>2. m \in AppendCall
  BY AppendCallType
<1>3. /\ m.entries = EntriesFrom(s, next)
      /\ m.prev_log_index = PrevLog(s, next - 1).index /\ m.prev_log_term = PrevLog(s, next - 1).term
  BY DEF append_entries_call
<1> SUFFICES Fits(m)
  OBVIOUS
<1> HIDE DEF m
<1>4. CASE ~Present(s, next)
  <2>1. m.entries = <<>>
    BY <1>3, <1>4 DEF EntriesFrom
  <2>2. QED
    BY <1>2, <2>1, NoLinks DEF Fits
<1>5. CASE Present(s, next)
  <2>1. next \in 1..Len(lg) /\ next - last_index[s] = next
    BY <1>1, <1>5 DEF Present
  <2>2. m.entries = SubSeq(lg, next, Len(lg))
    BY <1>3, <1>5, <2>1 DEF EntriesFrom
  <2>3. m.prev_log_index = next - 1 /\ m.prev_log_term = IF next - 1 = 0 THEN 0 ELSE lg[next - 1].term
    <3>1. CASE next = 1
      BY <1>3, <3>1 DEF PrevLog, Present, EntryAt, Sentry
    <3>2. CASE next # 1
      <4>1. next - 1 \in 1..Len(lg) /\ next - 1 # 0 /\ (next - 1) - last_index[s] = next - 1
        BY <1>1, <2>1, <3>2
      <4>2. Present(s, next - 1) /\ EntryAt(s, next - 1) = lg[next - 1]
        BY <1>1, <4>1 DEF Present, EntryAt
      <4>3. QED
        BY <1>1, <1>3, <4>1, <4>2 DEF PrevLog
    <3>3. QED
      BY <3>1, <3>2
  <2>4. /\ Len(m.entries) = Len(lg) - (next - 1)
        /\ \A k \in 1..Len(m.entries) : (next - 1) + k \in 1..Len(lg) /\ m.entries[k] = lg[(next - 1) + k]
    BY SMTT(30), <1>1, <2>1, <2>2
  <2>5. \A k \in 1..Len(m.entries) : /\ m.entries[k].index = m.prev_log_index + k
                                     /\ ConfigOfTerm(m.entries[k])
    BY ZenonT(40), <1>1, <2>3, <2>4
  <2>6. LinksOf(m.prev_log_index, m.prev_log_term, m.entries) \subseteq LinksOf(0, 0, lg)
    <3> DEFINE p == next - 1
    <3>1. p \in 0..Len(lg) /\ p + 1 = next /\ 0 + p = p
      BY <2>1
    <3> HIDE DEF p
    <3>2. LinksOf(0 + p, IF p = 0 THEN 0 ELSE lg[p].term, SubSeq(lg, p + 1, Len(lg)))
            \subseteq LinksOf(0, 0, lg)
      BY <1>1, <3>1, LinksOfSuffix
    <3>3. QED
      BY <2>2, <2>3, <3>1, <3>2 DEF p
  <2>7. LinksOf(0, 0, lg) \subseteq Links
    BY LinksIff
  <2>8. QED
    BY <1>2, <2>5, <2>6, <2>7 DEF Fits
<1>6. QED
  BY <1>4, <1>5

\* A call that was open before the step, or outlived its caller's process in it.
OldCall(m) ==
  \E k \in calls : /\ k.rpc = "append_entries" /\ m \in AppendCall
                   /\ m.src = k.src /\ m.entries = k.entries /\ m.leader_commit = k.leader_commit
                   /\ m.prev_log_index = k.prev_log_index /\ m.prev_log_term = k.prev_log_term

\* A call that a server makes.
MadeCall(m) ==
  \E s, n \in Server : \E next \in Nat \ {0}, id \in Nat : m = append_entries_call(s, n, next, id)

LEMMA OldCallFits ==
  ASSUME TypeOK, RunsOfEntries, ConfigEntries, NEW m, OldCall(m) \/ MadeCall(m)
  PROVE  Fits(m)
<1>1. CASE MadeCall(m)
  BY <1>1, NewCallFits DEF MadeCall
<1>2. CASE OldCall(m)
  <2>1. PICK k \in calls : /\ k.rpc = "append_entries" /\ m \in AppendCall /\ m.entries = k.entries
                           /\ m.prev_log_index = k.prev_log_index /\ m.prev_log_term = k.prev_log_term
    BY <1>2 DEF OldCall
  <2>2. Fits(k)
    BY <2>1, OpenCallFits
  <2>3. QED
    BY <2>1, <2>2 DEF Fits
<1>3. QED
  BY <1>1, <1>2

LEMMA OpenCallIsOld ==
  ASSUME TypeOK, NEW m \in calls, m.rpc = "append_entries"
  PROVE  OldCall(m)
BY AppendCalls DEF OldCall

LEMMA AppendToKinds ==
  ASSUME TypeOK, NEW s \in Server, NEW targets \in SUBSET Server,
         NEW next \in [Server -> Nat \ {0}], NEW R, append_entries_to(s, targets, next, calls, R),
         NEW m \in calls', m.rpc = "append_entries"
  PROVE  OldCall(m) \/ MadeCall(m)
<1>1. CASE m \in calls
  BY <1>1, OpenCallIsOld
<1>2. CASE m \notin calls
  <2>1. PICK n \in targets : m = append_entries_call(s, n, next[n], FreeId("append", s, n, calls, R))
    BY <1>2 DEF append_entries_to
  <2>2. FreeId("append", s, n, calls, R) \in Nat
    BY FreeIdType DEF append_entries_to
  <2>3. n \in Server /\ next[n] \in Nat \ {0}
    OBVIOUS
  <2>4. QED
    BY <2>1, <2>2, <2>3 DEF MadeCall
<1>3. QED
  BY <1>1, <1>2

\* A call outlives its caller's process unchanged.
LEMMA DieKinds ==
  ASSUME TypeOK, NEW s \in Server, Die(s), NEW m \in calls', m.rpc = "append_entries"
  PROVE  OldCall(m)
<1>1. CASE m \in calls
  BY <1>1, OpenCallIsOld
<1>2. CASE m \notin calls
  <2>1. PICK k \in calls : m = [k EXCEPT !.live = FALSE]
    BY <1>2 DEF Die
  <2>2. k.rpc = "append_entries"
    <3>1. CASE k \in VoteCall
      BY <2>1, <3>1 DEF VoteCall
    <3>2. CASE k \in AppendCall
      BY <2>1, <3>2 DEF AppendCall
    <3>3. CASE k \in TransferCall
      BY <2>1, <3>3 DEF TransferCall
    <3>4. QED
      BY <3>1, <3>2, <3>3 DEF TypeOK
  <2>3. k \in AppendCall
    BY <2>2, AppendCalls
  <2>4. /\ m \in AppendCall /\ m.src = k.src /\ m.entries = k.entries /\ m.leader_commit = k.leader_commit
        /\ m.prev_log_index = k.prev_log_index /\ m.prev_log_term = k.prev_log_term
    BY <2>1, <2>3 DEF AppendCall
  <2>5. QED
    BY <2>2, <2>4 DEF OldCall
<1>3. QED
  BY <1>1, <1>2

\* Every step but a client's append and an accepted append_entries leaves the logs alone,
\* and every call that is open after a step was open before it or is made in it.
LEMMA CallKinds ==
  ASSUME TypeOK, ~log_compaction_enabled, [Next]_vars
  PROVE  /\ \A m \in calls' : m.rpc = "append_entries" => OldCall(m) \/ MadeCall(m)
         /\ \/ UNCHANGED logVars
            \/ \E s \in Server : HandleAppend(s)
            \/ \E m \in calls : AcceptAppendEntries(m)
<1> DEFINE AllKnown == \A m \in calls' : m.rpc = "append_entries" => OldCall(m) \/ MadeCall(m)
           Kinds == \/ UNCHANGED logVars
                    \/ \E s \in Server : HandleAppend(s)
                    \/ \E m \in calls : AcceptAppendEntries(m)
<1>1. ASSUME \A m \in calls' : m.rpc = "append_entries" => m \in calls
      PROVE  AllKnown
  BY <1>1, OpenCallIsOld
<1>2. CASE UNCHANGED vars
  BY <1>1, <1>2 DEF vars, netVars
<1>3. ASSUME NEW s \in Server, ServerStep(s)
      PROVE  AllKnown /\ Kinds
  <2>1. CASE ElectionTimeout(s) \/ \E n \in Server : TransferLeadership(s, n)
    BY <1>1, <2>1, TimeoutStartsRound, TransferTells, StandingLogs
  <2>2. CASE HeartbeatTimeout(s)
    <3>1. /\ append_entries_to(s, HeartbeatTargets(s), next_index[s], calls, results)
          /\ UNCHANGED logVars
      BY <2>2 DEF HeartbeatTimeout
    <3>2. HeartbeatTargets(s) \in SUBSET Server /\ next_index[s] \in [Server -> Nat \ {0}]
      BY DEF HeartbeatTargets, TypeOK
    <3>3. QED
      BY <3>1, <3>2, AppendToKinds
  <2>3. CASE HandleAppend(s)
    BY <1>1, <2>3 DEF HandleAppend, netVars
  <2>4. CASE Die(s)
    BY <2>4, DieKinds DEF Die
  <2>5. CASE ApplyLogCommitted(s) /\ ~Die(s)
    <3>1. UNCHANGED <<logVars, calls>>
      BY <2>5 DEF ApplyLogCommitted, netVars
    <3>2. QED
      BY <1>1, <3>1
  <2>6. QED
    BY <1>3, <2>1, <2>2, <2>3, <2>4, <2>5 DEF ServerStep, Restart
<1>4. ASSUME NEW m \in calls, ServeCall(m)
      PROVE  AllKnown /\ Kinds
  <2>1. CASE ServeTimeoutNow(m)
    BY <1>1, <2>1, TimeoutNowStartsRound, StandingLogs
  <2>2. CASE ~ServeTimeoutNow(m)
    <3>1. calls' \subseteq calls
      BY <1>4, <2>2 DEF ServeCall, ServePreVote, ServeRequestVote, RejectAppendEntries,
           RefuseAppendEntries, AcceptAppendEntries, RejectTransfer, ServeDataTransfer,
           ServeDoneTransfer, Reply
    <3>2. UNCHANGED logVars \/ AcceptAppendEntries(m)
      BY <1>4, <2>2 DEF ServeCall, ServePreVote, ServeRequestVote, RejectAppendEntries,
           RefuseAppendEntries, RejectTransfer, ServeDataTransfer, ServeDoneTransfer
    <3>3. QED
      BY <1>1, <3>1, <3>2
  <2>3. QED
    BY <2>1, <2>2
<1>5. ASSUME NEW s \in Server, NEW granted, NEW C \in SUBSET calls, on_pre_vote(s, granted, C)
      PROVE  AllKnown /\ UNCHANGED logVars
  <2>1. UNCHANGED logVars
    BY <1>5 DEF on_pre_vote
  <2>2. CASE calls' = C
    BY <1>1, <2>1, <2>2
  <2>3. CASE leader_election(s, C)
    <3>1. \A m \in calls' : m.rpc = "append_entries" => m \in calls
      BY <2>3 DEF leader_election, vote_call
    <3>2. QED
      BY <1>1, <2>1, <3>1
  <2>4. QED
    BY <1>5, <2>2, <2>3 DEF on_pre_vote, checkout
<1>6. ASSUME NEW r \in results, OnResult(r)
      PROVE  AllKnown /\ Kinds
  <2>1. r.src \in Server /\ r.dst \in Server /\ r.match_index \in Nat
    BY CallFields
  <2>2. next_index[r.src] \in [Server -> Nat \ {0}] /\ HeartbeatTargets(r.src) \in SUBSET Server
    BY <2>1 DEF TypeOK, HeartbeatTargets
  <2>3. CASE OnPreVote(r)
    BY <1>5, <2>1, <2>3 DEF OnPreVote
  <2>4. CASE OnRequestVote(r)
    <3>1. UNCHANGED logVars
      BY <2>4 DEF OnRequestVote
    <3>2. CASE UNCHANGED calls
      BY <1>1, <3>1, <3>2
    <3>3. CASE ~UNCHANGED calls
      <4>1. step_up(r.src, results \ {r})
        BY <2>4, <3>3 DEF OnRequestVote
      <4>2. [n \in Server |-> InitialNextIndex(r.src)] \in [Server -> Nat \ {0}]
        BY <2>1, LastEntryType DEF InitialNextIndex
      <4>3. QED
        BY <2>1, <2>2, <3>1, <4>1, <4>2, AppendToKinds DEF step_up
    <3>4. QED
      BY <3>2, <3>3
  <2>5. CASE IgnoreAppendEntries(r) \/ StepDownOnResult(r) \/ TransferRefused(r) \/ OnTimeoutNow(r)
    BY <1>1, <2>5 DEF IgnoreAppendEntries, StepDownOnResult, TransferRefused, OnTimeoutNow
  <2>6. CASE Die(r.src)
    BY <2>1, <2>6, DieKinds DEF Die
  <2>7. CASE AppendEntriesSucceeded(r) /\ ~Die(r.src)
    <3>1. UNCHANGED <<logVars, calls>>
      BY <2>7 DEF AppendEntriesSucceeded
    <3>2. QED
      BY <1>1, <3>1
  <2>8. CASE AppendEntriesRefused(r)
    <3>1. UNCHANGED logVars
      BY <2>8 DEF AppendEntriesRefused
    <3>2. CASE Present(r.src, RetryFrom(r))
      <4>1. [next_index[r.src] EXCEPT ![r.dst] = RetryFrom(r)] \in [Server -> Nat \ {0}]
        BY <2>1, <2>2 DEF RetryFrom
      <4>2. append_entries_to(r.src, {r.dst}, [next_index[r.src] EXCEPT ![r.dst] = RetryFrom(r)],
                              calls, results \ {r})
        BY <2>8, <3>2 DEF AppendEntriesRefused
      <4>3. {r.dst} \in SUBSET Server
        BY <2>1
      <4>4. QED
        BY <2>1, <3>1, <4>1, <4>2, <4>3, AppendToKinds
    <3>3. CASE ~Present(r.src, RetryFrom(r))
      <4>1. PICK id : calls' = calls \cup {data_transfer_call(r.src, r.dst, id)}
        BY <2>8, <3>3 DEF AppendEntriesRefused
      <4>2. \A m \in calls' : m.rpc = "append_entries" => m \in calls
        BY <4>1 DEF data_transfer_call
      <4>3. QED
        BY <1>1, <3>1, <4>2
    <3>4. QED
      BY <3>2, <3>3
  <2>9. CASE OnDataTransfer(r)
    <3>1. UNCHANGED logVars /\ \A m \in calls' : m.rpc = "append_entries" => m \in calls
      BY <2>9 DEF OnDataTransfer
    <3>2. QED
      BY <1>1, <3>1
  <2>10. CASE OnDoneTransfer(r)
    <3>1. UNCHANGED logVars /\ {r.dst} \in SUBSET Server
      BY <2>1, <2>10 DEF OnDoneTransfer
    <3>2. append_entries_to(r.src, {r.dst}, next_index[r.src], calls, results \ {r})
      BY <2>10 DEF OnDoneTransfer
    <3>3. QED
      BY <2>1, <2>2, <3>1, <3>2, AppendToKinds
  <2>11. QED
    BY <1>6, <2>3, <2>4, <2>5, <2>6, <2>7, <2>8, <2>9, <2>10 DEF OnResult
<1>7. ASSUME NEW m \in calls \cup results, PreVoteFailed(m) \/ CallFailed(m) \/ RetryTimeoutNow(m)
      PROVE  AllKnown /\ Kinds
  <2>1. m.src \in Server /\ calls \ {m} \in SUBSET calls
    BY CallFields
  <2>2. CASE PreVoteFailed(m)
    BY <1>5, <2>1, <2>2 DEF PreVoteFailed
  <2>3. CASE CallFailed(m)
    BY <1>1, <2>3 DEF CallFailed
  <2>4. CASE RetryTimeoutNow(m)
    BY <1>1, <2>4, RetryTells, StandingLogs
  <2>5. QED
    BY <1>7, <2>2, <2>3, <2>4
<1>8. QED
  BY <1>2, <1>3, <1>4, <1>6, <1>7 DEF Next, vars

\* So every call that is open after a step fits into what was said before it.
LEMMA LogKinds ==
  ASSUME TypeOK, RunsOfEntries, ConfigEntries, ~log_compaction_enabled, [Next]_vars
  PROVE  /\ \A m \in calls' : m.rpc = "append_entries" => Fits(m)
         /\ \/ UNCHANGED logVars
            \/ \E s \in Server : HandleAppend(s)
            \/ \E m \in calls : AcceptAppendEntries(m)
BY CallKinds, OldCallFits

-----------------------------------------------------------------------------
(***************************************************************************)
(* What an accepted append_entries leaves in the log.                      *)
(***************************************************************************)
LEMMA LogRun ==
  ASSUME TypeOK, RunsOfEntries, ConfigEntries, NEW s \in Server
  PROVE  /\ log[s] \in Seq(LogEntry) /\ last_index[s] = 0 /\ last_term[s] = 0 /\ Len(log[s]) \in Nat
         /\ \A k \in 1..Len(log[s]) : log[s][k].index = k /\ ConfigOfTerm(log[s][k])
<1>1. /\ log[s] \in Seq(LogEntry) /\ last_index[s] = 0 /\ last_term[s] = 0
      /\ \A k \in DOMAIN log[s] : log[s][k].index = k
  BY DEF TypeOK, RunsOfEntries
<1>2. \A k \in DOMAIN log[s] : ConfigOfTerm(log[s][k])
  BY DEF ConfigEntries, ConfigOfTerm
<1>3. QED
  BY <1>1, <1>2

\* The term of the i-th entry of a log that is not compacted; its sentry has term 0.
TermAt(lg, i) == IF i = 0 THEN 0 ELSE lg[i].term

\* has_entry in a log that is not compacted.
LEMMA HasEntry ==
  ASSUME TypeOK, RunsOfEntries, ConfigEntries, NEW s \in Server, NEW i \in Nat, NEW t,
         has_entry(s, i, t)
  PROVE  i \in 0..Len(log[s]) /\ t = TermAt(log[s], i)
<1>1. /\ log[s] \in Seq(LogEntry) /\ last_index[s] = 0 /\ last_term[s] = 0 /\ Len(log[s]) \in Nat
      /\ i - last_index[s] = i
  BY LogRun
<1>2. CASE i = 0
  BY <1>1, <1>2 DEF has_entry, Present, EntryAt, Sentry, TermAt
<1>3. CASE i # 0
  BY <1>1, <1>3 DEF has_entry, Present, EntryAt, TermAt
<1>4. QED
  BY <1>2, <1>3

\* skip, chop and append: the new log is the beginning of the old one, up to the entry the
\* rest of the call's entries follow, and that rest.
LEMMA LogAfterCall ==
  ASSUME TypeOK, RunsOfEntries, ConfigEntries, NEW m \in calls, m.rpc = "append_entries",
         has_entry(m.dst, m.prev_log_index, m.prev_log_term),
         NEW k \in 0..Len(m.entries), Skips(m.dst, m.entries, k), k # Len(m.entries)
  PROVE  LET lg == log[m.dst]
             p == m.prev_log_index + k
         IN /\ p \in 0..Len(lg)
            /\ TermAt(lg, p) = IF k = 0 THEN m.prev_log_term ELSE m.entries[k].term
            /\ LogAfter(m.dst, m.entries, k) =
                 SubSeq(lg, 1, p) \o SubSeq(m.entries, k + 1, Len(m.entries))
<1> DEFINE d == m.dst
           lg == log[d]
           es == m.entries
           pi == m.prev_log_index
           p == pi + k
           e == es[k + 1]
<1>1. /\ m \in AppendCall /\ d \in Server /\ es \in Seq(LogEntry) /\ pi \in Nat /\ Len(es) \in Nat
      /\ k \in 0..Len(es) /\ k # Len(es) /\ Skips(d, es, k)
      /\ has_entry(d, pi, m.prev_log_term)
      /\ \A j \in 1..Len(es) : es[j].index = pi + j
  <2>1. Fits(m)
    BY OpenCallFits
  <2>2. m \in AppendCall /\ \A j \in 1..Len(es) : es[j].index = pi + j
    BY <2>1 DEF Fits
  <2>3. QED
    BY <2>2 DEF AppendCall
<1> SUFFICES /\ p \in 0..Len(lg)
             /\ TermAt(lg, p) = IF k = 0 THEN m.prev_log_term ELSE es[k].term
             /\ LogAfter(d, es, k) = SubSeq(lg, 1, p) \o SubSeq(es, k + 1, Len(es))
  OBVIOUS
<1> HIDE DEF d, es, pi
<1>2. lg \in Seq(LogEntry) /\ last_index[d] = 0 /\ Len(lg) \in Nat /\ \A j \in 1..Len(lg) : lg[j].index = j
  BY <1>1, LogRun
<1>3. k + 1 \in 1..Len(es) /\ e.index = p + 1 /\ p \in Nat
  <2>1. k + 1 \in 1..Len(es) /\ p \in Nat /\ pi + (k + 1) = p + 1
    BY <1>1
  <2>2. QED
    BY <1>1, <2>1
<1>4. p \in 0..Len(lg) /\ TermAt(lg, p) = IF k = 0 THEN m.prev_log_term ELSE es[k].term
  <2>1. CASE k = 0
    BY <1>1, <2>1, HasEntry
  <2>2. CASE k # 0
    <3>1. k \in 1..Len(es) /\ es[k].index = p
      BY <1>1, <2>2
    <3>2. has_entry(d, p, es[k].term)
      BY <1>1, <2>2, <3>1 DEF Skips
    <3>3. QED
      BY <1>1, <1>3, <2>2, <3>2, HasEntry
  <2>3. QED
    BY <2>1, <2>2
<1>5. LogAfter(d, es, k) = SubSeq(lg, 1, p) \o SubSeq(es, k + 1, Len(es))
  <2>1. ~has_entry(d, e.index, e.term)
    BY <1>1, <1>3 DEF Skips
  <2>2. (p + 1) - last_index[d] = p + 1 /\ (p + 1) - last_index[d] - 1 = p
    BY <1>2, <1>3
  <2>3. CASE entry_conflicted(d, e.index, e.term)
    BY <1>1, <1>3, <2>2, <2>3 DEF LogAfter
  <2>4. CASE ~entry_conflicted(d, e.index, e.term)
    <3>1. p = Len(lg)
      <4>1. SUFFICES ASSUME p # Len(lg) PROVE FALSE
        OBVIOUS
      <4>2. p + 1 \in 1..Len(lg)
        BY <1>2, <1>4, <4>1
      <4>3. Present(d, p + 1) /\ EntryAt(d, p + 1) = lg[p + 1]
        BY <1>2, <1>3, <2>2, <4>2 DEF Present, EntryAt
      <4>4. lg[p + 1].index = p + 1 /\ lg[p + 1].term = e.term
        BY <1>2, <1>3, <2>4, <4>2, <4>3 DEF entry_conflicted
      <4>5. QED
        BY <1>3, <2>1, <4>3, <4>4 DEF has_entry
    <3>2. SubSeq(lg, 1, p) = lg
      BY <1>2, <3>1, SubSeqFull
    <3>3. QED
      BY <1>1, <2>4, <3>2 DEF LogAfter
  <2>5. QED
    BY <2>3, <2>4
<1>6. QED
  BY <1>4, <1>5

\* An accepted call leaves a run of entries that says nothing new.
LEMMA AcceptRuns ==
  ASSUME TypeOK, RunsOfEntries, ConfigEntries, NEW m \in calls, AcceptAppendEntries(m)
  PROVE  /\ m.dst \in Server /\ UNCHANGED <<last_index, last_term>>
         /\ \A s \in Server \ {m.dst} : log'[s] = log[s]
         /\ log'[m.dst] \in Seq(LogEntry)
         /\ \A k \in 1..Len(log'[m.dst]) : log'[m.dst][k].index = k /\ ConfigOfTerm(log'[m.dst][k])
         /\ LinksOf(0, 0, log'[m.dst]) \subseteq Links
<1> DEFINE d == m.dst
           lg == log[d]
           es == m.entries
           pi == m.prev_log_index
           new == log'[d]
<1>1. /\ m.rpc = "append_entries" /\ has_entry(d, pi, m.prev_log_term) /\ UNCHANGED <<last_index, last_term>>
      /\ d \in Server
  BY CallFields DEF AcceptAppendEntries
<1>2. Fits(m) /\ es \in Seq(LogEntry) /\ pi \in Nat /\ m.prev_log_term \in Nat
  BY <1>1, OpenCallFits, AppendCalls DEF AppendCall
<1>3. PICK k \in 0..Len(es) : Skips(d, es, k) /\ log' = [log EXCEPT ![d] = LogAfter(d, es, k)]
  BY DEF AcceptAppendEntries
<1>4. new = LogAfter(d, es, k) /\ \A s \in Server \ {d} : log'[s] = log[s]
  BY <1>1, <1>3 DEF TypeOK
<1>5. /\ lg \in Seq(LogEntry) /\ Len(lg) \in Nat
      /\ \A j \in 1..Len(lg) : lg[j].index = j /\ ConfigOfTerm(lg[j])
  BY <1>1, LogRun
<1>6. LinksOf(0, 0, lg) \subseteq Links
  BY <1>1, LinksIff
<1>7. CASE k = Len(es)
  <2>1. new = lg
    BY <1>4, <1>7 DEF LogAfter
  <2>2. QED
    BY <1>1, <1>4, <1>5, <1>6, <2>1
<1>8. CASE k # Len(es)
  <2> DEFINE p == pi + k
             tail == SubSeq(es, k + 1, Len(es))
  <2>1. /\ p \in 0..Len(lg) /\ TermAt(lg, p) = IF k = 0 THEN m.prev_log_term ELSE es[k].term
        /\ new = SubSeq(lg, 1, p) \o tail
    BY <1>1, <1>3, <1>4, <1>8, LogAfterCall
  <2>2. tail \in Seq(LogEntry) /\ Len(tail) = Len(es) - k /\ \A j \in 1..Len(tail) : tail[j] = es[k + j]
    BY <1>2
  <2>3. LinksOf(p, IF k = 0 THEN m.prev_log_term ELSE es[k].term, tail) \subseteq Links
    BY <1>2, LinksOfSuffix DEF Fits
  <2>a. p = pi + k
    OBVIOUS
  <2> HIDE DEF tail, p, new
  <2>4. /\ new \in Seq(LogEntry) /\ Len(new) = p + Len(tail)
        /\ \A j \in 1..p : new[j] = lg[j]
        /\ \A j \in 1..Len(tail) : new[p + j] = tail[j]
    <3>1. lg \in Seq(LogEntry) /\ p \in 0..Len(lg) /\ tail \in Seq(LogEntry) /\ new = SubSeq(lg, 1, p) \o tail
      BY <1>5, <2>1, <2>2
    <3> HIDE DEF lg
    <3>2. QED
      BY <3>1, ChopThenAppend
  <2>5. LinksOf(0, 0, new) \subseteq Links
    <3>1. LinksOf(0, 0, new) \subseteq LinksOf(0, 0, lg) \cup LinksOf(p, TermAt(lg, p), tail)
      BY <1>5, <2>1, <2>2, LinksOfConcat DEF TermAt
    <3>2. QED
      BY <1>6, <2>1, <2>3, <3>1
  <2>6. ASSUME NEW j \in 1..Len(new)
        PROVE  new[j].index = j /\ ConfigOfTerm(new[j])
    <3>1. CASE j <= p
      <4>1. j \in 1..p /\ j \in 1..Len(lg)
        BY <1>5, <2>1, <3>1
      <4>2. QED
        BY <1>5, <2>4, <4>1
    <3>2. CASE j > p
      <4> DEFINE i == j - p
      <4>1. i \in 1..Len(tail) /\ j = p + i /\ k + i \in 1..Len(es) /\ pi + (k + i) = j
        <5>1. i \in 1..Len(tail) /\ j = p + i
          BY SMTT(30), <2>1, <2>2, <2>4, <3>2
        <5>2. Len(es) \in Nat /\ k \in Nat /\ p \in Nat /\ Len(tail) = Len(es) - k /\ i \in Nat
          BY <1>2, <2>1, <2>2, <5>1
        <5> HIDE DEF es, pi, i
        <5>3. k + i \in 1..Len(es) /\ pi + (k + i) = j
          BY <1>2, <2>a, <5>1, <5>2
        <5>4. QED
          BY <5>1, <5>3
      <4>2. new[j] = es[k + i]
        BY <2>2, <2>4, <4>1
      <4>3. QED
        BY <1>2, <4>1, <4>2 DEF Fits
    <3>3. QED
      BY <2>1, <2>4, <3>1, <3>2
  <2>7. QED
    BY <1>1, <1>4, <2>4, <2>5, <2>6 DEF new
<1>9. QED
  BY <1>7, <1>8

=============================================================================
