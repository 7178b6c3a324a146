# A TLA+ verification of draft

draft is a Raft library (`src/raft`) with a key-value store on top of it (`src/server`) and a
command-line client (`src/client`). This directory models them, checks the models with TLC and
proves with TLAPS, for every size of the system, the safety of elections, of replication without
compaction, of membership changes, of the log's file, of the key-value store and of what its client is
told. Every definition is tied to the lines it models by the `map` of `PROJECT.json`.

## 1. The system

| part | state | operations | how it interacts |
|---|---|---|---|
| `raft_impl` (`raft/raft_impl.hpp`) | term and vote (`raft.vote`), role, election and heartbeat timers, pre-vote counters, per node `next_index`, `match_index`, `transfer_data_to`, `commit_index_`, `last_applied_` | timers, the callback of each RPC, `append`, administration | calls the RPCs of other servers through arpc, one connection per call, so nothing orders calls |
| `rpc_service_impl` (`raft/raft_rpc.hpp`) | the file a data transfer is being received into | `pre_vote`, `request_vote`, `append_entries`, `data_transfer`, `done_transfer`, `timeout_now` | changes the `raft_impl` of the callee on its io_context thread |
| `entry_logger`, `mapped_file`, `entry_iterator` | `raft.ldbs` (entries behind a sentry, closed by an end marker), `raft.stat` (`last_index`, `last_term`, configuration), offsets in memory | `init`, `append`, `chop`, `drop`, `copy`, `operator[]`, `has_entry` | used by the io_context thread, the client thread and the apply thread; only `drop` locks |
| apply thread (`apply_log_committed`) | `last_applied_` | deliver committed client entries to a callback | woken through `concurrent_queue` |
| membership change, leadership transfer (`raft_impl.hpp`) | `recfg`, catch-up rounds, `server_transfer_leader_to`, `server_transfer_reply_to`, transfer timer | `add_server`, `del_server`, `leadership_transfer`, `adjust_configuration` | asked for over HTTP (`config_server`); the outcome reaches the HTTP session through a local socket pair |
| `storage_server` (`server/storage_server.hpp`) | the database, the map `commands` of waiting sessions, the snapshot file | `handle_command`, `on_log_entry_committed`, `snapshot_thread`, `load_database`, `on_data_transfer` | calls `raft::append` from its own thread; compacts the log from the apply thread; forks a child that writes the snapshot |
| `command_parser` | automaton state, the command so far | `parse` what one read delivered | used by a session |
| `raft_client` (`client/raft_client.hpp`) | the queue `commands`, `prev_command`, the connection | read a line, write, read an answer, follow `NOT_LEADER` | two threads; talks to the session of a `storage_server` |
| `entry_reader`, `config_client`, `config_parser`, `utils`, `severity_logger` | none | tools and helpers | - |

What is hard in it: votes and terms across restarts; answers that arrive late, out of order or
never; the leader's idea of what a follower stores; the apply thread compacting a log that the
other threads are using; files that are written in place; snapshots that lag behind compaction;
sessions that wait for an index which another leader fills; changes of membership that outlive the
leader who made them; a byte stream cut anywhere. `PROJECT.json` lists these hazards, each at its
line.

What makes each part correct: one leader per term and final votes (elections); matching,
contiguous logs, entries committed only when a majority stores them, progress (replication);
compaction points that agree and never pass what is applied (compaction and transfer); a file that
reads back as what is in memory, and that behaves like the sequence the rest of the code takes it
for (log); one change at a time, a cluster that is the latest configuration of the log, and a
request that is answered, truthfully (membership); a database that is the replay of the applied
log, and answers that tell the truth (store); one answer per line and one entry per command
(client).

## 2. Modules

**`Raft`** models `raft_impl.hpp`, `raft_rpc.hpp` and the log as a sequence, for a cluster whose
membership does not change. All handlers, callbacks and timers of a server run on one thread, so
each is one action; the apply thread is a second actor. Actions and code:

| actions | code |
|---|---|
| `ElectionTimeout`, `ServePreVote`, `OnPreVote`, `PreVoteFailed` | `on_election_timeout`, `pre_vote` of both sides, `on_pre_vote`, `checkout` |
| `TransferLeadership`, `ServeTimeoutNow`, `OnTimeoutNow`, `RetryTimeoutNow` | `timeout_now` of both sides and `on_timeout_now` |
| `ServeRequestVote`, `OnRequestVote` (`leader_election`, `step_up`, `step_down`) | the same names |
| `HeartbeatTimeout`, `RejectAppendEntries`, `RefuseAppendEntries`, `AcceptAppendEntries` | heartbeat timer, the three outcomes of `append_entries` |
| `IgnoreAppendEntries`, `AppendEntriesSucceeded`, `AppendEntriesRefused`, `StepDownOnResult` | the branches of `on_append_entries` (and of the transfer callbacks) |
| `RejectTransfer`, `ServeDataTransfer`, `ServeDoneTransfer`, `OnDataTransfer`, `OnDoneTransfer`, `TransferRefused` | `data_transfer`, `done_transfer` and their callbacks |
| `HandleAppend`, `ApplyLogCommitted` | `append`; one round of the apply thread with the store's callback, compaction included |
| `Restart`, `CallFailed` | death and reload of a process; a call that times out or breaks |

`calls` holds the calls that have not been served and `results` the answers that have not reached
their callback; any of them may be taken next, or fail before or after it was served. A dying
process forgets everything that is not in its three mapped files, its calls may still be
served (`live` is then `FALSE`) and their answers are lost. `votes` is the set of voters whose
answers the code's counter has counted: every voter answers a term's request at most once. Where
the code dereferences a null pointer (`match_index` beyond the leader's log, an applied index
that is not in the log) the process dies (`Die`). An entry is its index, its term and whether it
is a configuration.

Whom the administrator wants as leader, and the flag `transfer_leader_to` that says so, belong to
`Reconfig`. In `Raft` a leader may tell any server whose `match_index` is its own last index, which
is when `leadership_transfer` and `on_append_entries` (`handle_transfer_leader_to`) do; and a call that
failed may be made again, as `on_timeout_now` does while the flag is set, whatever the caller's role
is by then. The handler (`ServeTimeoutNow`) looks at neither term nor role: it stops the timer and
starts a round of pre-votes, over one that may still be open.

**`EntryLog`** is `entry_logger` over `mapped_file`: `raft.ldbs` word by word (an entry is a head
with its size and `size - 1` words behind it, `Zero` is the end marker), `raft.stat`, and the
offsets kept in memory. Actions: `AppendEntries` (the loop of growth included), `AppendFails` (a
growth that fails, before or after `ftruncate`), `AppendTorn` (the process dies while it writes),
`Chop`, `DropAll` and `DropFront` (`drop`, the move of the remaining entries included), `Transfer`
(`chop` and `copy`, as `data_transfer` calls them) and `Restart` (`init`). **`AbstractLog`** is what
the other modules take a log for: a sequence behind a base that can be extended, chopped, dropped up
to an index and reset, with the latest configuration in it or in the base. Which operation was asked
for, and for which index (`asked`, a history variable that every action of `EntryLog` writes), and
its answer (`rc`) are visible in both, so that each operation has to do what it was called for: a
`drop` must leave the index, the term and the configuration of its entry in the base, also when it
empties the log, and only `data_transfer` may put anything else there. `EntryLog` implements it
(`ImplementsLog`); the refinement mapping reads each entry through the offsets, `operator[]`'s way.

**`Reconfig`** is one server (`Self`) that leads, is deposed, follows and leads again: `AddServer`,
`DelOther`, `DelSelf`, `LeadershipTransfer` with their refusals, `DelServerFails`, the catch-up rounds
(`handle_catch_up` in `AppendEntriesSucceeded` and `AppendEntriesFailed`), the completion in
`Completes`, `OnLeadershipTransferTimeout`, `StepDown`, `FollowLeader` with `adjust_configuration`,
`ServeTimeoutNow` (an earlier leader's `timeout_now` comes late to one that leads and makes a follower
of it that stands again, role `STANDING`; its transfer and its change go on), and the HTTP session that
waits (`OnReadSome`). Its peers are an environment: they answer, fail, lead or elect. Compaction is off,
so `add_server` catches up by `append_entries` alone.

**`KvStore`** models `storage_server.hpp` of one server: a session's `handle_command` in its three
steps (test of the role, `append`, `commands.insert`), the apply callback, the snapshot child,
reload, and the receiving end of a data transfer (`BeginTransfer`, `FinishTransfer`,
`LoadTransferred`: the load is queued before the file is closed, and the server's own snapshot child
may write the same file). Of raft it has what the store sees: the role changes, uncommitted entries
may be replaced, `commit_index` moves. A `set` or `del` entry is its key and value; `FirstWord` is
what `apply` reads of a name (up to a blank) and `ReadBack` what the parser of the snapshot file
makes of a value (cut at `#`).

**`Client`** composes `raft_client`, the sessions of `storage_server` and `command_parser` (the one
pure algorithm of this code, as the transition relation `do_parse` folded over what a read delivers):
lines are typed at any time, bytes arrive in any pieces, servers change roles, connections break.
Raft is the environment: it elects, commits and tells servers who leads. A line is a sequence of
characters: the text of a command, with single blanks between its words, or one of `Slip`, which
stands for the lines the parser gives up. `Command` and `Slip` are constants with assumptions
(`CommandAssumption`, `SlipAssumption`), so that the proofs are about all of them.

**`MCRaft`**, **`MCEntryLog`**, **`MCReconfig`**, **`MCKvStore`**, **`MCClient`** give the constants
their values and hold the bounds and initial states of the runs. The proofs about `Raft` are in
**`RaftProofs`** (types, elections), **`LogProofs`** (leaders only append) and
**`MatchingProofs`** (logs match; commitment in a cluster of two), those about `EntryLog`, its
refinement of `AbstractLog` included, in **`EntryLogProofs`**, those about `Reconfig` in
**`ReconfigProofs`**, those about `KvStore` in **`KvProofs`** and those about `Client`, its parser
included, in **`ClientProofs`**; **`MaxProofs`** has what these need about the least and the greatest
of a bounded set of numbers, induction over them included.

How they fit: `Raft` uses the log the way `AbstractLog` states it, which `EntryLog` implements; the
answers of other servers that are chosen freely in `Reconfig` are those `Raft` gives; `KvStore`
refines the apply round of `Raft` (`ApplyLogCommitted`) to what the store does in it; `Client` has
the sessions of `KvStore` seen from outside.

## 3. Runs

| run | instance | shows |
|---|---|---|
| `pair` | 2 servers, compaction, terms to 3, two configuration entries and two client entries, one death | `TypeOK`, `CommittedOnQuorum`, `CommitWithinLog`, `LeaderAppendOnly`, `VoteIsFinal` over whole lives of the cluster |
| `elections` | 3 servers, a in office, c a candidate of the next term; a may tell b, by one `timeout_now` at a time that may fail and be repeated, to stand, and b's own timer may fire too | `ElectionPending` where a round begins while the answers of another are on their way; `ElectionSafety` and its inductive invariant `VoteInv` between the two candidates |
| `takeover` | 3 servers from the state in which b has just succeeded a, whose tail is stale; no compaction | `LogMatching`, `LogContiguous` and their inductive invariant `LogInv` |
| `lagging` | the same, after b and c compacted; one death | `CompactionAgrees`, through data transfers |
| `pair_live` | 2 servers under `Fairness`, from a re-election whose first call is refused, with one more election | `ReplicationProgress` |
| `entry_log` | files of pages of 4 words, 3 entries, 2 terms, batches of up to 2 entries of which one is a configuration | `TypeOK`; `ReloadAgrees` (the files read back as the memory has them); `MarkerInMapping`; `ConfigInEffect`; `ImplementsLog`; the inductive invariants `FileInv` and `ChainInv` |
| `reconfig` | 3 servers of which two begin in the cluster, two requests, 2 catch-up rounds, a log of 3 entries, terms to 3 | `TypeOK`, `ClusterIsLatestConfig`, `OneChangeAtATime`, `NobodyForgotten`, `TransferPointersValid`, `OkMeansDone`, and the inductive invariant `ReconfigInv` |
| `kv` | 2 sessions, one key, two values, one death, one data transfer, no compaction | `TypeOK`, `DatabaseIsReplay`, `AnsweredIsApplied`, and the inductive invariant `KvInv` |
| `client` | 2 servers with the ports of the cluster directory, 2 connections, 2 lines (one of them no command), 1 change of leader | `TypeOK`, `AnswersMatch`, `AppendedOnce`, the inductive invariant `ClientInv`, and `EventuallyAnswered` under fairness |
| `commit` | `takeover` | **violated**: `CommittedOnQuorum`. A follower answers with the last index of its log, stale tail included; the leader counts it and commits what nobody else has |
| `catch_up` | `takeover` where nothing fails, fair | **violated**: `FollowersCatchUp`. The retry starts behind the follower's last entry, so that a conflicting tail is never repaired |
| `kv_reload` | one session, with compaction | **violated**: `DatabaseIsReplay`. The log is dropped before a snapshot has its entries |

**Bounds.** `Raft`: `MaxTerm`, `MaxLog` (client entries stop there), `MaxCalls` (open replication calls
per pair of servers; a call that would exceed it waits), `MaxTimeoutNow` (the same for `timeout_now`; it
is 0, so that nobody is told to stand, except in `elections`, and a server has one round of pre-votes
open for its timer and one for each such call), `MaxRestarts`. Two terms after the first are what a
vote, a competing vote and a late answer need; one entry of each of two terms is what a conflict needs;
one open call per direction still lets an old call be served after the state it was made from is gone,
and a call whose caller died stays beside the new one. `Init` is a cluster that was bootstrapped and
grown in term 1 and then reloaded, with one configuration entry per server. The three-server runs start
from a reachable state that `Spec` needs some twenty steps to reach (a leads term 2, appends, dies; c
elects b in term 3), and so does the liveness run (b elects a again), so that the search spends its
depth on what follows. `elections` starts, sixteen steps from `Init`, with a leading term 2, every log
complete, and c, whose pre-vote b granted, a candidate of term 3 whose request for a's vote is on its
way and whose request for b's is lost. `BStandsToo` keeps a and c from standing again and a from sending
heartbeats, lets b stand for term 3 only and only b be told to, and stops behind the first answers to
the winner's `append_entries`, which within the one contested term change no vote. `NoCampaign` keeps
everyone from standing.

`EntryLog`: `PageSize`, `MaxIndex`, `MaxTerm`, `MaxBatch`, `MaxBatchConfigs`. With entries of 1 and 2
words (a configuration is the longer one) and pages of 4, an append fits, fills the page up to the
marker, needs one growth or two. `Reconfig`: `MaxLog`, `MaxTerm`, `MaxLag` (how late the last answer of
a new server may be); three entries hold a change, the entry before it and a competing one; of the last
term only a leadership of `Self` for which nothing is void is followed (`LastTermIsLed`), and nothing of
a server whose append of a configuration failed (`NoFailedAppend`): after that only `NobodyForgotten`
still says something. `KvStore`: `MaxLog`, `MaxRestarts`, `MaxTransfers`. `Client`: `MaxConn`,
`MaxTyped`, `MaxChanges`, and `Followed`: the first mishap ends a behaviour unless it is one of these
kinds (`GoingOn`).

The symmetry sets permute only servers, sessions or configurations that the initial states and
constraints treat alike, and no run that checks liveness uses symmetry.

**Deadlock** is checked except in `catch_up` (a cluster in which nothing fails may stop at its
bounds), `reconfig` (requests are used once and the log is bounded, so the server may have nothing
left to do) and `client` (all lines are typed and answered, or the behaviour ended with a mishap).

**Fairness.** `Raft`: weak fairness of `ApplyLogCommitted` (a thread that loops as long as there is
something to apply) and of `HeartbeatTimeout` (the timer re-arms itself as long as the server leads);
strong fairness of serving, and of answering, replication calls between two given servers: the
heartbeat repeats them for ever, and a network that delivers none of infinitely many is a partition.
There is no fairness for elections or clients, and the liveness properties only speak of leaders that
are never deposed. `Client`: weak fairness of the client's handlers, of the sessions and of the raft
below: a handler that is ready runs, bytes that were sent arrive, a leader is elected and commits
what it appended. Nobody has to type, and nothing has to break.

### What the properties exclude, and why

Several properties hold except after particular steps. These steps are in the models; the properties
say that nothing else breaks them. Each exclusion stands for something the code really does:

- `CommittedOnQuorum` holds with two servers, where a follower's tail is never ahead of a leader it
  votes for; `commit` shows three.
- `LogContiguous` is checked without compaction: with it, a late `append_entries` finds `has_entry`
  false below `last_index` and puts compacted entries back behind it (`raft_rpc.hpp:188`).
- `EntryLog`: after a torn append (`torn`) stale entries behind the old end may come back, or the file
  may not be readable. After a growth that failed, `mapped` is false and stays so: a later append that
  fits is in the log and still reports an error, and a `drop` of everything chops and returns before
  `raft.stat` is written; `AbstractLog` has a step for that (`LoseAll`), and none for any other drop
  that does not do its work. Two configurations in one batch share
  their `prev_cfg` (`raft_rpc.hpp:229`), so a chop between them looks at the wrong one:
  `MaxBatchConfigs` is 1. A chop back to a configuration
  that was compacted leaves none, and `adjust_configuration` then returns early.
- `Reconfig` (`trouble`): *error*, an append of a configuration failed after `cluster` was changed;
  *timeout*, an addition was answered TIMEOUT though its entry was appended, or a removal of the leader
  ran out of time; *deposed*, a leader was deposed during a change (`recfg` survives `step_down`, so
  that later requests are refused for ever or an unrelated entry completes it, and the failure branch of
  `on_append_entries` (`raft_impl.hpp:975`) lets a deposed leader append a configuration); *inherited*,
  a new leader with an uncommitted configuration in its log accepts another change; *overlap*, a change
  and a leadership transfer at once (a session is never answered, a pointer is left to a removed node,
  and when the transfer succeeds `step_down` answers OK to the removal of another server, whose entry
  need not be committed and may be lost: it does not look whether the removal began the transfer,
  `raft_impl.hpp:1308`); *removed*, the leader removed itself, which leaves `server_transfer_reply_to`
  behind.
- `DatabaseIsReplay` is void once a transfer has cleared, or loaded a line into, the database of a
  server that had applied entries (`overtaken`): the file may be older, lacks lines, or has a value
  cut at `#`. That the file is ahead of what was applied does not help: a key that it has and that
  only applied entries write keeps the cut value. The attempt to prove the property showed this, in
  place of a narrower condition that a run with one key could not refute. A server that has applied
  nothing converges, whatever lines were missing when the file was loaded.
- `AnsweredIsApplied` excludes behaviours in which another leader replaces the entry of a waiting
  session (`NoStaleCommand`): the session is found by index alone (`storage_server.hpp:277`) and
  answered for an entry that is not its own. `Explored` adds, for the size of the
  run, that a transfer meets one active client or the death but not both, and that nothing is
  followed behind a transfer that came too late.
- Names with a blank are outside the instances: `apply` reads a name up to the blank, `insert` erases
  it as typed (`storage_server.hpp:364`), so that leader and replicas differ.
- `Client` (`trouble`): *hasty*, a line typed before the last one was answered (pipelined commands in
  one read are lost, `storage_server.hpp:101`; while the client is being redirected only `prev_command`
  is sent again); *broken*, a failed connection (`on_write` leaves the line in the queue, so that no
  later line is sent, `raft_client.hpp:167`); *split*, a wrong line that arrives in two reads is
  answered twice; *garbled*, a session begins with the state its uninitialised parser happened to have
  (`command_parser.hpp:288`); *deposed*, the leader lost its role under a waiting session, which then
  waits for ever; *eof*, the input ended. A deposed server that has not heard of its successor still
  names itself, and the client takes that for a removal and exits; `EventuallyAnswered` allows for it.
  The client rewrites every 8 of the port to 9 (`raft_client.hpp:114`), which the ports of the cluster
  directory survive.

## 4. Proofs

All theorems hold for every value of the constants that meets the assumptions of its module
(`ASSUME`s, which the runs evaluate): any number of servers, sessions, connections, keys and values,
and every bound.

**Elections** (`Raft`; every finite cluster of at least two servers, with and without compaction):

- `TypeCorrect`: `Spec => []TypeOK` (`RaftProofs`), one lemma per group of actions.
- `VoteFinal`: `Spec => VoteIsFinal`. Lemma `StepKinds` sorts every step of the specification into
  four kinds: a step that touches no vote but may raise a term and clear the vote with it
  (`QuietStep`), `ServeRequestVote`, `OnRequestVote`, and `leader_election`.
- `VotesConsistent`: `Spec => []VoteInv`. `ElectionSafety` is not inductive: nothing in it relates a
  leader to its voters. `VoteInv` adds the votes on their way and those counted (`Granted`): a voter
  has not fallen behind a term it voted in and stands by its vote while it is in that term; nobody
  voted twice in a term, past terms included; no request or grant is ahead of its candidate (so a new
  candidacy starts without votes); a leader has a majority. One lemma per kind of step.
- `ElectionSafe`: `Spec => []ElectionSafety`. Two leaders of a term have two majorities, which share a
  voter, which by `VoteInv` voted for one of them.
- `ElectionAlwaysPending`: `ElectionPending` in every behaviour of `Spec` in which no `data_transfer` is
  accepted (`[][~TransferServed]_vars`). The handler of `data_transfer` stops the election timer and
  only a later call arms it (`raft_rpc.hpp:302`), so the condition is needed. `timeout_now` starts a
  round while another is open and sets the counters back, and the answers of the older round are then
  counted in the newer one. So the counters and the answers on their way need not make up the cluster
  exactly; but each answer is counted once, and those on their way are of at least as many servers as
  are still missing. `PreVoteInv` says this of every round: it is not over, and counters and awaited
  servers together make up the cluster or more. `checkout`, which tests for equality, cannot miss it,
  since the counters grow by one. Most steps are calm (`CalmStep`): they leave rounds and pre-vote
  messages alone, or end the round. The others start a round, turn a call into an answer, or count one
  (`EndKeeps`).

The theorems speak of processes that die between two handlers. `request_vote` clears the vote in the
mapped file before `step_down` writes the newer term (`raft_rpc.hpp:94`): a death between the two
stores would lose the vote, and is outside the model.

**Replication** (`Raft`):

- `LeadersAppend`: `Spec => LeaderAppendOnly`, with and without compaction: whatever else touches a
  log (a call of another leader, a transfer, a death) leaves a follower behind.
- `LogsConsistent`: `Spec => []LogInv` when `~log_compaction_enabled`. `LogMatching` alone says nothing
  of the calls on their way, which may be older than everything the logs have. `LogInv` looks at
  *links*: what a log or a call says of an index, the term of its entry and the term before. Links of
  the same index and term agree; a link exists only in a term that nobody can win any more (`MayLead`,
  which counts the votes that could still be given); a leader has every index of its term. From the
  last two, the entry a leader makes has an index that no other link of its term has. `LogsContiguous`
  and `LogsMatch` follow.

With compaction these are false in general (`raft_rpc.hpp:188`, section 3), hence the hypothesis.

- `PairAgrees`, `PairCommits`, `PairCommitsWithinLog`: `PairInv`, `CommittedOnQuorum` and
  `CommitWithinLog` in a cluster of two without compaction. With three servers the second is false
  (run `commit`) and `commit_index` may be set back behind `last_applied`. Two servers are enough for
  an argument that needs no majorities: a leader has both votes, a vote is refused to the shorter log
  (`LogPermits`), and so the leader's log is never the shorter one and no entry is ever replaced.
  `PairInv` says it of everything that is on its way: one log is a beginning of the other; a call
  carries what its caller has and a `leader_commit` that both have; what was answered is still
  stored; nobody is ahead of a server that stands with its vote. That a call's sender leads may not be
  used: the callback of `done_transfer` sends `append_entries` without looking at the role.

**The log's file** (`EntryLog`; every size of pages from four words on, of entries and of batches):

- `LogTypes`, `FileIsLaidOut`, `FilesReadBack`, `MarkerMapped`: `TypeOK`, `FileInv`, `ReloadAgrees` and
  `MarkerInMapping`. `ReloadAgrees` is not inductive, since what a walk over the words finds says
  nothing of the words behind the marker, which a growth or an append brings into reach. `FileInv`
  says where the entries are: the table in memory has their offsets, one behind the other up to a
  marker inside the mapping, their indices follow `last_index`, and `cfg_entry_index` and the `prev`
  of every configuration lead backwards to configurations of the table or behind its start.
- `ConfigsAreChained`, `ConfigIsInEffect`, `WordsImplementLog`: `ChainInv`, `ConfigInEffect` and
  `ImplementsLog` when `MaxBatchConfigs <= 1` (section 3 says what two configurations in a batch do).
  `ChainInv`: `cfg_entry_index`, and `prev_cfg` of each configuration, is the latest configuration
  before it. The refinement goes action by action: `AppendEntries` extends the abstract log up to the
  index asked for, `Chop` chops it there, a drop moves its base to the index asked for with the term
  and the configuration in effect there, a `DropAll` of an unmapped file only chops and answers ERROR,
  `Transfer` resets, a death inside an append loses any number of the new entries (`LayoutPrefix`), and
  failed growths and restarts change nothing.

The walk, the growth loop, the sums of sizes and the descent along `prev_cfg` are recursive functions.
Each is unfolded by exhibiting a function that satisfies its equation, and what it computes is
shown by least counterexample: lemma `UpTo` is induction for a set of numbers instead of an operator.
Pages of at least four words are an assumption because a growth multiplies by 1.25 and must add a
word (`mapped_file` has pages of 4096 bytes).

**Membership** (`Reconfig`): `ReconfigTypes`, `ReconfigConsistent`, `CountsWithLatestConfig`,
`ChangesOneByOne`, `EveryWaiterIsOwed`, `TransferStaysValid` and `OkIsEarned` state each property of the
`reconfig` run. The inductive invariant is the conjunction of `TypeOK`, `ClusterIsLatestConfig`,
`NobodyForgotten`, `TransferPointersValid` and `ReconfigInv`, whose parts are what the properties leave
open: which session the change in progress and the transfer will answer, that it has not been answered,
and that it asked for that change, or for a transfer or the removal of the leader (`SessionInv`); that a
transfer has a target and a session and is not one of a server that follows, and whose its timer is
(`TransferInv`); that the only uncommitted configuration of a leader is that of the change in progress
(`ChangeInv`). `OkIsEarned` is about steps, and leaves out those after an *overlap*: OK then proves
nothing about the removal of another server. `NoneAssumption` says that `Nil`, the null pointer, is no
server, session or change.

**Store** (`KvStore`):

- `KvTypes`: `Spec => []TypeOK`, with and without compaction, with the order of the indices
  (`IndexInv`) that keeps the applied entry in the log.
- `KvConsistent`, `DatabaseReplays`, `AnswersAreTrue`: `KvInv`, `DatabaseIsReplay` and
  `AnsweredIsApplied` in every behaviour of `Spec` in which `NoStaleCommand` always holds, when
  `~log_compaction_enabled` and no name has a blank (`SetKey = Key`). Each of the three conditions is
  needed: section 3 says what the code does without it. The core of `KvInv` is `ReplayInv`: a key has
  the value of the applied entries, or the replay up to the loaded snapshot has still to write it; and
  every line of every file, complete or not, on its way or on disk, is of a key that the committed
  entries up to the file's index write. The committed entries are those here or those the leader of a
  transfer has beyond them (`Settled`), which only grow. That is why losing any lines of a file does
  no harm. `ReplayOfPrefix`, `ReplayStep` and `ReplaySame` are the facts about `Replay` that this rests
  on.
- `StaleOnlyIfReplaced`: in a behaviour that replaces no entry of the log, `NoStaleCommand` holds, with
  and without compaction. So the condition is about what raft does beneath the store and never about
  the order in which `append`, `insert` and the apply callback run.

**Client** (`Client`; any number of servers, commands, slips, connections and lines, however long):

- `ClientTypes`: `Spec => []TypeOK`, through every mishap. That a parser keeps its type for every
  character in every state is lemma `StepType`.
- `ClientConsistent`, `AnswersAreRight`, `AppendsOnce`: `ClientInv`, `AnswersMatch` and `AppendedOnce`.
  The two properties are about the history alone. `ClientInv` says where the newest line is: posted,
  queued, in the one session that is connected (partly on the wire and partly read, waiting for its
  entry, or answered), or, between two servers, only in `prev_command`; that all other sessions are
  idle; and, for the counts, whether the line has been appended yet. Of a session that is reading it
  says that its parser is what `parse` makes, from the start, of the beginning of the line that is no
  longer on the wire.
- What the parser does is proved separately. `ParseRest`: parsing a piece and then the next is parsing
  both at once, from any state. `CommandParsed`: along the text of a command every state before the
  last character needs more, and the last one yields that command (`KeywordRead`, `KeyRead`,
  `ValueRead` for its parts). So no two commands have the same text (`TextInjective`), no text is a
  slip, and a read in any pieces decides exactly with the last character (`PieceRead`).

The condition `trouble = {}` is part of the properties; section 3 says what the code does when it
fails. `CommandAssumption` is the parser's own grammar: words that are not empty, do not begin with a
blank and have no line break, and no blank in the name of a `set`.

**Only model-checked.** `CommittedOnQuorum` and `CommitWithinLog` with compaction, and
`CompactionAgrees` of `Raft`: they hold in the instances of their runs, for reasons that are particular
to two servers or to the initial state. Liveness, which is out of the provers' reach.

## 5. Not modelled

- Threads on one mapping: `drop` runs under a mutex that `append` and `operator[]` do not take, `get`
  and the insertion into `commands` share hash maps with the apply thread. These are data races whose
  outcomes the source does not determine; `EntryLog` and the steps of `KvStore` are atomic where the
  code meant them to be.
- A death inside `drop`, between `data_transfer`'s two stores to `commit_index_` and `last_applied_`, or
  inside the write of `raft.vote`; an expiry of the election timer that is already queued when the
  server steps up.
- Failures of single calls: of `chop` or `append` inside the `append_entries` handler
  (`raft_rpc.hpp:205`, `raft_rpc.hpp:242`), which then leaves the log as far as it got and answers no
  success; of the growth of `raft.stat` in `copy` (`entry_logger.hpp:548`), which would leave the log
  empty and the old base; in `KvStore`, of an append to a file that is not mapped any more
  (`entry_logger.hpp:272`), which answers INTERNAL_ERROR and keeps the entry (`EntryLog` has that one).
- The client thread between the test of the role and the append inside `raft::append`: `HandleAppend`
  is one step.
- In `Reconfig`, callbacks for a node that was erased from `cluster` meanwhile: they use a raw pointer
  (`raft_impl.hpp:972`). In `Client`, the moment of a candidacy in which a server names no leader
  (`raft_impl.hpp:861`).
- The sending end of a data transfer in several chunks. It keeps one `fin`, `begin` and `end` for all
  followers, skips a chunk whose call failed when it goes to a new server, and `transfer_data_to` stays
  set after a failure; the receiver keeps the name of the last file, so that a second transfer of the
  same file in one life of the process writes nothing. `KvStore` receives the file in whole lines, any
  of which may be missing.
- Keep-alive on the configuration port, where a byte left on the local socket pair by an operation
  that completed at once would answer the next request; the 32-bit `old_commit` beyond 2^32 entries;
  the requests that only read.
- `config_client`, `entry_reader`, `config_parser`, `utils`, `severity_logger`, `raft_server`: tools,
  parsing of options and logging, without state of their own. `concurrent_queue`: a lock around a
  deque; what it wakes is a condition of `ApplyLogCommitted` and `LoadTransferred`.
- A cluster of one server; values with line breaks; real time (a pre-vote round is over before the
  timer fires again, as 70 ms and 150 ms in `raft.conf` have it).

## 6. What comes next

An abstract specification of elections (terms, votes, leaders) that `Raft` implements, for which
`VoteInv` is the invariant; one of the store that a `Client` sees, which `KvStore` implements; what
remains of `LogMatching` with compaction, for logs that no late `append_entries` has reached behind
their compaction point.
