------------------------------ MODULE KvStore ------------------------------
(***************************************************************************)
(* server/storage_server.hpp: one storage_server on top of the raft core.  *)
(* Four threads of it share the database and the map of waiting sessions:  *)
(* the one that reads commands from clients, the apply thread of raft that *)
(* delivers committed entries, the one that writes snapshots, and the one  *)
(* that loads what a leader has transferred.                               *)
(*                                                                         *)
(* The raft core is here only what storage_server sees of it: it may gain  *)
(* and lose the leadership, an entry that is not committed in the cluster  *)
(* may be replaced by another leader's, and commit_index moves forward.    *)
(* Module Raft models how.                                                 *)
(***************************************************************************)
EXTENDS Integers, Sequences, FiniteSets, FiniteSetsExt

CONSTANTS
  Key,                     \* names as clients type them
  SetKey,                  \* those of set commands, where a blank ends the name
  FirstWord,               \* what is left of a name when it is read up to a blank
  Value,
  ReadBack,                \* a value as the parser of the snapshot file reads it: cut at '#', trimmed
  Nil,                     \* no value
  Session,
  log_compaction_enabled,
  MaxLog,                  \* bound: entries
  MaxRestarts,             \* bound: deaths of the process
  MaxTransfers             \* bound: data transfers to this server

ASSUME KeyAssumption == /\ SetKey \subseteq Key /\ SetKey # {}
                        /\ FirstWord \in [Key -> SetKey]
                        /\ \A k \in SetKey : FirstWord[k] = k
ASSUME ValueAssumption == Nil \notin Value /\ ReadBack \in [Value -> Value]
ASSUME BoundAssumption == /\ log_compaction_enabled \in BOOLEAN
                          /\ {MaxLog, MaxRestarts, MaxTransfers} \subseteq Nat

VARIABLES
  \* raft: log holds every entry since the first, those up to last_index are compacted
  \* away; committed is how much of it the cluster has committed, known here or not
  role, log, last_index, commit_index, last_applied, committed,
  \* storage_server: session holds what each client's session is doing
  db, commands, session,
  \* the snapshot file with the index of the state it was taken of, the database as the
  \* snapshotting child sees it while it writes, and the index of the snapshot that was loaded
  snapshot, image, loaded,
  \* a data transfer: how far it is, the leader's snapshot and committed entries, how
  \* many there were; history: one changed the database when entries had been applied
  transfer, sent, ahead, transfers, overtaken,
  restarts

raftVars     == <<role, log, last_index, commit_index, last_applied, committed>>
snapshotVars == <<snapshot, image, loaded>>
transferVars == <<transfer, sent, ahead, transfers, overtaken>>
vars == <<raftVars, db, commands, session, snapshotVars, transferVars, restarts>>

\* set has a value, del has none.
Command == [key : SetKey, value : Value] \cup [key : Key, value : {Nil}]
Database == [Key -> Value \cup {Nil}]
Empty == [k \in Key |-> Nil]
NoFile == [data |-> Empty, index |-> 0]

\* RC_NOT_LEADER, an enumerator below 0, as the uint64_t that append returns.
RC_NOT_LEADER == 1073741824

ASSUME IndexAssumption == MaxLog < RC_NOT_LEADER

Idle == [pc |-> "reading", cmd |-> [key |-> CHOOSE k \in SetKey : TRUE, value |-> Nil],
         index |-> 0, answer |-> "none", old |-> Nil]

Init ==
  /\ role = "FOLLOWER"
  /\ log = <<>>
  /\ last_index = 0
  /\ commit_index = 0
  /\ last_applied = 0
  /\ committed = 0
  /\ db = Empty
  /\ commands = <<>>
  /\ session = [s \in Session |-> Idle]
  /\ snapshot = NoFile
  /\ image = <<>>
  /\ loaded = 0
  /\ transfer = "none"
  /\ sent = NoFile
  /\ ahead = <<>>
  /\ transfers = 0
  /\ overtaken = FALSE
  /\ restarts = 0

-----------------------------------------------------------------------------
(***************************************************************************)
(* What raft does beneath.                                                 *)
(***************************************************************************)
\* lg has nothing else where the cluster has the committed entries ahead.
Agrees(lg) == \A j \in DOMAIN lg \cap DOMAIN ahead : lg[j] = ahead[j]

\* A server without the entries the cluster has committed is not elected.
ChangeRole ==
  /\ role' \in {"LEADER", "FOLLOWER"} \ {role}
  /\ Len(ahead) <= Len(log) /\ Agrees(log)
  /\ UNCHANGED <<log, last_index, commit_index, last_applied, committed, db, commands, session,
                 snapshotVars, transferVars, restarts>>

\* append_entries from a leader: entries beyond index k give way to one of its own.  The
\* next call of an unfinished transfer is then too old.
ReceiveEntry(k, e) ==
  /\ role = "FOLLOWER"
  /\ k \in committed..Len(log)
  /\ k < MaxLog
  /\ k < Len(ahead) /\ k < Len(log) => log[k + 1] # e
  /\ log' = Append(SubSeq(log, 1, k), e)
  /\ Agrees(log')
  /\ transfer' = IF transfer = "receiving" THEN "none" ELSE transfer
  /\ UNCHANGED <<role, last_index, commit_index, last_applied, committed, db, commands, session,
                 snapshotVars, sent, ahead, transfers, overtaken, restarts>>

\* adjust_commit_index, or leader_commit of an append_entries.
AdvanceCommit(i) ==
  /\ i \in commit_index + 1 .. Len(log)
  /\ Agrees(SubSeq(log, 1, i))
  /\ commit_index' = i
  /\ committed' = IF i > committed THEN i ELSE committed
  /\ UNCHANGED <<role, log, last_index, last_applied, db, commands, session, snapshotVars, transferVars, restarts>>

-----------------------------------------------------------------------------
(***************************************************************************)
(* The thread that serves clients.  A session has one command at a time:   *)
(* it reads the next one after it has written an answer.                   *)
(***************************************************************************)
Answer(s, status, old) == [session[s] EXCEPT !.pc = "reading", !.answer = status, !.old = old]

\* handle_command up to the test of the role.
HandleCommand(s, c) ==
  /\ session[s].pc = "reading"
  /\ session' = [session EXCEPT ![s] =
       IF role = "LEADER" THEN [Idle EXCEPT !.pc = "appending", !.cmd = c]
                          ELSE [Idle EXCEPT !.cmd = c, !.answer = "NOT_LEADER"]]
  /\ UNCHANGED <<raftVars, db, commands, snapshotVars, transferVars, restarts>>

\* entry->index of the entry that append makes.
NewIndex == Len(log) + 1

\* raft_.append, which looks at the role again and may fail to grow the file.
AppendCommand(s) ==
  /\ session[s].pc = "appending"
  /\ \/ /\ role # "LEADER"
        /\ session' = [session EXCEPT ![s].pc = "inserting", ![s].index = RC_NOT_LEADER]
        /\ UNCHANGED log
     \/ /\ role = "LEADER"
        /\ Len(log) < MaxLog
        /\ log' = Append(log, session[s].cmd)
        /\ session' = [session EXCEPT ![s].pc = "inserting", ![s].index = NewIndex]
     \/ /\ role = "LEADER"
        /\ session' = [session EXCEPT ![s] = Answer(s, "INTERNAL_ERROR", Nil)]
        /\ UNCHANGED log
  /\ UNCHANGED <<role, last_index, commit_index, last_applied, committed, db, commands,
                 snapshotVars, transferVars, restarts>>

\* commands.insert, which keeps the session that is there already.
InsertCommand(s) ==
  /\ session[s].pc = "inserting"
  /\ session' = [session EXCEPT ![s].pc = "waiting"]
  /\ commands' = IF session[s].index \in DOMAIN commands THEN commands
                 ELSE [i \in DOMAIN commands \cup {session[s].index} |->
                         IF i = session[s].index THEN s ELSE commands[i]]
  /\ UNCHANGED <<raftVars, db, snapshotVars, transferVars, restarts>>

-----------------------------------------------------------------------------
(***************************************************************************)
(* The apply thread (apply_log_committed, on_log_entry_committed).         *)
(***************************************************************************)

\* apply: the text of the entry is read word by word.
apply(e) == [db EXCEPT ![FirstWord[e.key]] = e.value]

\* insert: the command of the session that waits at the index of the entry.
insert(s) == [db EXCEPT ![session[s].cmd.key] = session[s].cmd.value]

\* Mutant: the value is read after the write.
ValueWritten(c) == c.value

\* A set is answered with the value it replaces, a del with nothing.
OldValue(c) == IF c.value = Nil THEN Nil ELSE db[c.key]

\* Mutant: the session stays in the map.
erase_nothing(i) == commands

\* commands.erase.
erase(i) == [j \in DOMAIN commands \ {i} |-> commands[j]]

OnLogEntryCommitted ==
  LET i == last_applied + 1 IN
  /\ last_applied < commit_index
  /\ last_applied' = i
  /\ \/ /\ i \notin DOMAIN commands
        /\ db' = apply(log[i])
        /\ UNCHANGED <<commands, session>>
     \/ /\ i \in DOMAIN commands
        /\ db' = insert(commands[i])
        /\ session' = [session EXCEPT ![commands[i]] = Answer(commands[i], "OK", OldValue(@.cmd))]
        /\ commands' = erase(i)
  /\ last_index' = IF log_compaction_enabled /\ i = commit_index THEN i ELSE last_index
  /\ UNCHANGED <<role, log, commit_index, committed, snapshotVars, transferVars, restarts>>

-----------------------------------------------------------------------------
(***************************************************************************)
(* Snapshots and restarts.                                                 *)
(***************************************************************************)

\* The child is forked with the database locked and truncates the file.
BeginSnapshot ==
  /\ image = <<>>
  /\ image' = <<[data |-> db, index |-> Max({last_applied, loaded})]>>
  /\ UNCHANGED <<raftVars, db, commands, session, snapshot, loaded, transferVars, restarts>>

\* It has written the file, and the parent has waited for it.
EndSnapshot ==
  /\ image # <<>>
  /\ snapshot' = image[1]
  /\ image' = <<>>
  /\ UNCHANGED <<raftVars, db, commands, session, loaded, transferVars, restarts>>

\* Mutant: one entry before the compaction point.
BeforeLastIndex == last_index - 1

\* Mutant: the server goes on where it was.
AppliedBefore == last_applied

\* Where load_config puts last_applied and commit_index.
ReloadIndex == last_index

\* The lines of f with the keys K.
Part(f, K) == [f EXCEPT !.data = [k \in Key |-> IF k \in K THEN @[k] ELSE Nil]]

\* Lines that a leader sends are appended to what is there, be it this server's own
\* snapshot; of two lines with the same key the parser keeps the first.
Received(K) ==
  [data |-> [k \in Key |-> IF k \in K /\ snapshot.data[k] = Nil THEN sent.data[k] ELSE snapshot.data[k]],
   index |-> Max({sent.index, snapshot.index})]

\* What the snapshot file may hold: while it is written, by the child or by a transfer
\* whose end is not flushed (done_transfer closes the file after the push), some lines.
FileContents ==
  {snapshot} \cup UNION {{Part(image[i], K) : i \in DOMAIN image}
                          \cup (IF transfer = "receiving" THEN {Received(K)} ELSE {})
                          \cup (IF transfer = "queued" THEN {Part(snapshot, K)} ELSE {}) : K \in SUBSET Key}

\* load_database.
Loaded(data) == [k \in Key |-> IF data[k] = Nil THEN Nil ELSE ReadBack[data[k]]]

\* The process dies and init loads what is in the files.  The leader may go on with an
\* unfinished transfer.
Restart ==
  /\ restarts < MaxRestarts
  /\ restarts' = restarts + 1
  /\ snapshot' \in FileContents
  /\ transfer' \in {"none"} \cup ({transfer} \ {"queued"})
  /\ db' = Loaded(snapshot'.data)
  /\ loaded' = snapshot'.index
  /\ image' = <<>>
  /\ role' = "FOLLOWER"
  /\ last_applied' = ReloadIndex
  /\ commit_index' = ReloadIndex
  /\ commands' = <<>>
  /\ session' = [s \in Session |-> Idle]
  /\ UNCHANGED <<log, last_index, committed, sent, ahead, transfers, overtaken>>

-----------------------------------------------------------------------------
(***************************************************************************)
(* A data transfer to this server, whose append_entries was refused when   *)
(* the leader has no entry at the index behind its log; with compaction,   *)
(* also to a server that is being added.  Lines of the file are not cut.   *)
(***************************************************************************)
\* The database after the entries es, as a replica that reads them gets it.
Replay(es) ==
  [k \in Key |-> LET writes == {i \in DOMAIN es : FirstWord[es[i].key] = k}
                 IN IF writes = {} THEN Nil ELSE es[Max(writes)].value]

\* The leader has the committed entries es and no longer, or not yet, one at index l + 1.
Missing(es, i, l) ==
  \/ l >= Len(es)
  \/ log_compaction_enabled /\ (l < i \/ l = 0)

\* The first data_transfer call: of es, the leader has n in its snapshot and i compacted.
\* drop_database clears the database and removes the file.
BeginTransfer(es, n, i) ==
  /\ transfer = "none"
  /\ transfers < MaxTransfers
  /\ committed <= Len(es) /\ SubSeq(es, 1, committed) = SubSeq(log, 1, committed)
  /\ Len(ahead) <= Len(es) /\ Agrees(es)
  /\ Missing(es, i, Len(log))
  /\ transfers' = transfers + 1
  /\ transfer' = "receiving"
  /\ ahead' = es
  /\ sent' = [data |-> Replay(SubSeq(es, 1, n)), index |-> n]
  /\ role' = "FOLLOWER"
  /\ IF log_compaction_enabled
       THEN /\ log' = SubSeq(es, 1, i)
            /\ last_index' = i
            /\ commit_index' = i
            /\ last_applied' = i
            /\ committed' = i
       ELSE UNCHANGED <<log, last_index, commit_index, last_applied, committed>>
  /\ db' = Empty
  /\ snapshot' = NoFile
  /\ overtaken' = (overtaken \/ last_applied' > 0)
  /\ UNCHANGED <<commands, session, image, loaded, restarts>>

\* The other calls and done_transfer; what a failed call had is not sent again.
FinishTransfer ==
  /\ transfer = "receiving"
  /\ transfer' = "queued"
  /\ sent' = NoFile
  /\ \E K \in SUBSET Key : snapshot' = Received(K)
  /\ UNCHANGED <<raftVars, db, commands, session, image, loaded, ahead, transfers, overtaken, restarts>>

\* apply_data_transfer: load_database on a thread of its own.
LoadTransferred ==
  /\ transfer = "queued"
  /\ transfer' = "none"
  /\ \E f \in FileContents :
       /\ db' = [k \in Key |-> IF f.data[k] = Nil THEN db[k] ELSE Loaded(f.data)[k]]
       /\ loaded' = Max({loaded, f.index})
       /\ overtaken' = (overtaken \/ (last_applied > 0 /\ f.data # Empty))
  /\ UNCHANGED <<raftVars, commands, session, snapshot, image, sent, ahead, transfers, restarts>>

-----------------------------------------------------------------------------
Next ==
  \/ ChangeRole
  \/ \E k \in 0..MaxLog, e \in Command : ReceiveEntry(k, e)
  \/ \E i \in 1..MaxLog : AdvanceCommit(i)
  \/ \E s \in Session : \/ \E c \in Command : HandleCommand(s, c)
                        \/ AppendCommand(s)
                        \/ InsertCommand(s)
  \/ OnLogEntryCommitted
  \/ BeginSnapshot
  \/ EndSnapshot
  \/ Restart
  \/ \E len \in 1..MaxLog : \E es \in [1..len -> Command], n \in 1..len, i \in 0..len :
       (log_compaction_enabled \/ i = 0) /\ BeginTransfer(es, n, i)
  \/ FinishTransfer
  \/ LoadTransferred

Spec == Init /\ [][Next]_vars

-----------------------------------------------------------------------------
(***************************************************************************)
(* Properties.                                                             *)
(***************************************************************************)
Snapshot == [data : Database, index : Nat]

TypeOK ==
  /\ role \in {"LEADER", "FOLLOWER"}
  /\ log \in Seq(Command)
  /\ last_index \in Nat /\ commit_index \in Nat /\ last_applied \in Nat /\ committed \in Nat
  /\ db \in Database
  /\ DOMAIN commands \subseteq Nat /\ \A i \in DOMAIN commands : commands[i] \in Session
  /\ session \in [Session -> [pc : {"reading", "appending", "inserting", "waiting"}, cmd : Command,
                              index : Nat, answer : {"none", "OK", "NOT_LEADER", "INTERNAL_ERROR"},
                              old : Value \cup {Nil}]]
  /\ snapshot \in Snapshot
  /\ image \in Seq(Snapshot)
  /\ loaded \in Nat
  /\ transfer \in {"none", "receiving", "queued"} /\ transfers \in 0..MaxTransfers
  /\ sent \in Snapshot /\ ahead \in Seq(Command) /\ overtaken \in BOOLEAN
  /\ restarts \in Nat

\* The value of a key after the first n entries, as a replica that reads them gets it.
ValueAfter(k, n) == Replay(SubSeq(log, 1, n))[k]

\* State machine safety: once the replay of the log has passed the snapshots that were loaded,
\* the database is what the applied entries make it (insert, apply, load_database, drop,
\* on_data_transfer), the same at every replica, whatever of a transferred or interrupted
\* snapshot was lost; unless a transfer cleared the database, or loaded it, when the entries
\* that matter had been applied already.
DatabaseIsReplay ==
  ~overtaken /\ last_applied >= loaded => \A k \in Key : db[k] = ValueAfter(k, last_applied)

\* A client that is told OK has its own command applied, at the index that append gave it,
\* and is told the value that the log has before it; a snapshot that was loaded while it
\* waited may be ahead of that.
AnsweredIsApplied ==
  \A s \in Session : LET c == session[s] IN
    c.answer = "OK" => /\ c.index <= last_applied
                       /\ log[c.index] = c.cmd
                       /\ c.cmd.value # Nil /\ ~overtaken /\ c.index > loaded => c.old = ValueAfter(c.cmd.key, c.index - 1)

-----------------------------------------------------------------------------
(***************************************************************************)
(* Why these hold, as an inductive invariant, without compaction, as long  *)
(* as no other leader replaces the entry of a session that waits here and  *)
(* no name has a blank (SetKey = Key).                                     *)
(***************************************************************************)
\* No other leader has replaced the entry of a session that waits here.
NoStaleCommand ==
  \A s \in Session : LET c == session[s] IN
    c.pc \in {"inserting", "waiting"} /\ c.index # RC_NOT_LEADER =>
      c.index \in 1..Len(log) /\ log[c.index] = c.cmd

\* What is applied is committed, what is committed is in the log, which has its bound.
IndexInv ==
  /\ last_applied <= commit_index /\ commit_index <= committed
  /\ committed <= Len(log) /\ last_index <= committed
  /\ Len(log) <= MaxLog

\* A session in the map waits at its index; a session that waits has no answer yet, and
\* one with an answer has an entry that was applied.
WaitingInv ==
  /\ \A i \in DOMAIN commands : session[commands[i]].pc = "waiting" /\ session[commands[i]].index = i
  /\ \A s \in Session : /\ session[s].pc # "reading" => session[s].answer = "none"
                        /\ session[s].answer = "OK" => session[s].index \in 1..last_applied

\* The entries that the cluster is known to have committed, here or ahead of here.
Settled == IF committed < Len(ahead) THEN ahead ELSE SubSeq(log, 1, committed)

\* One of the entries es behind lo, up to hi, writes k.
Writes(es, k, lo, hi) == \E j \in lo + 1 .. hi : FirstWord[es[j].key] = k

\* Whatever lines of a snapshot are in the file, replaying the entries up to its index
\* overwrites them.
FileInv(es, f) ==
  /\ f.index <= Len(es)
  /\ \A k \in Key : f.data[k] # Nil => Writes(es, k, 0, f.index)

\* Nothing is compacted; a key has the value of the applied entries, or the replay up to
\* the loaded snapshot has still to write it.
ReplayInv ==
  /\ last_index = 0
  /\ \A j \in 1..committed : j <= Len(ahead) => log[j] = ahead[j]
  /\ ~overtaken =>
       /\ loaded <= Len(Settled)
       /\ FileInv(Settled, snapshot) /\ FileInv(Settled, sent)
       /\ \A i \in DOMAIN image : FileInv(Settled, image[i])
       /\ \A k \in Key : db[k] = ValueAfter(k, last_applied) \/ Writes(Settled, k, last_applied, loaded)

KvInv == IndexInv /\ WaitingInv /\ ReplayInv
=============================================================================
