------------------------------ MODULE KvProofs ------------------------------
(***************************************************************************)
(* Proofs about KvStore: its types, in either setting of log compaction;   *)
(* and, without compaction, that the database is the replay of the log and *)
(* that clients are told what was applied, for any number of sessions,     *)
(* entries, deaths and transfers.                                          *)
(***************************************************************************)
EXTENDS KvStore, MaxProofs, TLAPS

SessionType ==
  [pc : {"reading", "appending", "inserting", "waiting"}, cmd : Command, index : Nat,
   answer : {"none", "OK", "NOT_LEADER", "INTERNAL_ERROR"}, old : Value \cup {Nil}]

-----------------------------------------------------------------------------
(***************************************************************************)
(* Commands, sessions and files.                                           *)
(***************************************************************************)
\* The fields of a command.
LEMMA CommandFields ==
  ASSUME NEW c \in Command
  PROVE  c.key \in Key /\ c.value \in Value \cup {Nil} /\ FirstWord[c.key] \in Key
<1>1. c.key \in Key /\ c.value \in Value \cup {Nil}
  BY KeyAssumption DEF Command
<1>2. QED
  BY <1>1, KeyAssumption

\* The session of a client that has sent nothing.
LEMMA IdleType ==
  Idle \in SessionType /\ Idle.pc = "reading" /\ Idle.answer = "none"
<1>1. (CHOOSE k \in SetKey : TRUE) \in Key
  BY KeyAssumption
<1>2. [key |-> CHOOSE k \in SetKey : TRUE, value |-> Nil] \in Command
  BY <1>1 DEF Command
<1>3. QED
  BY <1>2 DEF Idle, SessionType

\* What a session may become.
LEMMA SessionUpdates ==
  ASSUME NEW s \in SessionType, NEW c \in Command, NEW i \in Nat, NEW o \in Value \cup {Nil},
         NEW a \in {"none", "OK", "NOT_LEADER", "INTERNAL_ERROR"}
  PROVE  /\ [Idle EXCEPT !.pc = "appending", !.cmd = c] \in SessionType
         /\ [Idle EXCEPT !.cmd = c, !.answer = a] \in SessionType
         /\ [s EXCEPT !.pc = "inserting", !.index = i] \in SessionType
         /\ [s EXCEPT !.pc = "waiting"] \in SessionType
         /\ [s EXCEPT !.pc = "reading", !.answer = a, !.old = o] \in SessionType
BY IdleType DEF SessionType

\* The database after a write, and an empty one.
LEMMA DatabaseWrites ==
  ASSUME NEW d \in Database, NEW k \in Key, NEW v \in Value \cup {Nil}
  PROVE  [d EXCEPT ![k] = v] \in Database /\ Empty \in Database /\ NoFile \in Snapshot
BY DEF Database, Empty, NoFile, Snapshot

\* A database that was read from a file.
LEMMA LoadedType ==
  ASSUME NEW d \in Database
  PROVE  Loaded(d) \in Database
BY ValueAssumption DEF Database, Loaded

\* Some lines of a file.
LEMMA PartType ==
  ASSUME NEW f \in Snapshot, NEW K
  PROVE  /\ Part(f, K) \in Snapshot
         /\ Part(f, K).index = f.index
         /\ \A k \in Key : Part(f, K).data[k] \in {f.data[k], Nil}
<1> DEFINE d == [k \in Key |-> IF k \in K THEN f.data[k] ELSE Nil]
<1>1. d \in Database /\ \A k \in Key : d[k] \in {f.data[k], Nil}
  BY DEF Database, Snapshot
<1>2. Part(f, K) = [f EXCEPT !.data = d]
  BY DEF Part
<1> HIDE DEF d
<1>3. QED
  BY <1>1, <1>2 DEF Snapshot

\* Lines of the leader's snapshot behind those of this server's.
LEMMA ReceivedType ==
  ASSUME snapshot \in Snapshot, sent \in Snapshot, NEW K
  PROVE  /\ Received(K) \in Snapshot
         /\ Received(K).index \in {sent.index, snapshot.index}
         /\ sent.index <= Received(K).index /\ snapshot.index <= Received(K).index
         /\ \A k \in Key : Received(K).data[k] \in {sent.data[k], snapshot.data[k]}
<1> DEFINE d == [k \in Key |-> IF k \in K /\ snapshot.data[k] = Nil THEN sent.data[k] ELSE snapshot.data[k]]
           i == Max({sent.index, snapshot.index})
<1>1. sent.index \in Nat /\ snapshot.index \in Nat /\ sent.data \in Database /\ snapshot.data \in Database
  BY DEF Snapshot
<1>2. d \in Database /\ \A k \in Key : d[k] \in {sent.data[k], snapshot.data[k]}
  BY <1>1 DEF Database
<1>3. i \in Nat /\ i \in {sent.index, snapshot.index} /\ sent.index <= i /\ snapshot.index <= i
  BY <1>1, MaxOfTwo
<1>4. Received(K) = [data |-> d, index |-> i]
  BY DEF Received
<1> HIDE DEF d, i
<1>5. QED
  BY <1>2, <1>3, <1>4 DEF Snapshot

\* What the file may hold.
LEMMA FileContentsType ==
  ASSUME TypeOK
  PROVE  FileContents \subseteq Snapshot
<1>1. snapshot \in Snapshot /\ sent \in Snapshot /\ image \in Seq(Snapshot)
  BY DEF TypeOK
<1>2. \A i \in DOMAIN image : image[i] \in Snapshot
  BY <1>1
<1>3. QED
  BY <1>1, <1>2, PartType, ReceivedType DEF FileContents

\* The replay of entries.
LEMMA ReplayType ==
  ASSUME NEW es \in Seq(Command)
  PROVE  Replay(es) \in Database
<1>1. SUFFICES ASSUME NEW k \in Key
               PROVE  LET writes == {i \in DOMAIN es : FirstWord[es[i].key] = k}
                      IN (IF writes = {} THEN Nil ELSE es[Max(writes)].value) \in Value \cup {Nil}
  BY DEF Replay, Database
<1> DEFINE writes == {i \in DOMAIN es : FirstWord[es[i].key] = k}
<1>2. CASE writes # {}
  <2>1. writes \in SUBSET (0..Len(es)) /\ Len(es) \in Nat
    OBVIOUS
  <2>2. Max(writes) \in writes
    BY <1>2, <2>1, MaxIsGreatest
  <2>3. es[Max(writes)] \in Command
    BY <2>2
  <2>4. QED
    BY <1>2, <2>3, CommandFields
<1>3. QED
  BY <1>2

-----------------------------------------------------------------------------
(***************************************************************************)
(* Types and indices, with and without compaction.                         *)
(***************************************************************************)
TypedInv == TypeOK /\ IndexInv

\* The facts about the log and its indices that every step starts from.
LEMMA IndexFacts ==
  ASSUME TypedInv
  PROVE  /\ log \in Seq(Command) /\ Len(log) \in Nat /\ ahead \in Seq(Command) /\ Len(ahead) \in Nat
         /\ last_index \in Nat /\ commit_index \in Nat /\ last_applied \in Nat /\ committed \in Nat
         /\ last_applied <= commit_index /\ commit_index <= committed
         /\ committed <= Len(log) /\ last_index <= committed /\ Len(log) <= MaxLog
         /\ loaded \in Nat /\ MaxLog \in Nat
BY BoundAssumption DEF TypedInv, TypeOK, IndexInv

\* step_up and step_down.
LEMMA ChangeRoleTyped ==
  ASSUME TypedInv, ChangeRole
  PROVE  TypedInv'
BY DEF TypedInv, TypeOK, IndexInv, ChangeRole, snapshotVars, transferVars

\* append_entries of a leader keeps what is committed.
LEMMA ReceiveEntryTyped ==
  ASSUME TypedInv, NEW k \in Nat, NEW e \in Command, ReceiveEntry(k, e)
  PROVE  /\ TypedInv'
         /\ \A j \in 1..committed : log'[j] = log[j]
<1>1. /\ k \in committed..Len(log) /\ k < MaxLog /\ log' = Append(SubSeq(log, 1, k), e)
      /\ transfer' = IF transfer = "receiving" THEN "none" ELSE transfer
      /\ UNCHANGED <<role, last_index, commit_index, last_applied, committed, db, commands, session>>
      /\ UNCHANGED <<snapshot, image, loaded, sent, ahead, transfers, overtaken, restarts>>
  BY DEF ReceiveEntry, snapshotVars
<1>2. SubSeq(log, 1, k) \in Seq(Command) /\ Len(SubSeq(log, 1, k)) = k /\ \A j \in 1..k : SubSeq(log, 1, k)[j] = log[j]
  BY SMTT(30), <1>1, IndexFacts
<1> DEFINE p == SubSeq(log, 1, k)
<1> HIDE DEF p
<1>3. p \in Seq(Command) /\ Len(p) = k /\ \A j \in 1..k : p[j] = log[j]
  BY <1>2 DEF p
<1>4. log' = Append(p, e)
  BY <1>1 DEF p
<1>5. log' \in Seq(Command) /\ Len(log') = k + 1 /\ \A j \in 1..k : log'[j] = log[j]
  BY <1>3, <1>4
<1>6. IndexInv'
  BY <1>1, <1>5, IndexFacts DEF IndexInv
<1>7. TypeOK'
  BY <1>1, <1>5 DEF TypedInv, TypeOK
<1>8. \A j \in 1..committed : log'[j] = log[j]
  BY SMTT(30), <1>1, <1>5, IndexFacts
<1>9. QED
  BY <1>6, <1>7, <1>8 DEF TypedInv

\* The commit index moves within the log.
LEMMA AdvanceCommitTyped ==
  ASSUME TypedInv, NEW i \in Nat, AdvanceCommit(i)
  PROVE  TypedInv'
<1>1. /\ i \in commit_index + 1 .. Len(log) /\ commit_index' = i
      /\ committed' = IF i > committed THEN i ELSE committed
      /\ UNCHANGED <<role, log, last_index, last_applied, db, commands, session, snapshot, image, loaded>>
      /\ UNCHANGED <<transfer, sent, ahead, transfers, overtaken, restarts>>
  BY DEF AdvanceCommit, snapshotVars, transferVars
<1>2. IndexInv' /\ committed' \in Nat
  BY <1>1, IndexFacts DEF IndexInv
<1>3. TypeOK'
  BY <1>1, <1>2 DEF TypedInv, TypeOK
<1>4. QED
  BY <1>2, <1>3 DEF TypedInv

\* handle_command.
LEMMA HandleCommandTyped ==
  ASSUME TypedInv, NEW s \in Session, NEW c \in Command, HandleCommand(s, c)
  PROVE  TypedInv'
<1> DEFINE t == IF role = "LEADER" THEN [Idle EXCEPT !.pc = "appending", !.cmd = c]
                                   ELSE [Idle EXCEPT !.cmd = c, !.answer = "NOT_LEADER"]
<1>1. session \in [Session -> SessionType]
  BY DEF TypedInv, TypeOK, SessionType
<1>2. t \in SessionType
  BY <1>1, SessionUpdates, ValueAssumption
<1>3. /\ session' = [session EXCEPT ![s] = t]
      /\ UNCHANGED <<raftVars, db, commands, snapshotVars, transferVars, restarts>>
  BY DEF HandleCommand
<1> HIDE DEF t
<1>4. session' \in [Session -> SessionType]
  BY <1>1, <1>2, <1>3
<1>5. QED
  BY <1>3, <1>4 DEF TypedInv, TypeOK, IndexInv, raftVars, snapshotVars, transferVars, SessionType

\* raft_.append.
LEMMA AppendCommandTyped ==
  ASSUME TypedInv, NEW s \in Session, AppendCommand(s)
  PROVE  /\ TypedInv'
         /\ \A j \in 1..committed : log'[j] = log[j]
<1>1. session \in [Session -> SessionType] /\ session[s] \in SessionType /\ session[s].cmd \in Command
  BY DEF TypedInv, TypeOK, SessionType
<1>2. UNCHANGED <<role, last_index, commit_index, last_applied, committed, db, commands,
                  snapshotVars, transferVars, restarts>>
  BY DEF AppendCommand
<1>3. RC_NOT_LEADER \in Nat /\ NewIndex \in Nat
  BY IndexFacts DEF RC_NOT_LEADER, NewIndex
<1>4. \E t \in SessionType : session' = [session EXCEPT ![s] = t]
  <2>1. CASE \E i \in Nat : session' = [session EXCEPT ![s].pc = "inserting", ![s].index = i]
    <3>1. PICK i \in Nat : session' = [session EXCEPT ![s].pc = "inserting", ![s].index = i]
      BY <2>1
    <3> DEFINE t == [session[s] EXCEPT !.pc = "inserting", !.index = i]
    <3>2. t \in SessionType
      BY <1>1, SessionUpdates, ValueAssumption
    <3>3. session' = [session EXCEPT ![s] = t]
      BY <1>1, <3>1
    <3>4. QED
      BY <3>2, <3>3
  <2>2. CASE session' = [session EXCEPT ![s] = Answer(s, "INTERNAL_ERROR", Nil)]
    <3>1. Answer(s, "INTERNAL_ERROR", Nil) \in SessionType
      BY <1>1, SessionUpdates DEF Answer
    <3>2. QED
      BY <2>2, <3>1
  <2>3. QED
    BY <1>3, <2>1, <2>2 DEF AppendCommand
<1>5. session' \in [Session -> SessionType]
  BY <1>1, <1>4
<1>6. \/ UNCHANGED log
      \/ Len(log) < MaxLog /\ log' = Append(log, session[s].cmd)
  BY DEF AppendCommand
<1>7. /\ log' \in Seq(Command) /\ Len(log) <= Len(log') /\ Len(log') <= MaxLog
      /\ \A j \in 1..Len(log) : log'[j] = log[j]
  <2>1. CASE UNCHANGED log
    BY <2>1, IndexFacts
  <2>2. CASE Len(log) < MaxLog /\ log' = Append(log, session[s].cmd)
    <3> DEFINE c == session[s].cmd
    <3>1. c \in Command /\ log' = Append(log, c)
      BY <1>1, <2>2
    <3> HIDE DEF c
    <3>2. log' \in Seq(Command) /\ Len(log') = Len(log) + 1 /\ \A j \in 1..Len(log) : log'[j] = log[j]
      BY <3>1, IndexFacts
    <3>3. QED
      BY <2>2, <3>2, IndexFacts
  <2>3. QED
    BY <1>6, <2>1, <2>2
<1>8. IndexInv'
  BY <1>2, <1>7, IndexFacts DEF IndexInv
<1>9. TypeOK'
  BY <1>2, <1>5, <1>7 DEF TypedInv, TypeOK, snapshotVars, transferVars, SessionType
<1>10. QED
  BY <1>7, <1>8, <1>9, IndexFacts DEF TypedInv

\* commands.insert.
LEMMA InsertCommandTyped ==
  ASSUME TypedInv, NEW s \in Session, InsertCommand(s)
  PROVE  TypedInv'
<1>1. session \in [Session -> SessionType] /\ session[s] \in SessionType /\ session[s].index \in Nat
  BY DEF TypedInv, TypeOK, SessionType
<1>2. UNCHANGED <<raftVars, db, snapshotVars, transferVars, restarts>>
  BY DEF InsertCommand
<1> DEFINE t == [session[s] EXCEPT !.pc = "waiting"]
<1>3. t \in SessionType
  BY <1>1 DEF SessionType
<1>4. session' = [session EXCEPT ![s] = t]
  BY <1>1 DEF InsertCommand
<1> HIDE DEF t
<1>5. session' \in [Session -> SessionType]
  BY <1>1, <1>3, <1>4
<1>6. DOMAIN commands \subseteq Nat /\ \A i \in DOMAIN commands : commands[i] \in Session
  BY DEF TypedInv, TypeOK
<1>7. DOMAIN commands' \subseteq Nat /\ \A i \in DOMAIN commands' : commands'[i] \in Session
  BY <1>1, <1>6 DEF InsertCommand
<1>8. QED
  BY <1>2, <1>5, <1>7 DEF TypedInv, TypeOK, IndexInv, raftVars, snapshotVars, transferVars, SessionType

\* on_log_entry_committed.
LEMMA OnLogEntryCommittedTyped ==
  ASSUME TypedInv, OnLogEntryCommitted
  PROVE  TypedInv'
<1> DEFINE i == last_applied + 1
<1>1. /\ last_applied < commit_index /\ last_applied' = i
      /\ last_index' = IF log_compaction_enabled /\ i = commit_index THEN i ELSE last_index
      /\ UNCHANGED <<role, log, commit_index, committed, snapshotVars, transferVars, restarts>>
  BY DEF OnLogEntryCommitted
<1>2. IndexInv' /\ last_applied' \in Nat /\ last_index' \in Nat /\ i \in 1..Len(log)
  BY <1>1, IndexFacts DEF IndexInv
<1>3. /\ session \in [Session -> SessionType] /\ db \in Database
      /\ DOMAIN commands \subseteq Nat /\ \A j \in DOMAIN commands : commands[j] \in Session
      /\ log[i] \in Command
  BY <1>2 DEF TypedInv, TypeOK, SessionType
<1>4. /\ session' \in [Session -> SessionType] /\ db' \in Database
      /\ DOMAIN commands' \subseteq Nat /\ \A j \in DOMAIN commands' : commands'[j] \in Session
  <2>1. CASE i \notin DOMAIN commands
    <3>1. db' = [db EXCEPT ![FirstWord[log[i].key]] = log[i].value] /\ UNCHANGED <<commands, session>>
      BY <2>1 DEF OnLogEntryCommitted, apply
    <3>2. FirstWord[log[i].key] \in Key /\ log[i].value \in Value \cup {Nil}
      BY <1>3, CommandFields
    <3>3. QED
      BY <1>3, <3>1, <3>2, DatabaseWrites
  <2>2. CASE i \in DOMAIN commands
    <3> DEFINE s == commands[i]
               c == session[s].cmd
               t == Answer(s, "OK", OldValue(c))
    <3>1. s \in Session /\ session[s] \in SessionType /\ c \in Command
      BY <1>3, <2>2 DEF SessionType
    <3>2. /\ db' = [db EXCEPT ![c.key] = c.value]
          /\ session' = [session EXCEPT ![s] = t]
          /\ commands' = [j \in DOMAIN commands \ {i} |-> commands[j]]
      BY <2>2, <3>1, <1>3 DEF OnLogEntryCommitted, insert, erase
    <3>3. c.key \in Key /\ c.value \in Value \cup {Nil}
      BY <3>1, CommandFields
    <3>4. OldValue(c) \in Value \cup {Nil}
      BY <1>3, <3>3 DEF OldValue, Database
    <3>5. t \in SessionType
      BY <3>1, <3>4 DEF Answer, SessionType
    <3>6. db' \in Database
      BY <1>3, <3>2, <3>3, DatabaseWrites
    <3> HIDE DEF t, c
    <3>7. session' \in [Session -> SessionType]
      BY <1>3, <3>2, <3>5
    <3>8. QED
      BY <1>3, <3>2, <3>6, <3>7
  <2>3. QED
    BY <2>1, <2>2
<1>5. QED
  BY <1>1, <1>2, <1>4 DEF TypedInv, TypeOK, snapshotVars, transferVars, SessionType

\* The child is forked.
LEMMA BeginSnapshotTyped ==
  ASSUME TypedInv, BeginSnapshot
  PROVE  TypedInv'
<1> DEFINE f == [data |-> db, index |-> Max({last_applied, loaded})]
<1>1. Max({last_applied, loaded}) \in Nat
  BY IndexFacts, MaxOfTwo
<1>2. f \in Snapshot
  BY <1>1 DEF Snapshot, TypedInv, TypeOK
<1>3. image' = <<f>> /\ UNCHANGED <<raftVars, db, commands, session, snapshot, loaded, transferVars, restarts>>
  BY DEF BeginSnapshot
<1> HIDE DEF f
<1>4. image' \in Seq(Snapshot)
  BY <1>2, <1>3
<1>5. QED
  BY <1>3, <1>4 DEF TypedInv, TypeOK, IndexInv, raftVars, transferVars

\* The child has written the file.
LEMMA EndSnapshotTyped ==
  ASSUME TypedInv, EndSnapshot
  PROVE  TypedInv'
<1>1. image # <<>> /\ snapshot' = image[1] /\ image' = <<>>
      /\ UNCHANGED <<raftVars, db, commands, session, loaded, transferVars, restarts>>
  BY DEF EndSnapshot
<1>2. image[1] \in Snapshot /\ image' \in Seq(Snapshot)
  BY <1>1 DEF TypedInv, TypeOK
<1>3. QED
  BY <1>1, <1>2 DEF TypedInv, TypeOK, IndexInv, raftVars, transferVars

\* A death, and load_config and load_database after it.
LEMMA RestartTyped ==
  ASSUME TypedInv, Restart
  PROVE  TypedInv'
<1>1. /\ restarts' = restarts + 1 /\ snapshot' \in FileContents
      /\ transfer' \in {"none"} \cup ({transfer} \ {"queued"})
      /\ db' = Loaded(snapshot'.data) /\ loaded' = snapshot'.index /\ image' = <<>> /\ role' = "FOLLOWER"
      /\ last_applied' = last_index /\ commit_index' = last_index
      /\ commands' = <<>> /\ session' = [s \in Session |-> Idle]
      /\ UNCHANGED <<log, last_index, committed, sent, ahead, transfers, overtaken>>
  BY DEF Restart, ReloadIndex
<1>2. snapshot' \in Snapshot
  BY <1>1, FileContentsType DEF TypedInv
<1>3. snapshot'.data \in Database /\ snapshot'.index \in Nat
  BY <1>2 DEF Snapshot
<1>4. db' \in Database
  BY <1>1, <1>3, LoadedType
<1>5. session' \in [Session -> SessionType]
  BY <1>1, IdleType
<1>6. DOMAIN commands' = {}
  BY <1>1
<1>7. image' \in Seq(Snapshot)
  BY <1>1
<1>8. IndexInv'
  BY <1>1, IndexFacts DEF IndexInv
<1>9. TypeOK'
  BY <1>1, <1>2, <1>3, <1>4, <1>5, <1>6, <1>7 DEF TypedInv, TypeOK, SessionType
<1>10. QED
  BY <1>8, <1>9 DEF TypedInv

\* The first call of a transfer.
LEMMA BeginTransferTyped ==
  ASSUME TypedInv, NEW len \in 1..MaxLog, NEW es \in [1..len -> Command], NEW n \in 1..len, NEW i \in 0..len,
         BeginTransfer(es, n, i)
  PROVE  /\ TypedInv'
         /\ es \in Seq(Command) /\ Len(es) = len
<1>0. es \in Seq(Command) /\ Len(es) = len /\ len \in Nat /\ len <= MaxLog
  BY BoundAssumption
<1>1. /\ transfers < MaxTransfers /\ transfers' = transfers + 1 /\ transfer' = "receiving" /\ ahead' = es
      /\ sent' = [data |-> Replay(SubSeq(es, 1, n)), index |-> n] /\ role' = "FOLLOWER"
      /\ IF log_compaction_enabled
           THEN /\ log' = SubSeq(es, 1, i) /\ last_index' = i /\ commit_index' = i
                /\ last_applied' = i /\ committed' = i
           ELSE UNCHANGED <<log, last_index, commit_index, last_applied, committed>>
      /\ db' = Empty /\ snapshot' = NoFile /\ overtaken' = (overtaken \/ last_applied' > 0)
      /\ UNCHANGED <<commands, session, image, loaded, restarts>>
  BY DEF BeginTransfer
<1>2. /\ SubSeq(es, 1, n) \in Seq(Command) /\ SubSeq(es, 1, i) \in Seq(Command)
      /\ Len(SubSeq(es, 1, i)) = i /\ i \in Nat /\ n \in Nat
  BY <1>0
<1>3. sent' \in Snapshot
  BY <1>1, <1>2, ReplayType DEF Snapshot
<1>4. snapshot' \in Snapshot /\ db' \in Database
  BY <1>1 DEF Snapshot, NoFile, Empty, Database
<1>5. /\ IndexInv' /\ log' \in Seq(Command)
      /\ last_index' \in Nat /\ commit_index' \in Nat /\ last_applied' \in Nat /\ committed' \in Nat
  <2>1. CASE log_compaction_enabled
    <3>1. /\ log' = SubSeq(es, 1, i) /\ last_index' = i /\ commit_index' = i /\ last_applied' = i
          /\ committed' = i
      BY <1>1, <2>1
    <3>2. Len(log') = i /\ log' \in Seq(Command)
      BY <1>2, <3>1
    <3>3. i <= MaxLog
      BY <1>0, BoundAssumption
    <3>4. QED
      BY <1>2, <3>1, <3>2, <3>3 DEF IndexInv
  <2>2. CASE ~log_compaction_enabled
    BY <1>1, <2>2, IndexFacts DEF IndexInv
  <2>3. QED
    BY <2>1, <2>2
<1>6. transfers' \in 0..MaxTransfers
  BY <1>1, BoundAssumption DEF TypedInv, TypeOK
<1>7. overtaken' \in BOOLEAN
  BY <1>1
<1>8. TypeOK'
  BY <1>0, <1>1, <1>3, <1>4, <1>5, <1>6, <1>7 DEF TypedInv, TypeOK
<1>9. QED
  BY <1>0, <1>5, <1>8 DEF TypedInv

\* The last call of a transfer.
LEMMA FinishTransferTyped ==
  ASSUME TypedInv, FinishTransfer
  PROVE  TypedInv'
<1>1. PICK K \in SUBSET Key : snapshot' = Received(K)
  BY DEF FinishTransfer
<1>2. snapshot' \in Snapshot
  BY <1>1, ReceivedType DEF TypedInv, TypeOK
<1>3. NoFile \in Snapshot
  BY DEF Snapshot, NoFile, Empty, Database
<1>4. /\ transfer' = "queued" /\ sent' = NoFile
      /\ UNCHANGED <<raftVars, db, commands, session, image, loaded, ahead, transfers, overtaken, restarts>>
  BY DEF FinishTransfer
<1> HIDE DEF NoFile
<1>5. QED
  BY <1>2, <1>3, <1>4 DEF TypedInv, TypeOK, IndexInv, raftVars

\* apply_data_transfer.
LEMMA LoadTransferredTyped ==
  ASSUME TypedInv, LoadTransferred
  PROVE  TypedInv'
<1>1. PICK f \in FileContents :
        /\ db' = [k \in Key |-> IF f.data[k] = Nil THEN db[k] ELSE Loaded(f.data)[k]]
        /\ loaded' = Max({loaded, f.index})
        /\ overtaken' = (overtaken \/ (last_applied > 0 /\ f.data # Empty))
  BY DEF LoadTransferred
<1>2. f \in Snapshot
  BY FileContentsType DEF TypedInv
<1>3. f.data \in Database /\ f.index \in Nat
  BY <1>2 DEF Snapshot
<1>4. Loaded(f.data) \in Database /\ db \in Database
  BY <1>3, LoadedType DEF TypedInv, TypeOK
<1>5. db' \in Database
  BY <1>1, <1>4 DEF Database
<1>6. loaded' \in Nat
  BY <1>1, <1>3, IndexFacts, MaxOfTwo
<1>7. overtaken' \in BOOLEAN
  BY <1>1
<1>8. /\ transfer' = "none"
      /\ UNCHANGED <<raftVars, commands, session, snapshot, image, sent, ahead, transfers, restarts>>
  BY DEF LoadTransferred
<1>9. QED
  BY <1>5, <1>6, <1>7, <1>8 DEF TypedInv, TypeOK, IndexInv, raftVars

\* Every step keeps the types and the order of the indices.
LEMMA NextTyped ==
  TypedInv /\ [Next]_vars => TypedInv'
<1> SUFFICES ASSUME TypedInv, [Next]_vars PROVE TypedInv'
  OBVIOUS
<1>1. CASE UNCHANGED vars
  BY <1>1 DEF vars, raftVars, snapshotVars, transferVars, TypedInv, TypeOK, IndexInv
<1>2. CASE ChangeRole
  BY <1>2, ChangeRoleTyped
<1>3. ASSUME NEW k \in 0..MaxLog, NEW e \in Command, ReceiveEntry(k, e) PROVE TypedInv'
  <2>1. k \in Nat
    BY BoundAssumption
  <2>2. QED
    BY <1>3, <2>1, ReceiveEntryTyped
<1>4. ASSUME NEW i \in 1..MaxLog, AdvanceCommit(i) PROVE TypedInv'
  <2>1. i \in Nat
    BY BoundAssumption
  <2>2. QED
    BY <1>4, <2>1, AdvanceCommitTyped
<1>5. ASSUME NEW s \in Session, NEW c \in Command, HandleCommand(s, c) PROVE TypedInv'
  BY <1>5, HandleCommandTyped
<1>6. ASSUME NEW s \in Session, AppendCommand(s) \/ InsertCommand(s) PROVE TypedInv'
  BY <1>6, AppendCommandTyped, InsertCommandTyped
<1>7. CASE OnLogEntryCommitted
  BY <1>7, OnLogEntryCommittedTyped
<1>8. CASE BeginSnapshot \/ EndSnapshot
  BY <1>8, BeginSnapshotTyped, EndSnapshotTyped
<1>9. CASE Restart
  BY <1>9, RestartTyped
<1>10. ASSUME NEW len \in 1..MaxLog, NEW es \in [1..len -> Command], NEW n \in 1..len, NEW i \in 0..len,
              BeginTransfer(es, n, i)
       PROVE  TypedInv'
  BY <1>10, BeginTransferTyped
<1>11. CASE FinishTransfer \/ LoadTransferred
  BY <1>11, FinishTransferTyped, LoadTransferredTyped
<1>12. QED
  BY <1>1, <1>2, <1>3, <1>4, <1>5, <1>6, <1>7, <1>8, <1>9, <1>10, <1>11 DEF Next

\* A server that starts for the first time.
LEMMA InitTyped ==
  Init => TypedInv
<1> SUFFICES ASSUME Init PROVE TypedInv
  OBVIOUS
<1>1. NoFile \in Snapshot /\ Empty \in Database
  BY DEF NoFile, Empty, Snapshot, Database
<1>2. session \in [Session -> SessionType]
  BY IdleType DEF Init
<1>3. <<>> \in Seq(Command) /\ <<>> \in Seq(Snapshot) /\ Len(<<>>) = 0 /\ DOMAIN <<>> = {}
  OBVIOUS
<1>4. 0 \in 0..MaxTransfers /\ 0 <= MaxLog
  BY BoundAssumption
<1> HIDE DEF NoFile, Empty
<1>5. TypeOK
  BY <1>1, <1>2, <1>3, <1>4 DEF Init, TypeOK, SessionType
<1>6. IndexInv
  BY <1>3, <1>4 DEF Init, IndexInv
<1>7. QED
  BY <1>5, <1>6 DEF TypedInv

\* The types and the order of the indices hold in every reachable state.
LEMMA TypedHolds ==
  Spec => []TypedInv
BY InitTyped, NextTyped, PTL DEF Spec

\* Every variable keeps its type, with and without compaction: no entry is applied that is
\* not in the log, and sessions, files and the database stay well formed through lost
\* lines, deaths and transfers (on_log_entry_committed, load_database).
THEOREM KvTypes == Spec => []TypeOK
<1>1. TypedInv => TypeOK
  BY DEF TypedInv
<1>2. QED
  BY <1>1, TypedHolds, PTL

-----------------------------------------------------------------------------
(***************************************************************************)
(* What a replay computes.                                                 *)
(***************************************************************************)
WritesOf(es, k, n) == {i \in 1..n : FirstWord[es[i].key] = k}
ReplayAt(es, k, n) == IF WritesOf(es, k, n) = {} THEN Nil ELSE es[Max(WritesOf(es, k, n))].value

\* The greatest index at which k is written.
LEMMA LastWrite ==
  ASSUME NEW es \in Seq(Command), NEW k \in Key, NEW n \in 0..Len(es), WritesOf(es, k, n) # {}
  PROVE  /\ Max(WritesOf(es, k, n)) \in 1..n
         /\ FirstWord[es[Max(WritesOf(es, k, n))].key] = k
         /\ \A i \in WritesOf(es, k, n) : i <= Max(WritesOf(es, k, n))
<1>1. WritesOf(es, k, n) \in SUBSET (0..n) /\ n \in Nat
  BY DEF WritesOf
<1>2. /\ Max(WritesOf(es, k, n)) \in WritesOf(es, k, n)
      /\ \A i \in WritesOf(es, k, n) : Max(WritesOf(es, k, n)) >= i
  BY <1>1, MaxIsGreatest
<1>3. QED
  BY <1>1, <1>2 DEF WritesOf

\* Replay of a prefix, without the prefix.
LEMMA ReplayOfPrefix ==
  ASSUME NEW es \in Seq(Command), NEW k \in Key, NEW n \in 0..Len(es)
  PROVE  Replay(SubSeq(es, 1, n))[k] = ReplayAt(es, k, n)
<1> DEFINE p == SubSeq(es, 1, n)
           W == {i \in DOMAIN p : FirstWord[p[i].key] = k}
<1>1. DOMAIN p = 1..n /\ \A i \in 1..n : p[i] = es[i]
  OBVIOUS
<1>2. Replay(p)[k] = IF W = {} THEN Nil ELSE p[Max(W)].value
  BY DEF Replay
<1> HIDE DEF p
<1>3. W = WritesOf(es, k, n)
  BY <1>1 DEF WritesOf
<1> HIDE DEF W
<1>4. W # {} => Max(W) \in 1..n
  BY <1>3, LastWrite
<1>5. QED
  BY <1>1, <1>2, <1>3, <1>4 DEF ReplayAt, p

\* The next entry.
LEMMA ReplayStep ==
  ASSUME NEW es \in Seq(Command), NEW k \in Key, NEW n \in Nat, n + 1 <= Len(es)
  PROVE  ReplayAt(es, k, n + 1) = IF FirstWord[es[n + 1].key] = k THEN es[n + 1].value ELSE ReplayAt(es, k, n)
<1>0. n + 1 \in 0..Len(es) /\ n + 1 \in Nat
  OBVIOUS
<1>1. CASE FirstWord[es[n + 1].key] = k
  <2> DEFINE W == WritesOf(es, k, n + 1)
  <2>1. n + 1 \in W
    BY <1>0, <1>1 DEF WritesOf
  <2> HIDE DEF W
  <2>2. Max(W) \in 1..(n + 1) /\ n + 1 <= Max(W)
    BY <1>0, <2>1, LastWrite DEF W
  <2>3. Max(W) = n + 1
    BY <1>0, <2>2
  <2>4. QED
    BY <1>1, <2>1, <2>3 DEF ReplayAt, W
<1>2. CASE FirstWord[es[n + 1].key] # k
  <2>1. WritesOf(es, k, n + 1) = WritesOf(es, k, n)
    BY <1>0, <1>2 DEF WritesOf
  <2>2. QED
    BY <1>2, <2>1 DEF ReplayAt
<1>3. QED
  BY <1>1, <1>2

\* Logs that agree are replayed alike.
LEMMA ReplaySame ==
  ASSUME NEW es \in Seq(Command), NEW fs \in Seq(Command), NEW k \in Key, NEW n \in 0..Len(es),
         \A j \in 1..n : fs[j] = es[j]
  PROVE  ReplayAt(fs, k, n) = ReplayAt(es, k, n)
<1>1. WritesOf(fs, k, n) = WritesOf(es, k, n)
  BY DEF WritesOf
<1>2. WritesOf(es, k, n) # {} => Max(WritesOf(es, k, n)) \in 1..n
  BY LastWrite
<1>3. QED
  BY <1>1, <1>2 DEF ReplayAt

\* A key with a value was written.
LEMMA ReplayWrites ==
  ASSUME NEW es \in Seq(Command), NEW k \in Key, NEW n \in 0..Len(es), ReplayAt(es, k, n) # Nil
  PROVE  Writes(es, k, 0, n)
<1>1. PICK j \in 1..n : FirstWord[es[j].key] = k
  BY DEF ReplayAt, WritesOf
<1>2. j \in 0 + 1 .. n
  OBVIOUS
<1>3. QED
  BY <1>1, <1>2 DEF Writes

\* Nothing is there before the first entry.
LEMMA ReplayNothing ==
  ASSUME NEW es, NEW k
  PROVE  ReplayAt(es, k, 0) = Nil
BY DEF ReplayAt, WritesOf

\* More entries, and a wider range, have the writes of fewer.
LEMMA WritesGrow ==
  ASSUME NEW es \in Seq(Command), NEW fs \in Seq(Command), Len(es) <= Len(fs),
         \A j \in 1..Len(es) : fs[j] = es[j],
         NEW k \in Key, NEW lo \in Nat, NEW hi \in Nat, hi <= Len(es), Writes(es, k, lo, hi),
         NEW lo2 \in Nat, NEW hi2 \in Nat, lo2 <= lo, hi <= hi2
  PROVE  Writes(fs, k, lo2, hi2)
<1>1. PICK j \in lo + 1 .. hi : FirstWord[es[j].key] = k
  BY DEF Writes
<1>2. j \in lo2 + 1 .. hi2 /\ j \in 1..Len(es)
  OBVIOUS
<1>3. QED
  BY <1>1, <1>2 DEF Writes

\* A file that the replay overwrites stays one.
LEMMA FileGrows ==
  ASSUME NEW es \in Seq(Command), NEW fs \in Seq(Command), Len(es) <= Len(fs),
         \A j \in 1..Len(es) : fs[j] = es[j],
         NEW f \in Snapshot, FileInv(es, f)
  PROVE  FileInv(fs, f)
<1>1. f.index \in Nat /\ f.index <= Len(es) /\ Len(es) \in Nat /\ Len(fs) \in Nat
  BY DEF Snapshot, FileInv
<1>2. ASSUME NEW k \in Key, f.data[k] # Nil PROVE Writes(fs, k, 0, f.index)
  BY <1>1, <1>2, WritesGrow DEF FileInv
<1>3. QED
  BY <1>1, <1>2 DEF FileInv

\* Whatever is in the file, it is a file that the replay overwrites.
LEMMA FilesStay ==
  ASSUME TypeOK, NEW es \in Seq(Command), FileInv(es, snapshot), FileInv(es, sent),
         \A i \in DOMAIN image : FileInv(es, image[i]), NEW f \in FileContents
  PROVE  FileInv(es, f)
<1>0. snapshot \in Snapshot /\ sent \in Snapshot /\ image \in Seq(Snapshot) /\ Len(es) \in Nat
  BY DEF TypeOK
<1>1. ASSUME NEW g \in Snapshot, FileInv(es, g), NEW K PROVE FileInv(es, Part(g, K))
  BY <1>1, PartType DEF FileInv
<1>2. ASSUME NEW K PROVE FileInv(es, Received(K))
  <2> DEFINE g == Received(K)
  <2>1. /\ g \in Snapshot /\ g.index \in {sent.index, snapshot.index}
        /\ sent.index <= g.index /\ snapshot.index <= g.index
        /\ \A k \in Key : g.data[k] \in {sent.data[k], snapshot.data[k]}
    BY <1>0, ReceivedType
  <2> HIDE DEF g
  <2>2. g.index \in Nat /\ sent.index \in Nat /\ snapshot.index \in Nat
    BY <1>0, <2>1 DEF Snapshot
  <2>3. g.index <= Len(es) /\ sent.index <= Len(es) /\ snapshot.index <= Len(es)
    BY <2>1 DEF FileInv
  <2>4. ASSUME NEW k \in Key, g.data[k] # Nil PROVE Writes(es, k, 0, g.index)
    <3>1. Writes(es, k, 0, sent.index) \/ Writes(es, k, 0, snapshot.index)
      BY <2>1, <2>4 DEF FileInv
    <3>2. QED
      BY <2>1, <2>2, <2>3, <3>1, WritesGrow
  <2>5. FileInv(es, g)
    BY <2>3, <2>4 DEF FileInv
  <2>6. QED
    BY <2>5 DEF g
<1>3. \A i \in DOMAIN image : image[i] \in Snapshot
  BY <1>0
<1>4. QED
  BY <1>0, <1>1, <1>2, <1>3 DEF FileContents

-----------------------------------------------------------------------------
(***************************************************************************)
(* What the cluster is known to have committed only grows.                 *)
(***************************************************************************)
\* The committed entries of the log lg, c of them, or those ahead of it if they are more.
Joined(lg, c, ah) == IF c < Len(ah) THEN ah ELSE SubSeq(lg, 1, c)

\* Both agree with what they make together.
LEMMA JoinedIs ==
  ASSUME NEW lg \in Seq(Command), NEW ah \in Seq(Command), NEW c \in Nat, c <= Len(lg),
         \A j \in 1..c : j <= Len(ah) => lg[j] = ah[j]
  PROVE  /\ Joined(lg, c, ah) \in Seq(Command)
         /\ c <= Len(Joined(lg, c, ah)) /\ Len(ah) <= Len(Joined(lg, c, ah))
         /\ Len(Joined(lg, c, ah)) \in {c, Len(ah)}
         /\ \A j \in 1..c : Joined(lg, c, ah)[j] = lg[j]
         /\ \A j \in 1..Len(ah) : Joined(lg, c, ah)[j] = ah[j]
<1>0. Len(lg) \in Nat /\ Len(ah) \in Nat
  OBVIOUS
<1>1. CASE c < Len(ah)
  BY <1>0, <1>1 DEF Joined
<1>2. CASE ~(c < Len(ah))
  <2>1. /\ SubSeq(lg, 1, c) \in Seq(Command) /\ Len(SubSeq(lg, 1, c)) = c
        /\ \A j \in 1..c : SubSeq(lg, 1, c)[j] = lg[j]
    BY <1>0
  <2>2. Joined(lg, c, ah) = SubSeq(lg, 1, c)
    BY <1>2 DEF Joined
  <2>3. \A j \in 1..Len(ah) : j \in 1..c /\ j <= Len(ah)
    BY <1>0, <1>2
  <2>4. QED
    BY <1>0, <1>2, <2>1, <2>2, <2>3
<1>3. QED
  BY <1>1, <1>2

\* bs has the first n entries of as; lg and ah have nothing different up to c.
Starts(as, bs, n) == \A j \in 1..n : bs[j] = as[j]
AgreeUpTo(lg, ah, c) == \A j \in 1..c : j <= Len(ah) => lg[j] = ah[j]

\* More entries of each make more of both.
LEMMA JoinedGrows ==
  ASSUME NEW lg \in Seq(Command), NEW ah \in Seq(Command), NEW c \in Nat, c <= Len(lg),
         AgreeUpTo(lg, ah, c),
         NEW lg2 \in Seq(Command), NEW ah2 \in Seq(Command), NEW c2 \in Nat, c2 <= Len(lg2),
         AgreeUpTo(lg2, ah2, c2),
         c <= c2, Starts(lg, lg2, c), Len(ah) <= Len(ah2), Starts(ah, ah2, Len(ah))
  PROVE  /\ Len(Joined(lg, c, ah)) <= Len(Joined(lg2, c2, ah2))
         /\ Starts(Joined(lg, c, ah), Joined(lg2, c2, ah2), Len(Joined(lg, c, ah)))
<1> DEFINE h == Joined(lg, c, ah)
           h2 == Joined(lg2, c2, ah2)
<1>1. /\ Len(h) \in {c, Len(ah)}
      /\ \A j \in 1..c : h[j] = lg[j]
      /\ \A j \in 1..Len(ah) : h[j] = ah[j]
  BY JoinedIs DEF AgreeUpTo
<1>2. /\ h2 \in Seq(Command) /\ c2 <= Len(h2) /\ Len(ah2) <= Len(h2)
      /\ \A j \in 1..c2 : h2[j] = lg2[j]
      /\ \A j \in 1..Len(ah2) : h2[j] = ah2[j]
  BY JoinedIs DEF AgreeUpTo
<1>3. Len(ah) \in Nat /\ Len(ah2) \in Nat /\ Len(h2) \in Nat
  BY <1>2
<1> HIDE DEF h, h2
<1>4. Len(h) <= Len(h2)
  BY <1>1, <1>2, <1>3
<1>5. ASSUME NEW j \in 1..Len(h) PROVE h2[j] = h[j]
  <2>1. CASE Len(h) = c
    <3>1. j \in 1..c /\ j \in 1..c2
      BY <2>1, <1>5
    <3>2. QED
      BY <3>1, <1>1, <1>2 DEF Starts
  <2>2. CASE Len(h) = Len(ah)
    <3>1. j \in 1..Len(ah) /\ j \in 1..Len(ah2)
      BY <2>2, <1>3, <1>5
    <3>2. QED
      BY <3>1, <1>1, <1>2 DEF Starts
  <2>3. QED
    BY <1>1, <2>1, <2>2
<1>6. QED
  BY <1>4, <1>5 DEF Starts, h, h2

\* The log has nothing else where the cluster has its committed entries.
CommittedAgrees == \A j \in 1..committed : j <= Len(ahead) => log[j] = ahead[j]

\* A step that keeps what is committed, here and ahead of here.
LogGrows ==
  /\ committed <= committed' /\ \A j \in 1..committed : log'[j] = log[j]
  /\ Len(ahead) <= Len(ahead') /\ \A j \in 1..Len(ahead) : ahead'[j] = ahead[j]
  /\ CommittedAgrees'

\* Settled in terms of its parts.
LEMMA SettledIs ==
  ASSUME TypedInv, CommittedAgrees
  PROVE  /\ Settled \in Seq(Command) /\ Len(Settled) \in Nat
         /\ committed <= Len(Settled) /\ Len(ahead) <= Len(Settled)
         /\ \A j \in 1..committed : Settled[j] = log[j]
         /\ \A j \in 1..Len(ahead) : Settled[j] = ahead[j]
<1>1. Settled = Joined(log, committed, ahead)
  BY DEF Settled, Joined
<1>2. /\ log \in Seq(Command) /\ ahead \in Seq(Command) /\ committed \in Nat /\ committed <= Len(log)
      /\ \A j \in 1..committed : j <= Len(ahead) => log[j] = ahead[j]
  BY IndexFacts DEF CommittedAgrees
<1>3. /\ Joined(log, committed, ahead) \in Seq(Command)
      /\ committed <= Len(Joined(log, committed, ahead)) /\ Len(ahead) <= Len(Joined(log, committed, ahead))
      /\ \A j \in 1..committed : Joined(log, committed, ahead)[j] = log[j]
      /\ \A j \in 1..Len(ahead) : Joined(log, committed, ahead)[j] = ahead[j]
  BY <1>2, JoinedIs
<1>4. QED
  BY <1>1, <1>3

\* Such a step adds to what is settled.
LEMMA SettledGrows ==
  ASSUME TypedInv, CommittedAgrees, TypedInv', LogGrows
  PROVE  /\ Settled \in Seq(Command) /\ Settled' \in Seq(Command)
         /\ Len(Settled) \in Nat /\ Len(Settled') \in Nat /\ Len(Settled) <= Len(Settled')
         /\ \A j \in 1..Len(Settled) : Settled'[j] = Settled[j]
<1>1. Settled = Joined(log, committed, ahead) /\ Settled' = Joined(log', committed', ahead')
  BY DEF Settled, Joined
<1>2. /\ log \in Seq(Command) /\ ahead \in Seq(Command) /\ committed \in Nat /\ committed <= Len(log)
      /\ AgreeUpTo(log, ahead, committed)
  BY IndexFacts DEF CommittedAgrees, AgreeUpTo
<1>3. /\ log' \in Seq(Command) /\ ahead' \in Seq(Command) /\ committed' \in Nat /\ committed' <= Len(log')
      /\ AgreeUpTo(log', ahead', committed')
  BY DEF CommittedAgrees, LogGrows, TypedInv, TypeOK, IndexInv, AgreeUpTo
<1>4. /\ committed <= committed' /\ Starts(log, log', committed)
      /\ Len(ahead) <= Len(ahead') /\ Starts(ahead, ahead', Len(ahead))
  BY DEF LogGrows, Starts
<1>5. /\ Len(Joined(log, committed, ahead)) <= Len(Joined(log', committed', ahead'))
      /\ Starts(Joined(log, committed, ahead), Joined(log', committed', ahead'), Len(Joined(log, committed, ahead)))
  BY <1>2, <1>3, <1>4, JoinedGrows
<1>6. Joined(log, committed, ahead) \in Seq(Command) /\ Joined(log', committed', ahead') \in Seq(Command)
  BY <1>2, <1>3, JoinedIs DEF AgreeUpTo
<1>7. QED
  BY <1>1, <1>5, <1>6 DEF Starts


\* A step that leaves the log and the cluster alone.
LEMMA GrowsNothing ==
  ASSUME TypedInv, CommittedAgrees, UNCHANGED <<log, committed, ahead>>
  PROVE  LogGrows
BY IndexFacts DEF LogGrows, CommittedAgrees

\* append_entries: the entry it brings agrees with what the cluster has.
LEMMA ReceiveEntryGrows ==
  ASSUME TypedInv, CommittedAgrees, NEW k \in Nat, NEW e \in Command, ReceiveEntry(k, e)
  PROVE  LogGrows
<1>1. UNCHANGED <<committed, ahead>> /\ \A j \in 1..committed : log'[j] = log[j]
  BY ReceiveEntryTyped DEF ReceiveEntry
<1>2. CommittedAgrees'
  BY <1>1 DEF CommittedAgrees
<1>3. QED
  BY <1>1, <1>2, IndexFacts DEF LogGrows

\* An entry that is appended is behind what is committed.
LEMMA AppendCommandGrows ==
  ASSUME TypedInv, CommittedAgrees, NEW s \in Session, AppendCommand(s)
  PROVE  LogGrows /\ Len(log) <= Len(log') /\ \A j \in 1..Len(log) : log'[j] = log[j]
<1>1. UNCHANGED <<committed, ahead>> /\ (log' = log \/ log' = Append(log, session[s].cmd))
  BY DEF AppendCommand, transferVars
<1>2. session[s].cmd \in Command
  BY DEF TypedInv, TypeOK
<1>3. Len(log) <= Len(log') /\ \A j \in 1..Len(log) : log'[j] = log[j]
  BY SMTT(30), <1>1, <1>2, IndexFacts
<1>4. \A j \in 1..committed : log'[j] = log[j]
  BY <1>3, IndexFacts
<1>5. CommittedAgrees'
  BY <1>1, <1>4 DEF CommittedAgrees
<1>6. QED
  BY <1>1, <1>3, <1>4, <1>5, IndexFacts DEF LogGrows

\* What becomes committed agrees with what the cluster has.
LEMMA AdvanceCommitGrows ==
  ASSUME TypedInv, CommittedAgrees, NEW i \in Nat, AdvanceCommit(i)
  PROVE  LogGrows
<1>1. /\ i \in commit_index + 1 .. Len(log) /\ Agrees(SubSeq(log, 1, i))
      /\ committed' = IF i > committed THEN i ELSE committed
      /\ UNCHANGED <<log, ahead>>
  BY DEF AdvanceCommit, transferVars
<1>2. /\ DOMAIN SubSeq(log, 1, i) = 1..i /\ DOMAIN ahead = 1..Len(ahead)
      /\ \A j \in 1..i : SubSeq(log, 1, i)[j] = log[j]
  BY <1>1, IndexFacts
<1>3. \A j \in 1..i : j <= Len(ahead) => log[j] = ahead[j]
  <2> SUFFICES ASSUME NEW j \in 1..i, j <= Len(ahead) PROVE log[j] = ahead[j]
    OBVIOUS
  <2>1. j \in DOMAIN SubSeq(log, 1, i) /\ j \in DOMAIN ahead
    BY <1>2, IndexFacts
  <2>2. QED
    BY <1>1, <1>2, <2>1 DEF Agrees
<1>4. CommittedAgrees'
  BY <1>1, <1>3 DEF CommittedAgrees
<1>5. QED
  BY <1>1, <1>4, IndexFacts DEF LogGrows

\* The leader of a transfer has every entry that was known to be committed.
LEMMA BeginTransferGrows ==
  ASSUME ~log_compaction_enabled, TypedInv, CommittedAgrees,
         NEW len \in 1..MaxLog, NEW es \in [1..len -> Command], NEW n \in 1..len, NEW i \in 0..len,
         BeginTransfer(es, n, i)
  PROVE  LogGrows /\ es \in Seq(Command) /\ Len(es) = len
<1>0. MaxLog \in Nat /\ len \in Nat
  BY BoundAssumption
<1>1. es \in Seq(Command) /\ Len(es) = len /\ DOMAIN es = 1..len
  BY <1>0
<1>2. /\ committed <= Len(es) /\ SubSeq(es, 1, committed) = SubSeq(log, 1, committed)
      /\ Len(ahead) <= Len(es) /\ Agrees(es)
      /\ ahead' = es /\ UNCHANGED <<log, committed>>
  BY DEF BeginTransfer
<1>3. ASSUME NEW j \in 1..committed PROVE log[j] = es[j]
  <2>1. SubSeq(es, 1, committed)[j] = es[j] /\ SubSeq(log, 1, committed)[j] = log[j]
    BY <1>1, <1>2, IndexFacts
  <2>2. QED
    BY <1>2, <2>1
<1>4. \A j \in 1..Len(ahead) : es[j] = ahead[j]
  <2>1. DOMAIN ahead = 1..Len(ahead) /\ \A j \in 1..Len(ahead) : j \in 1..len
    BY <1>1, <1>2, IndexFacts
  <2>2. QED
    BY <1>1, <1>2, <2>1 DEF Agrees
<1>5. CommittedAgrees'
  BY <1>2, <1>3 DEF CommittedAgrees
<1>6. QED
  BY <1>1, <1>2, <1>4, <1>5, IndexFacts DEF LogGrows

\* No step takes back what is committed, and nothing is compacted.
LEMMA NextGrows ==
  ASSUME ~log_compaction_enabled, TypedInv, CommittedAgrees, last_index = 0, [Next]_vars
  PROVE  LogGrows /\ last_index' = 0
<1>1. CASE UNCHANGED vars
  BY <1>1, GrowsNothing DEF vars, raftVars, transferVars
<1>2. CASE ChangeRole
  BY <1>2, GrowsNothing DEF ChangeRole, transferVars
<1>3. ASSUME NEW k \in 0..MaxLog, NEW e \in Command, ReceiveEntry(k, e) PROVE LogGrows /\ last_index' = 0
  <2>1. k \in Nat
    BY BoundAssumption
  <2>2. QED
    BY <1>3, <2>1, ReceiveEntryGrows DEF ReceiveEntry
<1>4. ASSUME NEW i \in 1..MaxLog, AdvanceCommit(i) PROVE LogGrows /\ last_index' = 0
  <2>1. i \in Nat
    BY BoundAssumption
  <2>2. QED
    BY <1>4, <2>1, AdvanceCommitGrows DEF AdvanceCommit
<1>5. ASSUME NEW s \in Session, NEW c \in Command, HandleCommand(s, c) PROVE LogGrows /\ last_index' = 0
  BY <1>5, GrowsNothing DEF HandleCommand, raftVars, transferVars
<1>6. ASSUME NEW s \in Session, AppendCommand(s) PROVE LogGrows /\ last_index' = 0
  BY <1>6, AppendCommandGrows DEF AppendCommand
<1>7. ASSUME NEW s \in Session, InsertCommand(s) PROVE LogGrows /\ last_index' = 0
  BY <1>7, GrowsNothing DEF InsertCommand, raftVars, transferVars
<1>8. CASE OnLogEntryCommitted
  <2>1. UNCHANGED <<log, committed, ahead, last_index>>
    BY <1>8 DEF OnLogEntryCommitted, transferVars
  <2>2. QED
    BY <2>1, GrowsNothing
<1>9. CASE BeginSnapshot
  BY <1>9, GrowsNothing DEF BeginSnapshot, raftVars, transferVars
<1>10. CASE EndSnapshot
  BY <1>10, GrowsNothing DEF EndSnapshot, raftVars, transferVars
<1>11. CASE Restart
  BY <1>11, GrowsNothing DEF Restart
<1>12. ASSUME NEW len \in 1..MaxLog, NEW es \in [1..len -> Command], NEW n \in 1..len, NEW i \in 0..len,
              BeginTransfer(es, n, i)
       PROVE  LogGrows /\ last_index' = 0
  <2>1. last_index' = last_index
    BY <1>12 DEF BeginTransfer
  <2>2. QED
    BY <1>12, <2>1, BeginTransferGrows
<1>13. CASE FinishTransfer
  BY <1>13, GrowsNothing DEF FinishTransfer, raftVars
<1>14. CASE LoadTransferred
  BY <1>14, GrowsNothing DEF LoadTransferred, raftVars
<1>15. QED
  BY <1>1, <1>2, <1>3, <1>4, <1>5, <1>6, <1>7, <1>8, <1>9, <1>10, <1>11, <1>12, <1>13, <1>14 DEF Next

-----------------------------------------------------------------------------
(***************************************************************************)
(* Sessions: who waits, and what a client has been told.                   *)
(***************************************************************************)
\* What WaitingInv says of one session.
Waits(s) ==
  /\ session[s].pc # "reading" => session[s].answer = "none"
  /\ session[s].answer = "OK" => session[s].index \in 1..last_applied

\* What AnsweredIsApplied says of one session.
Told(s) ==
  session[s].answer = "OK" =>
    /\ session[s].index <= last_applied
    /\ log[session[s].index] = session[s].cmd
    /\ session[s].cmd.value # Nil /\ ~overtaken /\ session[s].index > loaded =>
         session[s].old = ValueAfter(session[s].cmd.key, session[s].index - 1)

\* The invariants, session by session.
LEMMA BySession ==
  /\ WaitingInv <=> /\ \A i \in DOMAIN commands : session[commands[i]].pc = "waiting" /\ session[commands[i]].index = i
                    /\ \A s \in Session : Waits(s)
  /\ AnsweredIsApplied <=> \A s \in Session : Told(s)
BY DEF WaitingInv, Waits, AnsweredIsApplied, Told

\* The types of a session, of the map and of an entry that is committed.
LEMMA SessionFacts ==
  ASSUME TypedInv
  PROVE  /\ session \in [Session -> SessionType] /\ db \in Database
         /\ DOMAIN commands \subseteq Nat /\ \A i \in DOMAIN commands : commands[i] \in Session
         /\ \A s \in Session : session[s].cmd \in Command /\ session[s].index \in Nat
BY DEF TypedInv, TypeOK, SessionType

\* The value of a key after some entries, without the prefix.
LEMMA ValueAfterIs ==
  ASSUME TypedInv, NEW k \in Key, NEW n \in 0..Len(log)
  PROVE  ValueAfter(k, n) = ReplayAt(log, k, n)
BY IndexFacts, ReplayOfPrefix DEF ValueAfter

\* The sessions of the map, when one that is not in it changes.
LEMMA WaitingStays ==
  ASSUME TypedInv, WaitingInv, NEW s \in Session, NEW t, session' = [session EXCEPT ![s] = t],
         UNCHANGED <<commands, last_applied>>, session[s].pc # "waiting",
         t.pc # "reading" => t.answer = "none", t.answer # "OK"
  PROVE  WaitingInv'
<1>1. session'[s] = t /\ \A r \in Session \ {s} : session'[r] = session[r]
  BY SessionFacts
<1>2. \A i \in DOMAIN commands : commands[i] \in Session \ {s}
  BY SessionFacts DEF WaitingInv
<1>3. QED
  BY <1>1, <1>2 DEF WaitingInv

\* handle_command.
LEMMA HandleCommandWaits ==
  ASSUME TypedInv, WaitingInv, NEW s \in Session, NEW c \in Command, HandleCommand(s, c)
  PROVE  WaitingInv' /\ session'[s].answer # "OK" /\ \A r \in Session \ {s} : session'[r] = session[r]
<1> DEFINE t == IF role = "LEADER" THEN [Idle EXCEPT !.pc = "appending", !.cmd = c]
                                   ELSE [Idle EXCEPT !.cmd = c, !.answer = "NOT_LEADER"]
<1>1. /\ session' = [session EXCEPT ![s] = t] /\ session[s].pc = "reading"
      /\ UNCHANGED <<commands, last_applied>>
  BY DEF HandleCommand, raftVars
<1>2. /\ t.pc # "reading" => t.answer = "none"
      /\ t.answer # "OK"
  BY IdleType DEF Idle
<1> HIDE DEF t
<1>3. session'[s] = t /\ \A r \in Session \ {s} : session'[r] = session[r]
  BY <1>1, SessionFacts
<1>4. QED
  BY <1>1, <1>2, <1>3, WaitingStays

\* append.
LEMMA AppendCommandWaits ==
  ASSUME TypedInv, WaitingInv, NEW s \in Session, AppendCommand(s)
  PROVE  WaitingInv' /\ session'[s].answer # "OK" /\ \A r \in Session \ {s} : session'[r] = session[r]
<1>0. session[s] \in SessionType /\ session \in [Session -> SessionType]
  BY SessionFacts
<1>1. session[s].pc = "appending" /\ session[s].answer = "none" /\ UNCHANGED <<commands, last_applied>>
  BY DEF AppendCommand, WaitingInv
<1>2. PICK t : /\ session' = [session EXCEPT ![s] = t]
               /\ t.pc # "reading" => t.answer = "none"
               /\ t.answer # "OK"
  <2>1. CASE session' = [session EXCEPT ![s].pc = "inserting", ![s].index = RC_NOT_LEADER]
    <3> DEFINE t == [session[s] EXCEPT !.pc = "inserting", !.index = RC_NOT_LEADER]
    <3>1. t.answer = session[s].answer
      BY <1>0 DEF SessionType
    <3>2. session' = [session EXCEPT ![s] = t]
      BY <1>0, <2>1
    <3>3. QED
      BY <1>1, <3>1, <3>2
  <2>2. CASE session' = [session EXCEPT ![s].pc = "inserting", ![s].index = NewIndex]
    <3> DEFINE t == [session[s] EXCEPT !.pc = "inserting", !.index = NewIndex]
    <3>1. t.answer = session[s].answer
      BY <1>0 DEF SessionType
    <3>2. session' = [session EXCEPT ![s] = t]
      BY <1>0, <2>2
    <3>3. QED
      BY <1>1, <3>1, <3>2
  <2>3. CASE session' = [session EXCEPT ![s] = Answer(s, "INTERNAL_ERROR", Nil)]
    <3>1. Answer(s, "INTERNAL_ERROR", Nil).pc = "reading" /\ Answer(s, "INTERNAL_ERROR", Nil).answer = "INTERNAL_ERROR"
      BY <1>0 DEF Answer, SessionType
    <3>2. QED
      BY <2>3, <3>1
  <2>4. QED
    BY <2>1, <2>2, <2>3 DEF AppendCommand
<1>3. session'[s] = t /\ \A r \in Session \ {s} : session'[r] = session[r]
  BY <1>0, <1>2
<1>4. QED
  BY <1>1, <1>2, <1>3, WaitingStays

\* commands.insert: the session enters the map at its own index, or not at all.
LEMMA InsertCommandWaits ==
  ASSUME TypedInv, WaitingInv, NEW s \in Session, InsertCommand(s)
  PROVE  WaitingInv' /\ session'[s].answer # "OK" /\ \A r \in Session \ {s} : session'[r] = session[r]
<1> DEFINE t == [session[s] EXCEPT !.pc = "waiting"]
           x == session[s].index
<1>0. session[s] \in SessionType /\ session \in [Session -> SessionType] /\ x \in Nat
  BY SessionFacts
<1>1. /\ session[s].pc = "inserting" /\ session' = [session EXCEPT ![s] = t]
      /\ commands' = IF x \in DOMAIN commands THEN commands
                     ELSE [i \in DOMAIN commands \cup {x} |-> IF i = x THEN s ELSE commands[i]]
      /\ last_applied' = last_applied
  BY <1>0 DEF InsertCommand, raftVars
<1>2. session[s].answer = "none"
  BY <1>1 DEF WaitingInv
<1>3. t.pc = "waiting" /\ t.index = x /\ t.answer = "none"
  BY <1>0, <1>2 DEF SessionType
<1> HIDE DEF t, x
<1>4. session'[s] = t /\ \A r \in Session \ {s} : session'[r] = session[r]
  BY <1>0, <1>1
<1>5. \A i \in DOMAIN commands : commands[i] \in Session \ {s}
  BY <1>1, SessionFacts DEF WaitingInv
<1>6. \A i \in DOMAIN commands' : session'[commands'[i]].pc = "waiting" /\ session'[commands'[i]].index = i
  <2> SUFFICES ASSUME NEW i \in DOMAIN commands'
               PROVE  session'[commands'[i]].pc = "waiting" /\ session'[commands'[i]].index = i
    OBVIOUS
  <2>1. (i = x /\ commands'[i] = s) \/ (i \in DOMAIN commands /\ commands'[i] = commands[i])
    BY <1>1
  <2>2. QED
    BY <1>3, <1>4, <1>5, <2>1 DEF WaitingInv
<1>7. \A r \in Session : Waits(r)'
  BY <1>1, <1>3, <1>4 DEF Waits, WaitingInv
<1>8. WaitingInv'
  BY <1>6, <1>7 DEF WaitingInv, Waits
<1>9. QED
  BY <1>3, <1>4, <1>8


\* Nobody waits for the entry i, or the session that waits is told what it replaces.
AnswersAt(i) ==
  \/ UNCHANGED <<commands, session>>
  \/ \E s \in Session, t \in SessionType :
       /\ i \in DOMAIN commands /\ commands[i] = s
       /\ session' = [session EXCEPT ![s] = t]
       /\ commands' = [j \in DOMAIN commands \ {i} |-> commands[j]]
       /\ t.pc = "reading" /\ t.answer = "OK" /\ t.index = i /\ t.cmd = log[i]
       /\ t.old = OldValue(log[i])

\* What on_log_entry_committed does, whether a session waits or not: it applies the entry at
\* the next index, and only the session that appended it is told.
LEMMA EntryApplied ==
  ASSUME SetKey = Key, TypedInv, WaitingInv, NoStaleCommand, OnLogEntryCommitted, NEW i, i = last_applied + 1
  PROVE  /\ i \in 1..Len(log) /\ i <= committed /\ last_applied' = i /\ log[i] \in Command
         /\ FirstWord[log[i].key] = log[i].key
         /\ db' = [db EXCEPT ![log[i].key] = log[i].value]
         /\ AnswersAt(i)
<1>1. last_applied < commit_index /\ last_applied' = i
  BY DEF OnLogEntryCommitted
<1>2. i \in 1..Len(log) /\ i <= committed /\ i \in Nat /\ i # RC_NOT_LEADER
  BY <1>1, IndexFacts, IndexAssumption DEF RC_NOT_LEADER
<1>3. log[i] \in Command
  BY <1>2, IndexFacts
<1>4. FirstWord[log[i].key] = log[i].key
  BY <1>3, CommandFields, KeyAssumption
<1>5. CASE i \notin DOMAIN commands
  <2>1. db' = [db EXCEPT ![FirstWord[log[i].key]] = log[i].value] /\ UNCHANGED <<commands, session>>
    BY <1>5 DEF OnLogEntryCommitted, apply
  <2>2. QED
    BY <1>1, <1>2, <1>3, <1>4, <2>1 DEF AnswersAt
<1>6. CASE i \in DOMAIN commands
  <2> DEFINE s == commands[i]
             c == session[s].cmd
             t == Answer(s, "OK", OldValue(c))
  <2>1. s \in Session /\ session[s] \in SessionType /\ session[s].pc = "waiting" /\ session[s].index = i
    BY <1>6, SessionFacts DEF WaitingInv
  <2>2. c = log[i]
    BY <1>2, <2>1 DEF NoStaleCommand
  <2>3. /\ db' = [db EXCEPT ![c.key] = c.value]
        /\ session' = [session EXCEPT ![s] = t]
        /\ commands' = [j \in DOMAIN commands \ {i} |-> commands[j]]
    BY <1>6, <2>1, SessionFacts DEF OnLogEntryCommitted, insert, erase
  <2>4. OldValue(c) \in Value \cup {Nil}
    BY <1>3, <2>2, SessionFacts, CommandFields DEF OldValue, Database
  <2>5. t \in SessionType /\ t.pc = "reading" /\ t.answer = "OK" /\ t.index = i /\ t.cmd = c /\ t.old = OldValue(c)
    BY <2>1, <2>4 DEF Answer, SessionType
  <2> HIDE DEF t, c
  <2>6. QED
    BY <1>1, <1>2, <1>3, <1>4, <1>6, <2>1, <2>2, <2>3, <2>5 DEF AnswersAt
<1>7. QED
  BY <1>5, <1>6

\* on_log_entry_committed: the session leaves the map when it is answered.
LEMMA OnLogEntryCommittedWaits ==
  ASSUME SetKey = Key, TypedInv, WaitingInv, NoStaleCommand, OnLogEntryCommitted
  PROVE  WaitingInv'
<1>0. PICK i : i = last_applied + 1
  OBVIOUS
<1>1. last_applied' = i /\ i \in Nat /\ last_applied \in Nat /\ last_applied <= i
  BY <1>0, IndexFacts, EntryApplied
<1>2. AnswersAt(i)
  BY <1>0, EntryApplied
<1>3. ASSUME NEW s \in Session, Waits(s), session'[s] = session[s] PROVE Waits(s)'
  <2>1. \A x \in 1..last_applied : x \in 1..last_applied'
    BY <1>1
  <2>2. QED
    BY <1>3, <2>1 DEF Waits
<1>4. CASE UNCHANGED <<commands, session>>
  <2>1. \A s \in Session : Waits(s)'
    BY <1>3, <1>4, BySession
  <2>2. QED
    BY <1>4, <2>1 DEF WaitingInv, Waits
<1>5. ASSUME NEW s \in Session, NEW t \in SessionType, i \in DOMAIN commands, commands[i] = s,
             session' = [session EXCEPT ![s] = t],
             commands' = [j \in DOMAIN commands \ {i} |-> commands[j]],
             t.pc = "reading", t.answer = "OK", t.index = i
      PROVE  WaitingInv'
  <2>1. session'[s] = t /\ \A r \in Session \ {s} : session'[r] = session[r]
    BY <1>5, SessionFacts
  <2>2. i \in 1..last_applied'
    <3>1. 1 <= i
      BY <1>0, IndexFacts
    <3>2. QED
      BY <3>1, <1>1
  <2>3. Waits(s)'
    BY <1>5, <2>1, <2>2 DEF Waits
  <2>4. \A r \in Session \ {s} : Waits(r)'
    BY <1>3, <2>1, BySession
  <2>5. ASSUME NEW j \in DOMAIN commands'
        PROVE  session'[commands'[j]].pc = "waiting" /\ session'[commands'[j]].index = j
    <3>1. j \in DOMAIN commands /\ j # i /\ commands'[j] = commands[j] /\ commands[j] \in Session
      BY <1>5, <2>5, SessionFacts
    <3>2. commands[j] # s
      BY <1>5, <3>1 DEF WaitingInv
    <3>3. QED
      BY <2>1, <3>1, <3>2 DEF WaitingInv
  <2>6. QED
    BY <2>3, <2>4, <2>5 DEF WaitingInv, Waits
<1>6. QED
  BY <1>2, <1>4, <1>5 DEF AnswersAt

\* Every step keeps the map and the sessions together.
LEMMA NextWaits ==
  ASSUME ~log_compaction_enabled, SetKey = Key, TypedInv, WaitingInv, NoStaleCommand, [Next]_vars
  PROVE  WaitingInv'
<1>1. ASSUME UNCHANGED <<session, commands, last_applied>> PROVE WaitingInv'
  BY <1>1 DEF WaitingInv
<1>2. CASE UNCHANGED vars
  BY <1>1, <1>2 DEF vars, raftVars
<1>3. CASE ChangeRole
  BY <1>1, <1>3 DEF ChangeRole
<1>4. ASSUME NEW k \in 0..MaxLog, NEW e \in Command, ReceiveEntry(k, e) PROVE WaitingInv'
  BY <1>1, <1>4 DEF ReceiveEntry
<1>5. ASSUME NEW i \in 1..MaxLog, AdvanceCommit(i) PROVE WaitingInv'
  BY <1>1, <1>5 DEF AdvanceCommit
<1>6. ASSUME NEW s \in Session, (\E c \in Command : HandleCommand(s, c)) \/ AppendCommand(s) \/ InsertCommand(s)
      PROVE  WaitingInv'
  BY <1>6, HandleCommandWaits, AppendCommandWaits, InsertCommandWaits
<1>7. CASE OnLogEntryCommitted
  BY <1>7, OnLogEntryCommittedWaits
<1>8. CASE BeginSnapshot
  BY <1>1, <1>8 DEF BeginSnapshot, raftVars
<1>9. CASE EndSnapshot
  BY <1>1, <1>9 DEF EndSnapshot, raftVars
<1>10. CASE Restart
  <2>1. commands' = <<>> /\ session' = [s \in Session |-> Idle]
    BY <1>10 DEF Restart
  <2>2. DOMAIN commands' = {}
    BY <2>1
  <2>3. QED
    BY <2>1, <2>2, IdleType DEF WaitingInv
<1>11. ASSUME NEW len \in 1..MaxLog, NEW es \in [1..len -> Command], NEW n \in 1..len, NEW i \in 0..len,
              BeginTransfer(es, n, i)
       PROVE  WaitingInv'
  BY <1>1, <1>11 DEF BeginTransfer
<1>12. CASE FinishTransfer
  BY <1>1, <1>12 DEF FinishTransfer, raftVars
<1>13. CASE LoadTransferred
  BY <1>1, <1>13 DEF LoadTransferred, raftVars
<1>14. QED
  BY <1>2, <1>3, <1>4, <1>5, <1>6, <1>7, <1>8, <1>9, <1>10, <1>11, <1>12, <1>13 DEF Next


\* What a client has been told stays true as entries are added behind what is committed.
LEMMA ToldStays ==
  ASSUME TypedInv, WaitingInv, TypedInv', LogGrows, NEW s \in Session, Told(s), session'[s] = session[s],
         last_applied <= last_applied', loaded <= loaded', overtaken => overtaken'
  PROVE  Told(s)'
<1> SUFFICES ASSUME session[s].answer = "OK" PROVE Told(s)'
  BY DEF Told
<1>1. PICK c, i : c = session[s].cmd /\ i = session[s].index
  OBVIOUS
<1>2. i \in 1..last_applied /\ c \in Command /\ c.key \in Key
  BY <1>1, SessionFacts, CommandFields DEF WaitingInv
<1>3. /\ i <= last_applied /\ i \in Nat /\ i <= last_applied' /\ i \in 1..committed
      /\ i - 1 \in 0..Len(log) /\ i - 1 \in 0..Len(log')
  <2>1. /\ last_applied' \in Nat /\ committed' \in Nat /\ committed' <= Len(log') /\ Len(log') \in Nat
        /\ committed <= committed'
    BY DEF TypedInv, TypeOK, IndexInv, LogGrows
  <2>2. QED
    BY <1>2, <2>1, IndexFacts
<1>4. log'[i] = log[i] /\ \A j \in 1..(i - 1) : log'[j] = log[j]
  <2>1. \A j \in 1..(i - 1) : j \in 1..committed
    BY <1>3, IndexFacts
  <2>2. QED
    BY <1>3, <2>1 DEF LogGrows
<1>5. ValueAfter(c.key, i - 1)' = ValueAfter(c.key, i - 1)
  <2>1. log' \in Seq(Command) /\ log \in Seq(Command)
    BY DEF TypedInv, TypeOK
  <2>2. Replay(SubSeq(log', 1, i - 1))[c.key] = ReplayAt(log', c.key, i - 1)
    BY <1>2, <1>3, <2>1, ReplayOfPrefix
  <2>3. Replay(SubSeq(log, 1, i - 1))[c.key] = ReplayAt(log, c.key, i - 1)
    BY <1>2, <1>3, <2>1, ReplayOfPrefix
  <2>4. ReplayAt(log', c.key, i - 1) = ReplayAt(log, c.key, i - 1)
    BY <1>2, <1>3, <1>4, <2>1, ReplaySame
  <2>5. QED
    BY <2>2, <2>3, <2>4 DEF ValueAfter
<1>6. i > loaded' => i > loaded
  BY <1>3 DEF TypedInv, TypeOK
<1>7. log[i] = c /\ (c.value # Nil /\ ~overtaken /\ i > loaded => session[s].old = ValueAfter(c.key, i - 1))
  BY <1>1 DEF Told
<1>8. log'[i] = c /\ (c.value # Nil /\ ~overtaken' /\ i > loaded' => session[s].old = ValueAfter(c.key, i - 1)')
  BY <1>4, <1>5, <1>6, <1>7
<1>9. QED
  BY <1>1, <1>3, <1>8 DEF Told

\* What the database holds of a key, of which the replay has still to write nothing.
LEMMA NothingToCome ==
  ASSUME TypedInv, ReplayInv, ~overtaken, loaded <= last_applied, NEW k \in Key
  PROVE  db[k] = ValueAfter(k, last_applied)
<1>1. ~Writes(Settled, k, last_applied, loaded)
  BY IndexFacts DEF Writes
<1>2. QED
  BY <1>1 DEF ReplayInv

\* on_log_entry_committed: the client is told the value that the log has before its command.
LEMMA OnLogEntryCommittedTold ==
  ASSUME ~log_compaction_enabled, SetKey = Key, TypedInv, WaitingInv, ReplayInv, NoStaleCommand,
         TypedInv', LogGrows, AnsweredIsApplied, OnLogEntryCommitted
  PROVE  AnsweredIsApplied'
<1>0. PICK i : i = last_applied + 1
  OBVIOUS
<1>1. AnswersAt(i) /\ i \in 1..Len(log) /\ last_applied' = i /\ log[i] \in Command
  BY <1>0, EntryApplied
<1>2. UNCHANGED <<log, loaded, overtaken>>
  BY DEF OnLogEntryCommitted, snapshotVars, transferVars
<1>3. /\ last_applied \in Nat /\ loaded \in Nat /\ i \in Nat /\ i - 1 = last_applied
      /\ last_applied <= last_applied' /\ loaded <= loaded'
  BY <1>0, <1>1, <1>2, IndexFacts
<1>4. ASSUME NEW s \in Session, session'[s] = session[s] PROVE Told(s)'
  <2>1. Told(s)
    BY BySession
  <2>2. QED
    BY <1>2, <1>3, <1>4, <2>1, ToldStays
<1>5. CASE UNCHANGED <<commands, session>>
  <2>1. \A s \in Session : Told(s)'
    BY <1>4, <1>5
  <2>2. QED
    BY <2>1 DEF AnsweredIsApplied, Told
<1>6. ASSUME NEW s \in Session, NEW t \in SessionType, session' = [session EXCEPT ![s] = t],
             t.answer = "OK", t.index = i, t.cmd = log[i], t.old = OldValue(log[i])
      PROVE  AnsweredIsApplied'
  <2>1. session'[s] = t /\ \A r \in Session \ {s} : session'[r] = session[r]
    BY <1>6, SessionFacts
  <2>2. \A r \in Session \ {s} : Told(r)'
    BY <1>4, <2>1
  <2>3. ASSUME log[i].value # Nil, ~overtaken, i > loaded PROVE t.old = ValueAfter(log[i].key, i - 1)
    <3>1. log[i].key \in Key /\ loaded <= last_applied
      BY <1>0, <1>1, <1>3, <2>3, CommandFields
    <3>2. t.old = db[log[i].key]
      BY <1>6, <2>3 DEF OldValue
    <3>3. QED
      BY <1>3, <2>3, <3>1, <3>2, NothingToCome
  <2>4. ValueAfter(log[i].key, i - 1)' = ValueAfter(log[i].key, i - 1)
    BY <1>2 DEF ValueAfter
  <2>5. Told(s)'
    BY <1>1, <1>2, <1>3, <1>6, <2>1, <2>3, <2>4 DEF Told
  <2>6. QED
    BY <2>2, <2>5 DEF AnsweredIsApplied, Told
<1>7. QED
  BY <1>1, <1>5, <1>6 DEF AnswersAt

\* Every step keeps what clients have been told.
LEMMA NextTold ==
  ASSUME ~log_compaction_enabled, SetKey = Key, TypedInv, WaitingInv, ReplayInv, NoStaleCommand,
         AnsweredIsApplied, [Next]_vars, TypedInv', LogGrows
  PROVE  AnsweredIsApplied'
<1>1. ASSUME NEW s \in Session, session'[s] = session[s] \/ session'[s].answer # "OK",
             last_applied <= last_applied', loaded <= loaded', overtaken => overtaken'
      PROVE  Told(s)'
  <2>1. Told(s)
    BY BySession
  <2>2. CASE session'[s].answer # "OK"
    BY <2>2 DEF Told
  <2>3. QED
    BY <1>1, <2>1, <2>2, ToldStays
<1>2. last_applied \in Nat /\ loaded \in Nat
  BY IndexFacts
<1>3. ASSUME \A s \in Session : session'[s] = session[s] \/ session'[s].answer # "OK",
             UNCHANGED <<last_applied, loaded, overtaken>>
      PROVE  AnsweredIsApplied'
  <2>1. \A s \in Session : Told(s)'
    BY <1>1, <1>2, <1>3
  <2>2. QED
    BY <2>1 DEF AnsweredIsApplied, Told
<1>4. CASE UNCHANGED vars
  BY <1>3, <1>4 DEF vars, raftVars, snapshotVars, transferVars
<1>5. CASE ChangeRole
  BY <1>3, <1>5 DEF ChangeRole, snapshotVars, transferVars
<1>6. ASSUME NEW k \in 0..MaxLog, NEW e \in Command, ReceiveEntry(k, e) PROVE AnsweredIsApplied'
  BY <1>3, <1>6 DEF ReceiveEntry, snapshotVars
<1>7. ASSUME NEW i \in 1..MaxLog, AdvanceCommit(i) PROVE AnsweredIsApplied'
  BY <1>3, <1>7 DEF AdvanceCommit, snapshotVars, transferVars
<1>8. ASSUME NEW s \in Session, (\E c \in Command : HandleCommand(s, c)) \/ AppendCommand(s) \/ InsertCommand(s)
      PROVE  AnsweredIsApplied'
  <2>1. \A r \in Session : session'[r] = session[r] \/ session'[r].answer # "OK"
    BY <1>8, HandleCommandWaits, AppendCommandWaits, InsertCommandWaits
  <2>2. UNCHANGED <<last_applied, loaded, overtaken>>
    BY <1>8 DEF HandleCommand, AppendCommand, InsertCommand, raftVars, snapshotVars, transferVars
  <2>3. QED
    BY <1>3, <2>1, <2>2
<1>9. CASE OnLogEntryCommitted
  BY <1>9, OnLogEntryCommittedTold
<1>10. CASE BeginSnapshot
  BY <1>3, <1>10 DEF BeginSnapshot, raftVars, transferVars
<1>11. CASE EndSnapshot
  BY <1>3, <1>11 DEF EndSnapshot, raftVars, transferVars
<1>12. CASE Restart
  <2>1. \A s \in Session : session'[s].answer # "OK"
    BY <1>12, IdleType DEF Restart
  <2>2. QED
    BY <2>1 DEF AnsweredIsApplied
<1>13. ASSUME NEW len \in 1..MaxLog, NEW es \in [1..len -> Command], NEW n \in 1..len, NEW i \in 0..len,
              BeginTransfer(es, n, i)
       PROVE  AnsweredIsApplied'
  <2>1. UNCHANGED <<session, last_applied, loaded>> /\ (overtaken => overtaken')
    BY <1>13 DEF BeginTransfer
  <2>2. \A s \in Session : Told(s)'
    BY <1>1, <1>2, <2>1
  <2>3. QED
    BY <2>2 DEF AnsweredIsApplied, Told
<1>14. CASE FinishTransfer
  BY <1>3, <1>14 DEF FinishTransfer, raftVars
<1>15. CASE LoadTransferred
  <2>1. PICK f \in FileContents : loaded' = Max({loaded, f.index})
    BY <1>15 DEF LoadTransferred
  <2>2. f.index \in Nat
    BY <2>1, FileContentsType DEF Snapshot, TypedInv
  <2>3. loaded <= loaded'
    BY <1>2, <2>1, <2>2, MaxOfTwo
  <2>4. UNCHANGED <<session, last_applied>> /\ (overtaken => overtaken')
    BY <1>15 DEF LoadTransferred, raftVars
  <2>5. \A s \in Session : Told(s)'
    BY <1>1, <1>2, <2>3, <2>4
  <2>6. QED
    BY <2>5 DEF AnsweredIsApplied, Told
<1>16. QED
  BY <1>4, <1>5, <1>6, <1>7, <1>8, <1>9, <1>10, <1>11, <1>12, <1>13, <1>14, <1>15 DEF Next

-----------------------------------------------------------------------------
(***************************************************************************)
(* The database is the replay.                                             *)
(***************************************************************************)
\* What ReplayInv says of the files and of the database while no transfer came too late.
FilesReplayed ==
  /\ loaded <= Len(Settled)
  /\ FileInv(Settled, snapshot) /\ FileInv(Settled, sent)
  /\ \A i \in DOMAIN image : FileInv(Settled, image[i])

DbReplayed == \A k \in Key : db[k] = ReplayAt(log, k, last_applied) \/ Writes(Settled, k, last_applied, loaded)

\* ReplayInv in these terms.
LEMMA ReplayInvIs ==
  ASSUME TypedInv
  PROVE  ReplayInv <=> last_index = 0 /\ CommittedAgrees /\ (~overtaken => FilesReplayed /\ DbReplayed)
<1>1. last_applied \in 0..Len(log)
  BY IndexFacts
<1>2. \A k \in Key : ValueAfter(k, last_applied) = ReplayAt(log, k, last_applied)
  BY <1>1, ValueAfterIs
<1>3. QED
  BY <1>2 DEF ReplayInv, CommittedAgrees, FilesReplayed, DbReplayed

\* The same after a step.
LEMMA ReplayInvWas ==
  ASSUME TypedInv', last_index' = 0, CommittedAgrees', ~overtaken' => FilesReplayed' /\ DbReplayed'
  PROVE  ReplayInv'
<1>1. log' \in Seq(Command) /\ last_applied' \in 0..Len(log')
  BY DEF TypedInv, TypeOK, IndexInv
<1>2. \A k \in Key : ValueAfter(k, last_applied)' = ReplayAt(log', k, last_applied')
  BY <1>1, ReplayOfPrefix DEF ValueAfter
<1>3. QED
  BY <1>2 DEF ReplayInv, CommittedAgrees, FilesReplayed, DbReplayed

\* What a step finds, in terms of the log that it leaves.
Before ==
  /\ Settled' \in Seq(Command) /\ Len(Settled') \in Nat /\ loaded <= Len(Settled')
  /\ FileInv(Settled', snapshot) /\ FileInv(Settled', sent)
  /\ \A i \in DOMAIN image : FileInv(Settled', image[i])
  /\ \A k \in Key : db[k] = ReplayAt(log', k, last_applied) \/ Writes(Settled', k, last_applied, loaded)
  /\ last_applied <= committed' /\ committed' <= Len(Settled') /\ Len(ahead') <= Len(Settled')
  /\ \A j \in 1..committed' : Settled'[j] = log'[j]
  /\ \A j \in 1..Len(ahead') : Settled'[j] = ahead'[j]

\* It finds the replay that was there.
LEMMA BeforeHolds ==
  ASSUME TypedInv, TypedInv', ReplayInv, LogGrows, ~overtaken
  PROVE  Before
<1>1. CommittedAgrees /\ FilesReplayed /\ DbReplayed
  BY ReplayInvIs
<1>2. PICK g, h : g = Settled /\ h = Settled'
  OBVIOUS
<1>3. /\ g \in Seq(Command) /\ h \in Seq(Command) /\ Len(g) \in Nat /\ Len(h) \in Nat /\ Len(g) <= Len(h)
      /\ \A j \in 1..Len(g) : h[j] = g[j]
  BY <1>1, <1>2, SettledGrows
<1>4. loaded <= Len(h) /\ loaded <= Len(g) /\ loaded \in Nat
  BY <1>1, <1>2, <1>3, IndexFacts DEF FilesReplayed
<1>5. /\ snapshot \in Snapshot /\ sent \in Snapshot
      /\ \A i \in DOMAIN image : image[i] \in Snapshot
  BY SMTT(30) DEF TypedInv, TypeOK
<1>6. FileInv(h, snapshot) /\ FileInv(h, sent) /\ \A i \in DOMAIN image : FileInv(h, image[i])
  BY <1>1, <1>2, <1>3, <1>5, FileGrows DEF FilesReplayed
<1>7. ASSUME NEW k \in Key PROVE db[k] = ReplayAt(log', k, last_applied) \/ Writes(h, k, last_applied, loaded)
  <2>1. CASE db[k] = ReplayAt(log, k, last_applied)
    <3>1. /\ log \in Seq(Command) /\ last_applied \in 0..Len(log)
          /\ \A j \in 1..last_applied : j \in 1..committed
      BY IndexFacts
    <3>2. log' \in Seq(Command)
      BY DEF TypedInv, TypeOK
    <3>3. \A j \in 1..last_applied : log'[j] = log[j]
      BY <3>1 DEF LogGrows
    <3>4. QED
      BY <2>1, <3>1, <3>2, <3>3, ReplaySame
  <2>2. CASE Writes(g, k, last_applied, loaded)
    <3>1. last_applied \in Nat /\ last_applied <= last_applied /\ loaded <= loaded
      BY <1>4, IndexFacts
    <3>2. QED
      BY <1>3, <1>4, <2>2, <3>1, WritesGrow
  <2>3. QED
    BY <1>1, <1>2, <2>1, <2>2 DEF DbReplayed
<1>8. /\ committed' <= Len(h) /\ Len(ahead') <= Len(h)
      /\ \A j \in 1..committed' : h[j] = log'[j]
      /\ \A j \in 1..Len(ahead') : h[j] = ahead'[j]
  <2>1. CommittedAgrees'
    BY DEF LogGrows
  <2>2. /\ log' \in Seq(Command) /\ ahead' \in Seq(Command) /\ committed' \in Nat /\ committed' <= Len(log')
        /\ AgreeUpTo(log', ahead', committed')
    BY <2>1 DEF CommittedAgrees, AgreeUpTo, TypedInv, TypeOK, IndexInv
  <2>3. h = Joined(log', committed', ahead')
    BY <1>2 DEF Settled, Joined
  <2>4. QED
    BY <2>2, <2>3, JoinedIs DEF AgreeUpTo
<1>9. last_applied <= committed'
  <2>1. committed <= committed' /\ committed' \in Nat
    BY DEF LogGrows, TypedInv, TypeOK
  <2>2. QED
    BY <2>1, IndexFacts
<1>10. QED
  BY <1>2, <1>3, <1>4, <1>6, <1>7, <1>8, <1>9 DEF Before

\* A step that leaves the files and the database alone.
LEMMA ReplayStays ==
  ASSUME TypedInv, TypedInv', ReplayInv, LogGrows, last_index' = 0,
         UNCHANGED <<db, snapshot, sent, image, loaded, last_applied, overtaken>>
  PROVE  ReplayInv'
<1>1. ASSUME ~overtaken' PROVE FilesReplayed' /\ DbReplayed'
  <2>1. Before
    BY <1>1, BeforeHolds
  <2>2. QED
    BY <2>1 DEF Before, FilesReplayed, DbReplayed
<1>2. QED
  BY <1>1, ReplayInvWas DEF LogGrows

\* on_log_entry_committed: the entry overwrites what a file had put there.
LEMMA OnLogEntryCommittedReplay ==
  ASSUME SetKey = Key, TypedInv, WaitingInv, NoStaleCommand, TypedInv', ReplayInv, LogGrows, last_index' = 0,
         OnLogEntryCommitted
  PROVE  ReplayInv'
<1>0. PICK i : i = last_applied + 1
  OBVIOUS
<1>1. /\ i \in 1..Len(log) /\ last_applied' = i /\ log[i] \in Command
      /\ FirstWord[log[i].key] = log[i].key
      /\ db' = [db EXCEPT ![log[i].key] = log[i].value]
  BY <1>0, EntryApplied
<1>2. UNCHANGED <<log, committed, snapshot, image, loaded, sent, overtaken>>
  BY DEF OnLogEntryCommitted, snapshotVars, transferVars
<1>3. ASSUME ~overtaken' PROVE FilesReplayed' /\ DbReplayed'
  <2>1. Before
    BY <1>2, <1>3, BeforeHolds
  <2>2. FilesReplayed'
    BY <1>2, <2>1 DEF Before, FilesReplayed
  <2>3. ASSUME NEW k \in Key
        PROVE  db'[k] = ReplayAt(log', k, i) \/ Writes(Settled', k, i, loaded')
    <3>0. ReplayAt(log, k, i) = IF FirstWord[log[i].key] = k THEN log[i].value ELSE ReplayAt(log, k, last_applied)
      <4>1. log \in Seq(Command) /\ last_applied \in Nat /\ last_applied + 1 <= Len(log)
        BY <1>0, <1>1, IndexFacts
      <4>2. QED
        BY <1>0, <4>1, ReplayStep
    <3>1. CASE log[i].key = k
      <4>1. db'[k] = log[i].value
        BY <1>1, <3>1, SessionFacts DEF Database
      <4>2. QED
        BY <1>1, <1>2, <3>0, <3>1, <4>1
    <3>2. CASE log[i].key # k
      <4>1. db'[k] = db[k] /\ ReplayAt(log', k, i) = ReplayAt(log', k, last_applied)
        BY <1>1, <1>2, <3>0, <3>2, SessionFacts DEF Database
      <4>2. CASE db[k] = ReplayAt(log', k, last_applied)
        BY <4>1, <4>2
      <4>3. CASE Writes(Settled', k, last_applied, loaded)
        <5>1. PICK j \in last_applied + 1 .. loaded : FirstWord[Settled'[j].key] = k
          BY <4>3 DEF Writes
        <5>2. Settled'[i] = log[i]
          <6>1. i \in 1..committed'
            BY <1>0, <1>1, <1>2, IndexFacts, EntryApplied
          <6>2. QED
            BY <1>2, <2>1, <6>1 DEF Before
        <5>3. j # i
          BY <1>1, <3>2, <5>1, <5>2
        <5>4. j \in i + 1 .. loaded'
          BY <1>0, <1>2, <5>1, <5>3, IndexFacts
        <5>5. QED
          BY <5>1, <5>4 DEF Writes
      <4>4. QED
        BY <2>1, <4>2, <4>3 DEF Before
    <3>3. QED
      BY <3>1, <3>2
  <2>4. DbReplayed'
    BY <1>1, <2>3 DEF DbReplayed
  <2>5. QED
    BY <2>2, <2>4
<1>4. QED
  BY <1>3, ReplayInvWas DEF LogGrows

\* The file that the child writes: every key it has is written by the entries up to its index.
LEMMA BeginSnapshotReplay ==
  ASSUME TypedInv, TypedInv', ReplayInv, LogGrows, last_index' = 0, BeginSnapshot
  PROVE  ReplayInv'
<1>1. UNCHANGED <<db, log, snapshot, loaded, sent, overtaken, last_applied>>
  BY DEF BeginSnapshot, raftVars, transferVars
<1>2. PICK x : x = Max({last_applied, loaded})
  OBVIOUS
<1>3. x \in Nat /\ x \in {last_applied, loaded} /\ last_applied <= x /\ loaded <= x /\ last_applied \in Nat /\ loaded \in Nat
  BY <1>2, IndexFacts, MaxOfTwo
<1>4. PICK f : f = [data |-> db, index |-> x]
  OBVIOUS
<1>5. image' = <<f>> /\ f.data = db /\ f.index = x
  BY <1>2, <1>4 DEF BeginSnapshot
<1>6. ASSUME ~overtaken' PROVE FilesReplayed' /\ DbReplayed'
  <2>1. Before
    BY <1>1, <1>6, BeforeHolds
  <2>2. PICK h : h = Settled'
    OBVIOUS
  <2>3. h \in Seq(Command) /\ Len(h) \in Nat /\ loaded <= Len(h) /\ last_applied <= Len(h)
    <3>1. h \in Seq(Command) /\ Len(h) \in Nat /\ loaded <= Len(h) /\ last_applied <= committed' /\ committed' <= Len(h)
      BY <2>1, <2>2 DEF Before
    <3>2. committed' \in Nat
      BY DEF TypedInv, TypeOK
    <3>3. QED
      BY <1>3, <3>1, <3>2
  <2>4. x <= Len(h)
    BY <1>3, <2>3
  <2>5. ASSUME NEW k \in Key, db[k] # Nil PROVE Writes(h, k, 0, x)
    <3>1. CASE db[k] = ReplayAt(log', k, last_applied)
      <4>1. log' \in Seq(Command) /\ last_applied \in 0..Len(log')
        BY <1>1, IndexFacts
      <4>2. Writes(log', k, 0, last_applied)
        BY <2>5, <3>1, <4>1, ReplayWrites
      <4>3. PICK j \in 0 + 1 .. last_applied : FirstWord[log'[j].key] = k
        BY <4>2 DEF Writes
      <4>4. j \in 1..committed'
        <5>1. last_applied <= committed' /\ committed' \in Nat
          BY <2>1 DEF Before, TypedInv, TypeOK
        <5>2. QED
          BY <1>3, <4>3, <5>1
      <4>5. h[j] = log'[j]
        BY <2>1, <2>2, <4>4 DEF Before
      <4>6. j \in 0 + 1 .. x
        BY <1>3, <4>3
      <4>7. QED
        BY <4>3, <4>5, <4>6 DEF Writes
    <3>2. CASE Writes(h, k, last_applied, loaded)
      <4>1. PICK j \in last_applied + 1 .. loaded : FirstWord[h[j].key] = k
        BY <3>2 DEF Writes
      <4>2. j \in 0 + 1 .. x
        BY <1>3, <4>1
      <4>3. QED
        BY <4>1, <4>2 DEF Writes
    <3>3. QED
      BY <2>1, <2>2, <3>1, <3>2 DEF Before
  <2>6. FileInv(h, f)
    BY <1>5, <2>4, <2>5 DEF FileInv
  <2>7. \A i \in DOMAIN image' : image'[i] = f
    BY <1>5
  <2>8. QED
    BY <1>1, <2>1, <2>2, <2>6, <2>7 DEF Before, FilesReplayed, DbReplayed
<1>7. QED
  BY <1>6, ReplayInvWas DEF LogGrows

\* The file is complete.
LEMMA EndSnapshotReplay ==
  ASSUME TypedInv, TypedInv', ReplayInv, LogGrows, last_index' = 0, EndSnapshot
  PROVE  ReplayInv'
<1>1. UNCHANGED <<db, log, loaded, sent, overtaken, last_applied>> /\ snapshot' = image[1] /\ image' = <<>>
  BY DEF EndSnapshot, raftVars, transferVars
<1>2. 1 \in DOMAIN image /\ DOMAIN image' = {}
  BY <1>1 DEF EndSnapshot, TypedInv, TypeOK
<1>3. ASSUME ~overtaken' PROVE FilesReplayed' /\ DbReplayed'
  <2>1. Before
    BY <1>1, <1>3, BeforeHolds
  <2>2. QED
    BY <1>1, <1>2, <2>1 DEF Before, FilesReplayed, DbReplayed
<1>4. QED
  BY <1>3, ReplayInvWas DEF LogGrows

\* Lines of a file that the replay overwrites, whatever is left of it after the death: the
\* server starts again at the first entry.
LEMMA RestartReplay ==
  ASSUME TypedInv, TypedInv', ReplayInv, LogGrows, last_index' = 0, Restart
  PROVE  ReplayInv'
<1>1. PICK f \in FileContents : snapshot' = f /\ db' = Loaded(f.data) /\ loaded' = f.index
  BY DEF Restart
<1>2. last_applied' = 0 /\ image' = <<>> /\ UNCHANGED <<log, sent, overtaken>>
  BY DEF Restart, ReloadIndex
<1>3. f \in Snapshot /\ DOMAIN image' = {}
  BY <1>1, <1>2, FileContentsType DEF TypedInv
<1>4. ASSUME ~overtaken' PROVE FilesReplayed' /\ DbReplayed'
  <2>1. Before
    BY <1>2, <1>4, BeforeHolds
  <2>2. PICK h : h = Settled'
    OBVIOUS
  <2>3. h \in Seq(Command) /\ FileInv(h, snapshot) /\ FileInv(h, sent) /\ \A i \in DOMAIN image : FileInv(h, image[i])
    BY <2>1, <2>2 DEF Before
  <2>4. FileInv(h, f)
    BY <1>1, <2>3, FilesStay DEF TypedInv
  <2>5. ASSUME NEW k \in Key PROVE db'[k] = ReplayAt(log', k, 0) \/ Writes(h, k, 0, f.index)
    <3>1. CASE f.data[k] = Nil
      <4>1. db'[k] = Nil
        BY <1>1, <3>1 DEF Loaded
      <4>2. QED
        BY <4>1, ReplayNothing
    <3>2. CASE f.data[k] # Nil
      BY <2>4, <3>2 DEF FileInv
    <3>3. QED
      BY <3>1, <3>2
  <2>6. f.index <= Len(h)
    BY <2>4 DEF FileInv
  <2>7. FilesReplayed'
    BY <1>1, <1>2, <1>3, <2>2, <2>3, <2>4, <2>6 DEF FilesReplayed
  <2>8. DbReplayed'
    BY <1>1, <1>2, <2>2, <2>5 DEF DbReplayed
  <2>9. QED
    BY <2>7, <2>8
<1>5. QED
  BY <1>4, ReplayInvWas DEF LogGrows

\* A file without a line.
LEMMA NoFileInv ==
  ASSUME NEW es \in Seq(Command)
  PROVE  FileInv(es, NoFile)
<1>1. NoFile.index = 0 /\ \A k \in Key : NoFile.data[k] = Nil
  BY DEF NoFile, Empty
<1>2. 0 <= Len(es)
  OBVIOUS
<1>3. QED
  BY <1>1, <1>2 DEF FileInv

\* What the leader of a transfer sends is the replay of entries that the cluster has committed.
LEMMA BeginTransferReplay ==
  ASSUME ~log_compaction_enabled, TypedInv, TypedInv', ReplayInv, LogGrows, last_index' = 0,
         NEW len \in 1..MaxLog, NEW es \in [1..len -> Command], NEW n \in 1..len, NEW i \in 0..len,
         BeginTransfer(es, n, i)
  PROVE  ReplayInv'
<1>1. /\ UNCHANGED <<log, loaded, last_applied, image>> /\ db' = Empty /\ snapshot' = NoFile /\ ahead' = es
      /\ overtaken' = (overtaken \/ last_applied' > 0)
  BY DEF BeginTransfer
<1>2. es \in Seq(Command) /\ Len(es) = len /\ n \in 0..Len(es) /\ n \in Nat
  BY ReplayInvIs, BeginTransferGrows, BoundAssumption
<1>3. PICK f : f = [data |-> Replay(SubSeq(es, 1, n)), index |-> n]
  OBVIOUS
<1>4. sent' = f /\ f.index = n /\ f.data = Replay(SubSeq(es, 1, n))
  BY <1>3 DEF BeginTransfer
<1>5. ASSUME ~overtaken' PROVE FilesReplayed' /\ DbReplayed'
  <2>1. ~overtaken /\ last_applied = 0
    <3>1. ~overtaken /\ ~(last_applied > 0)
      BY <1>1, <1>5, Zenon
    <3>2. QED
      BY <3>1, IndexFacts
  <2>2. Before
    BY <2>1, BeforeHolds
  <2>3. PICK h : h = Settled'
    OBVIOUS
  <2>4. /\ h \in Seq(Command) /\ Len(h) \in Nat /\ loaded <= Len(h) /\ Len(es) <= Len(h)
        /\ \A j \in 1..Len(es) : h[j] = es[j]
        /\ \A j \in DOMAIN image : FileInv(h, image[j])
    BY <1>1, <2>2, <2>3 DEF Before
  <2>5. ASSUME NEW k \in Key, f.data[k] # Nil PROVE Writes(h, k, 0, n)
    <3>1. ReplayAt(es, k, n) # Nil
      BY <1>2, <1>4, <2>5, ReplayOfPrefix
    <3>2. Writes(es, k, 0, n)
      BY <1>2, <3>1, ReplayWrites
    <3>3. n <= Len(es) /\ 0 <= 0 /\ n <= n
      BY <1>2
    <3>4. QED
      BY <1>2, <2>4, <3>2, <3>3, WritesGrow
  <2>6. FileInv(h, f)
    <3>1. n <= Len(h)
      BY <1>2, <2>4
    <3>2. QED
      BY <1>4, <2>5, <3>1 DEF FileInv
  <2>7. FileInv(h, NoFile)
    BY <2>4, NoFileInv
  <2>8. FilesReplayed'
    BY <1>1, <1>4, <2>3, <2>4, <2>6, <2>7 DEF FilesReplayed
  <2>9. DbReplayed'
    <3>1. \A k \in Key : db'[k] = ReplayAt(log', k, last_applied')
      BY <1>1, <2>1, ReplayNothing DEF Empty
    <3>2. QED
      BY <3>1 DEF DbReplayed
  <2>10. QED
    BY <2>8, <2>9
<1>6. QED
  BY <1>5, ReplayInvWas DEF LogGrows

\* The lines that arrived are appended to the file.
LEMMA FinishTransferReplay ==
  ASSUME TypedInv, TypedInv', ReplayInv, LogGrows, last_index' = 0, FinishTransfer
  PROVE  ReplayInv'
<1>1. UNCHANGED <<log, db, last_applied, loaded, image, overtaken>> /\ sent' = NoFile
  BY DEF FinishTransfer, raftVars
<1>2. snapshot' \in FileContents
  BY DEF FinishTransfer, FileContents
<1>3. ASSUME ~overtaken' PROVE FilesReplayed' /\ DbReplayed'
  <2>1. Before
    BY <1>1, <1>3, BeforeHolds
  <2>2. PICK h : h = Settled'
    OBVIOUS
  <2>3. h \in Seq(Command) /\ FileInv(h, snapshot) /\ FileInv(h, sent) /\ \A i \in DOMAIN image : FileInv(h, image[i])
    BY <2>1, <2>2 DEF Before
  <2>4. FileInv(h, snapshot')
    BY <1>2, <2>3, FilesStay DEF TypedInv
  <2>5. FileInv(h, NoFile)
    BY <2>3, NoFileInv
  <2>6. QED
    BY <1>1, <2>1, <2>2, <2>3, <2>4, <2>5 DEF Before, FilesReplayed, DbReplayed
<1>4. QED
  BY <1>3, ReplayInvWas DEF LogGrows

\* A transferred file is loaded before an entry is applied, or it has nothing to load.
LEMMA LoadTransferredReplay ==
  ASSUME TypedInv, TypedInv', ReplayInv, LogGrows, last_index' = 0, LoadTransferred
  PROVE  ReplayInv'
<1>1. PICK f \in FileContents : /\ db' = [k \in Key |-> IF f.data[k] = Nil THEN db[k] ELSE Loaded(f.data)[k]]
                                /\ loaded' = Max({loaded, f.index})
                                /\ overtaken' = (overtaken \/ (last_applied > 0 /\ f.data # Empty))
  BY DEF LoadTransferred
<1>2. UNCHANGED <<log, last_applied, snapshot, image, sent>>
  BY DEF LoadTransferred, raftVars
<1>3. f.index \in Nat /\ loaded \in Nat /\ last_applied \in Nat
  BY IndexFacts, FileContentsType DEF TypedInv, Snapshot
<1>4. loaded' \in Nat /\ loaded' \in {loaded, f.index} /\ loaded <= loaded' /\ f.index <= loaded'
  BY <1>1, <1>3, MaxOfTwo
<1>5. ASSUME ~overtaken' PROVE FilesReplayed' /\ DbReplayed'
  <2>1. ~overtaken /\ (last_applied = 0 \/ f.data = Empty)
    <3>1. ~overtaken /\ (~(last_applied > 0) \/ f.data = Empty)
      BY <1>1, <1>5, Zenon
    <3>2. QED
      BY <1>3, <3>1
  <2>2. Before
    BY <2>1, BeforeHolds
  <2>3. PICK h : h = Settled'
    OBVIOUS
  <2>4. /\ h \in Seq(Command) /\ Len(h) \in Nat /\ FileInv(h, snapshot) /\ FileInv(h, sent)
        /\ \A i \in DOMAIN image : FileInv(h, image[i])
        /\ loaded <= Len(h)
    BY <2>2, <2>3 DEF Before
  <2>5. FileInv(h, f)
    BY <1>1, <2>4, FilesStay DEF TypedInv
  <2>6. f.index <= Len(h)
    BY <2>5 DEF FileInv
  <2>7. \A j \in 1..Len(h) : h[j] = h[j]
    OBVIOUS
  <2>8. ASSUME NEW k \in Key PROVE db'[k] = ReplayAt(log', k, last_applied) \/ Writes(h, k, last_applied, loaded')
    <3>1. CASE f.data[k] = Nil
      <4>1. db'[k] = db[k]
        BY <1>1, <3>1
      <4>2. CASE Writes(h, k, last_applied, loaded)
        BY <1>3, <1>4, <2>4, <4>2, WritesGrow
      <4>3. QED
        BY <2>2, <2>3, <4>1, <4>2 DEF Before
    <3>2. CASE f.data[k] # Nil
      <4>1. last_applied = 0
        BY <2>1, <3>2 DEF Empty
      <4>2. Writes(h, k, 0, f.index)
        BY <2>5, <3>2 DEF FileInv
      <4>3. Writes(h, k, 0, loaded')
        BY <1>3, <1>4, <2>4, <2>6, <4>2, WritesGrow
      <4>4. QED
        BY <4>1, <4>3
    <3>3. QED
      BY <3>1, <3>2
  <2>9. loaded' <= Len(h)
    BY <1>4, <2>4, <2>6
  <2>10. FilesReplayed'
    BY <1>2, <2>3, <2>4, <2>9 DEF FilesReplayed
  <2>11. DbReplayed'
    BY <1>2, <2>3, <2>8 DEF DbReplayed
  <2>12. QED
    BY <2>10, <2>11
<1>6. QED
  BY <1>5, ReplayInvWas DEF LogGrows

\* Every step keeps the replay.
LEMMA NextReplay ==
  ASSUME ~log_compaction_enabled, SetKey = Key, TypedInv, WaitingInv, ReplayInv, NoStaleCommand, [Next]_vars,
         TypedInv', LogGrows, last_index' = 0
  PROVE  ReplayInv'
<1>1. CASE UNCHANGED vars
  BY <1>1, ReplayStays DEF vars, raftVars, snapshotVars, transferVars
<1>2. CASE ChangeRole
  BY <1>2, ReplayStays DEF ChangeRole, snapshotVars, transferVars
<1>3. ASSUME NEW k \in 0..MaxLog, NEW e \in Command, ReceiveEntry(k, e) PROVE ReplayInv'
  BY <1>3, ReplayStays DEF ReceiveEntry, snapshotVars
<1>4. ASSUME NEW i \in 1..MaxLog, AdvanceCommit(i) PROVE ReplayInv'
  BY <1>4, ReplayStays DEF AdvanceCommit, snapshotVars, transferVars
<1>5. ASSUME NEW s \in Session, NEW c \in Command, HandleCommand(s, c) PROVE ReplayInv'
  BY <1>5, ReplayStays DEF HandleCommand, raftVars, snapshotVars, transferVars
<1>6. ASSUME NEW s \in Session, AppendCommand(s) PROVE ReplayInv'
  <2>1. UNCHANGED <<db, snapshot, sent, image, loaded, last_applied, overtaken>>
    BY <1>6 DEF AppendCommand, snapshotVars, transferVars
  <2>2. QED
    BY <2>1, ReplayStays
<1>7. ASSUME NEW s \in Session, InsertCommand(s) PROVE ReplayInv'
  BY <1>7, ReplayStays DEF InsertCommand, raftVars, snapshotVars, transferVars
<1>8. CASE OnLogEntryCommitted
  BY <1>8, OnLogEntryCommittedReplay
<1>9. CASE BeginSnapshot \/ EndSnapshot
  BY <1>9, BeginSnapshotReplay, EndSnapshotReplay
<1>10. CASE Restart
  BY <1>10, RestartReplay
<1>11. ASSUME NEW len \in 1..MaxLog, NEW es \in [1..len -> Command], NEW n \in 1..len, NEW i \in 0..len,
              BeginTransfer(es, n, i)
       PROVE  ReplayInv'
  BY <1>11, BeginTransferReplay
<1>12. CASE FinishTransfer \/ LoadTransferred
  BY <1>12, FinishTransferReplay, LoadTransferredReplay
<1>13. QED
  BY <1>1, <1>2, <1>3, <1>4, <1>5, <1>6, <1>7, <1>8, <1>9, <1>10, <1>11, <1>12 DEF Next

-----------------------------------------------------------------------------
(***************************************************************************)
(* The invariant and what follows from it.                                 *)
(***************************************************************************)
IInv == TypedInv /\ WaitingInv /\ ReplayInv /\ AnsweredIsApplied

\* A server that starts for the first time has nothing to replay.
LEMMA InitIInv ==
  Init => IInv
<1> SUFFICES ASSUME Init PROVE IInv
  OBVIOUS
<1>1. TypedInv
  BY InitTyped
<1>2. session = [s \in Session |-> Idle] /\ DOMAIN commands = {}
  BY DEF Init
<1>3. WaitingInv /\ AnsweredIsApplied
  BY <1>2, IdleType DEF WaitingInv, AnsweredIsApplied
<1>4. /\ last_index = 0 /\ committed = 0 /\ ahead = <<>> /\ log = <<>> /\ loaded = 0 /\ last_applied = 0
      /\ db = Empty /\ snapshot = NoFile /\ sent = NoFile /\ image = <<>>
  BY DEF Init
<1>5. CommittedAgrees
  BY <1>4 DEF CommittedAgrees
<1>6. Settled \in Seq(Command) /\ 0 <= Len(Settled)
  BY <1>1, <1>5, SettledIs
<1>7. FilesReplayed
  <2>1. DOMAIN image = {}
    BY <1>4
  <2>2. QED
    BY <1>4, <1>6, <2>1, NoFileInv DEF FilesReplayed
<1>8. DbReplayed
  <2>1. \A k \in Key : db[k] = ReplayAt(log, k, last_applied)
    BY <1>4, ReplayNothing DEF Empty
  <2>2. QED
    BY <2>1 DEF DbReplayed
<1>9. QED
  BY <1>1, <1>3, <1>4, <1>5, <1>7, <1>8, ReplayInvIs DEF IInv

\* Every step keeps the invariant while no other leader replaces the entry of a session.
LEMMA NextIInv ==
  ASSUME ~log_compaction_enabled, SetKey = Key, IInv, NoStaleCommand, [Next]_vars
  PROVE  IInv'
<1>1. TypedInv /\ WaitingInv /\ ReplayInv /\ AnsweredIsApplied
  BY DEF IInv
<1>2. TypedInv'
  BY <1>1, NextTyped
<1>3. LogGrows /\ last_index' = 0
  BY <1>1, NextGrows, ReplayInvIs
<1>4. WaitingInv'
  BY <1>1, NextWaits
<1>5. ReplayInv'
  BY <1>1, <1>2, <1>3, NextReplay
<1>6. AnsweredIsApplied'
  BY <1>1, <1>2, <1>3, NextTold
<1>7. QED
  BY <1>2, <1>4, <1>5, <1>6 DEF IInv

\* The invariant holds in every behaviour without stale commands.
LEMMA IInvHolds ==
  ASSUME ~log_compaction_enabled, SetKey = Key
  PROVE  Spec /\ []NoStaleCommand => []IInv
<1>1. IInv /\ NoStaleCommand /\ [Next]_vars => IInv'
  BY NextIInv
<1>2. QED
  BY <1>1, InitIInv, PTL DEF Spec

\* Without compaction and without blanks in names, as long as no other leader replaces the
\* entry of a session that waits: the map of waiting sessions, the indices and the files fit
\* the log (commands, load_database, snapshot), whatever is lost of a file in a death.
THEOREM KvConsistent ==
  ASSUME ~log_compaction_enabled, SetKey = Key
  PROVE  Spec /\ []NoStaleCommand => []KvInv
<1>1. IInv => KvInv
  BY DEF IInv, TypedInv, KvInv
<1>2. QED
  BY <1>1, IInvHolds, PTL

\* State machine safety under the same conditions: once the replay has passed what was loaded,
\* the database is what the applied entries make it (insert, apply, load_database), for any
\* number of sessions, entries, deaths and transfers.
THEOREM DatabaseReplays ==
  ASSUME ~log_compaction_enabled, SetKey = Key
  PROVE  Spec /\ []NoStaleCommand => []DatabaseIsReplay
<1>1. IInv => DatabaseIsReplay
  <2> SUFFICES ASSUME IInv, ~overtaken, last_applied >= loaded
               PROVE  \A k \in Key : db[k] = ValueAfter(k, last_applied)
    BY DEF DatabaseIsReplay
  <2>1. TypedInv /\ ReplayInv
    BY DEF IInv
  <2>2. loaded <= last_applied
    BY <2>1, IndexFacts
  <2>3. QED
    BY <2>1, <2>2, NothingToCome
<1>2. QED
  BY <1>1, IInvHolds, PTL

\* Under the same conditions a client that is told OK has its own command applied, at the index
\* that append gave it, and the old value it is told is the one before it in the log
\* (handle_command, on_log_entry_committed).
THEOREM AnswersAreTrue ==
  ASSUME ~log_compaction_enabled, SetKey = Key
  PROVE  Spec /\ []NoStaleCommand => []AnsweredIsApplied
<1>1. IInv => AnsweredIsApplied
  BY DEF IInv
<1>2. QED
  BY <1>1, IInvHolds, PTL


-----------------------------------------------------------------------------
(***************************************************************************)
(* When the condition of these theorems can fail.                          *)
(***************************************************************************)
\* A step that leaves every entry of the log where it is.
NothingReplaced == Len(log) <= Len(log') /\ \A j \in 1..Len(log) : log'[j] = log[j]

\* What NoStaleCommand says of one session.
Fresh(s) ==
  session[s].pc \in {"inserting", "waiting"} /\ session[s].index # RC_NOT_LEADER =>
    session[s].index \in 1..Len(log) /\ log[session[s].index] = session[s].cmd

\* A session that does not change, or that waits for nothing, is not made stale.
LEMMA FreshStays ==
  ASSUME TypedInv, TypedInv', NEW s \in Session, Fresh(s), NothingReplaced,
         session'[s] = session[s] \/ session'[s].pc \notin {"inserting", "waiting"}
  PROVE  Fresh(s)'
<1>0. log \in Seq(Command) /\ log' \in Seq(Command)
  BY DEF TypedInv, TypeOK
<1>1. Len(log) \in Nat /\ Len(log') \in Nat /\ Len(log) <= Len(log')
  BY <1>0 DEF NothingReplaced
<1>2. \A x \in 1..Len(log) : x \in 1..Len(log') /\ log'[x] = log[x]
  BY <1>1 DEF NothingReplaced
<1>3. QED
  BY <1>2 DEF Fresh

\* A session has the index of the entry that append makes for it.
LEMMA AppendCommandFresh ==
  ASSUME TypedInv, TypedInv', NEW s \in Session, AppendCommand(s)
  PROVE  Fresh(s)' /\ \A r \in Session \ {s} : session'[r] = session[r]
<1>0. session[s] \in SessionType /\ session \in [Session -> SessionType] /\ session[s].cmd \in Command
  BY SessionFacts
<1>1. CASE session' = [session EXCEPT ![s].pc = "inserting", ![s].index = RC_NOT_LEADER]
  <2>1. session'[s].index = RC_NOT_LEADER
    BY <1>0, <1>1 DEF SessionType
  <2>2. QED
    BY <1>0, <1>1, <2>1 DEF Fresh
<1>2. CASE /\ log' = Append(log, session[s].cmd)
           /\ session' = [session EXCEPT ![s].pc = "inserting", ![s].index = NewIndex]
  <2>1. session'[s].index = Len(log) + 1 /\ session'[s].cmd = session[s].cmd
    BY <1>0, <1>2 DEF SessionType, NewIndex
  <2>2. Len(log) + 1 \in 1..Len(log') /\ log'[Len(log) + 1] = session[s].cmd
    BY <1>0, <1>2, IndexFacts
  <2>3. QED
    BY <1>0, <1>2, <2>1, <2>2 DEF Fresh
<1>3. CASE session' = [session EXCEPT ![s] = Answer(s, "INTERNAL_ERROR", Nil)]
  <2>1. Answer(s, "INTERNAL_ERROR", Nil).pc = "reading"
    BY <1>0 DEF Answer, SessionType
  <2>2. QED
    BY <1>0, <1>3, <2>1 DEF Fresh
<1>4. QED
  BY <1>1, <1>2, <1>3 DEF AppendCommand

\* Only a step that replaces an entry makes a session stale.
LEMMA NextFresh ==
  ASSUME TypedInv, TypedInv', NoStaleCommand, [Next]_vars, NothingReplaced
  PROVE  NoStaleCommand'
<1>0. \A s \in Session : Fresh(s)
  BY DEF NoStaleCommand, Fresh
<1>1. ASSUME \A s \in Session : Fresh(s)' PROVE NoStaleCommand'
  BY <1>1 DEF NoStaleCommand, Fresh
<1>2. ASSUME session' = session PROVE NoStaleCommand'
  BY <1>0, <1>1, <1>2, FreshStays
<1>3. ASSUME NEW s \in Session, NEW c \in Command, HandleCommand(s, c) PROVE NoStaleCommand'
  <2> DEFINE t == IF role = "LEADER" THEN [Idle EXCEPT !.pc = "appending", !.cmd = c]
                                     ELSE [Idle EXCEPT !.cmd = c, !.answer = "NOT_LEADER"]
  <2>1. session' = [session EXCEPT ![s] = t]
    BY <1>3 DEF HandleCommand
  <2>2. t.pc \notin {"inserting", "waiting"}
    BY IdleType DEF Idle
  <2> HIDE DEF t
  <2>3. session'[s].pc \notin {"inserting", "waiting"} /\ \A r \in Session \ {s} : session'[r] = session[r]
    BY <2>1, <2>2, SessionFacts
  <2>4. QED
    BY <1>0, <1>1, <2>3, FreshStays
<1>4. ASSUME NEW s \in Session, AppendCommand(s) PROVE NoStaleCommand'
  <2>1. Fresh(s)' /\ \A r \in Session \ {s} : session'[r] = session[r]
    BY <1>4, AppendCommandFresh
  <2>2. QED
    BY <1>0, <1>1, <2>1, FreshStays
<1>5. ASSUME NEW s \in Session, InsertCommand(s) PROVE NoStaleCommand'
  <2>0. session[s] \in SessionType /\ session \in [Session -> SessionType] /\ log' = log
    BY <1>5, SessionFacts DEF InsertCommand, raftVars
  <2>1. /\ session'[s].index = session[s].index /\ session'[s].cmd = session[s].cmd
        /\ session[s].pc = "inserting"
        /\ \A r \in Session \ {s} : session'[r] = session[r]
    BY <1>5, <2>0 DEF InsertCommand, SessionType
  <2>2. Fresh(s)'
    BY <1>0, <2>0, <2>1 DEF Fresh
  <2>3. QED
    BY <1>0, <1>1, <2>1, <2>2, FreshStays
<1>6. CASE OnLogEntryCommitted
  <2>1. CASE last_applied + 1 \notin DOMAIN commands
    BY <1>2, <1>6, <2>1 DEF OnLogEntryCommitted
  <2>2. CASE last_applied + 1 \in DOMAIN commands
    <3>1. PICK s : s = commands[last_applied + 1]
      OBVIOUS
    <3>2. s \in Session /\ session[s] \in SessionType
      BY <2>2, <3>1, SessionFacts
    <3>3. PICK o : session' = [session EXCEPT ![s] = Answer(s, "OK", o)]
      BY <1>6, <2>2, <3>1, <3>2 DEF OnLogEntryCommitted
    <3>4. Answer(s, "OK", o).pc = "reading"
      BY <3>2 DEF Answer, SessionType
    <3>5. session'[s].pc \notin {"inserting", "waiting"} /\ \A r \in Session \ {s} : session'[r] = session[r]
      BY <3>2, <3>3, <3>4, SessionFacts
    <3>6. QED
      BY <1>0, <1>1, <3>5, FreshStays
  <2>3. QED
    BY <2>1, <2>2
<1>7. CASE Restart
  <2>1. \A s \in Session : session'[s].pc \notin {"inserting", "waiting"}
    BY <1>7, IdleType DEF Restart
  <2>2. QED
    BY <1>0, <1>1, <2>1, FreshStays
<1>8. CASE \/ UNCHANGED vars
           \/ ChangeRole
           \/ BeginSnapshot
           \/ EndSnapshot
           \/ FinishTransfer
           \/ LoadTransferred
  BY <1>2, <1>8 DEF vars, ChangeRole, BeginSnapshot, EndSnapshot, FinishTransfer, LoadTransferred
<1>9. ASSUME NEW k \in 0..MaxLog, NEW e \in Command, ReceiveEntry(k, e) PROVE NoStaleCommand'
  BY <1>2, <1>9 DEF ReceiveEntry
<1>10. ASSUME NEW i \in 1..MaxLog, AdvanceCommit(i) PROVE NoStaleCommand'
  BY <1>2, <1>10 DEF AdvanceCommit
<1>11. ASSUME NEW len \in 1..MaxLog, NEW es \in [1..len -> Command], NEW n \in 1..len, NEW i \in 0..len,
              BeginTransfer(es, n, i)
       PROVE  NoStaleCommand'
  BY <1>2, <1>11 DEF BeginTransfer
<1>12. QED
  BY <1>3, <1>4, <1>5, <1>6, <1>7, <1>8, <1>9, <1>10, <1>11 DEF Next

\* The condition fails only where raft replaces entries under the server: in a behaviour in
\* which no entry is replaced, append, insert and on_log_entry_committed never leave a session
\* waiting for another's entry, with compaction or without.
THEOREM StaleOnlyIfReplaced ==
  Spec /\ [][NothingReplaced]_vars => []NoStaleCommand
<1>1. Init => NoStaleCommand
  BY IdleType DEF Init, NoStaleCommand
<1>2. TypedInv /\ TypedInv' /\ NoStaleCommand /\ [Next]_vars /\ [NothingReplaced]_vars => NoStaleCommand'
  <2>1. ASSUME TypedInv, UNCHANGED vars PROVE NothingReplaced
    BY <2>1, IndexFacts DEF vars, raftVars, NothingReplaced
  <2>2. QED
    BY <2>1, NextFresh
<1>3. QED
  BY <1>1, <1>2, TypedHolds, PTL DEF Spec
=============================================================================
