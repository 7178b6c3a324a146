--------------------------- MODULE ReconfigProofs ---------------------------
(***************************************************************************)
(* Proofs about Reconfig: the nodes a server counts with are those of the  *)
(* latest configuration of its log, a leader changes one thing at a time,  *)
(* and every session that waits is owed its one answer by somebody, for    *)
(* any set of servers, any number of requests and any length of the log.   *)
(***************************************************************************)
EXTENDS Reconfig, MaxProofs, FiniteSetTheorems, TLAPS

-----------------------------------------------------------------------------
(***************************************************************************)
(* The latest configuration of a log.                                      *)
(***************************************************************************)
Entries == [term : Nat, cfg : SUBSET Server]

\* The index of the latest configuration entry is one, and no other is greater.
LEMMA LatestConfig ==
  ASSUME NEW lg \in Seq(Entries), CfgIndices(lg) # {}
  PROVE  /\ cfg_entry_index(lg) \in CfgIndices(lg)
         /\ cfg_entry_index(lg) \in 1..Len(lg)
         /\ \A i \in CfgIndices(lg) : i <= cfg_entry_index(lg)
<1>1. CfgIndices(lg) \in SUBSET (0..Len(lg)) /\ CfgIndices(lg) \subseteq 1..Len(lg) /\ Len(lg) \in Nat
  BY DEF CfgIndices
<1>2. QED
  BY <1>1, MaxIsGreatest DEF cfg_entry_index

\* A configuration entry that no other follows is the latest.
LEMMA LatestConfigIs ==
  ASSUME NEW lg \in Seq(Entries), NEW i \in CfgIndices(lg), \A j \in CfgIndices(lg) : j <= i
  PROVE  cfg_entry_index(lg) = i
<1>1. i \in Nat /\ cfg_entry_index(lg) \in CfgIndices(lg) /\ cfg_entry_index(lg) \in 1..Len(lg)
      /\ i <= cfg_entry_index(lg)
  BY LatestConfig DEF CfgIndices
<1>2. cfg_entry_index(lg) <= i
  BY <1>1
<1>3. QED
  BY <1>1, <1>2

\* An appended configuration entry becomes the latest.
LEMMA AppendConfig ==
  ASSUME NEW lg \in Seq(Entries), NEW e \in Entries, e.cfg # {}
  PROVE  /\ Append(lg, e) \in Seq(Entries)
         /\ CfgIndices(Append(lg, e)) = CfgIndices(lg) \cup {Len(lg) + 1}
         /\ cfg_entry_index(Append(lg, e)) = Len(lg) + 1
         /\ Append(lg, e)[Len(lg) + 1] = e
<1>1. Append(lg, e) \in Seq(Entries) /\ Append(lg, e)[Len(lg) + 1] = e /\ Len(lg) \in Nat
  OBVIOUS
<1>2. DOMAIN Append(lg, e) = DOMAIN lg \cup {Len(lg) + 1}
  OBVIOUS
<1>3. \A i \in DOMAIN lg : Append(lg, e)[i] = lg[i] /\ i # Len(lg) + 1 /\ i \in 1..Len(lg)
  OBVIOUS
<1>4. CfgIndices(Append(lg, e)) = CfgIndices(lg) \cup {Len(lg) + 1}
  BY <1>1, <1>2, <1>3 DEF CfgIndices
<1>5. \A j \in CfgIndices(Append(lg, e)) : j <= Len(lg) + 1
  BY <1>1, <1>3, <1>4 DEF CfgIndices
<1>6. QED
  BY <1>1, <1>4, <1>5, LatestConfigIs

\* An appended command leaves the configurations as they are.
LEMMA AppendCommand ==
  ASSUME NEW lg \in Seq(Entries), NEW e \in Entries, e.cfg = {}
  PROVE  /\ Append(lg, e) \in Seq(Entries)
         /\ CfgIndices(Append(lg, e)) = CfgIndices(lg)
         /\ cfg_entry_index(Append(lg, e)) = cfg_entry_index(lg)
<1>1. Append(lg, e) \in Seq(Entries) /\ Append(lg, e)[Len(lg) + 1] = e /\ Len(lg) \in Nat
  OBVIOUS
<1>2. DOMAIN Append(lg, e) = DOMAIN lg \cup {Len(lg) + 1}
  OBVIOUS
<1>3. \A i \in DOMAIN lg : Append(lg, e)[i] = lg[i] /\ i # Len(lg) + 1 /\ i \in 1..Len(lg)
  OBVIOUS
<1>4. CfgIndices(Append(lg, e)) = CfgIndices(lg)
  BY <1>1, <1>2, <1>3 DEF CfgIndices
<1>5. QED
  BY <1>1, <1>4 DEF cfg_entry_index

\* adjust_commit_index never takes an index back and stays within the log.
LEMMA CommitAfterWithinLog ==
  ASSUME NEW mt \in [Server -> Nat], TypeOK
  PROVE  CommitAfter(log, cluster, mt) \in commit_index..Len(log)
<1> DEFINE M == {mt[n] : n \in Counted(cluster, mt)}
           J == MajorityAt(cluster, mt)
<1>1. commit_index \in 1..Len(log) /\ Len(log) \in Nat /\ cluster \subseteq Server
  BY DEF TypeOK
<1>2. M \in SUBSET Nat /\ \A m \in M : m > commit_index
  BY <1>1 DEF Counted
<1>3. J \in SUBSET (0..Len(log)) /\ \A i \in J : i \in 1..Len(log) /\ M # {} /\ i >= Min(M)
  BY <1>1 DEF MajorityAt, last_entry_index
<1>4. CASE J # {}
  <2>1. Max(J) \in J
    BY <1>1, <1>3, <1>4, MaxIsGreatest
  <2>2. M # {} /\ Max(J) >= Min(M) /\ Max(J) \in 1..Len(log)
    BY <1>3, <2>1
  <2>3. Min(M) \in M
    BY <1>2, <2>2, MinIsLeast
  <2>4. Min(M) > commit_index /\ Min(M) \in Nat
    BY <1>2, <2>3
  <2>5. Max(J) \in commit_index..Len(log)
    BY <1>1, <2>2, <2>4
  <2>6. QED
    BY <1>1, <1>4, <2>5 DEF CommitAfter
<1>5. CASE J = {}
  BY <1>1, <1>5 DEF CommitAfter
<1>6. QED
  BY <1>4, <1>5

-----------------------------------------------------------------------------
(***************************************************************************)
(* What the operations on sessions do.                                     *)
(***************************************************************************)
\* The two constant sessions are sessions.
LEMMA ConstantSessions ==
  FreshSession \in Session /\ Finished \in Session
<1>1. FreshSession \in Session
  BY DEF FreshSession, Session
<1>2. Finished \in Session
  BY <1>1 DEF Finished, Session
<1>3. QED
  BY <1>1, <1>2

\* Answering a session that is owed an answer gives it the one byte it waits for.
LEMMA AnsweredEffect ==
  ASSUME NEW cs \in [Conn -> Session], NEW c \in Conn, NEW status \in Statuses,
         ~cs[c].ready, SessionOK(cs[c])
  PROVE  /\ Answered(cs, c, status) \in [Conn -> Session]
         /\ \A d \in Conn : d # c => Answered(cs, c, status)[d] = cs[d]
         /\ Answered(cs, c, status)[c].phase = "waiting"
         /\ Answered(cs, c, status)[c].op = cs[c].op
         /\ Answered(cs, c, status)[c].server = cs[c].server
         /\ Answered(cs, c, status)[c].ready
         /\ Answered(cs, c, status)[c].bytes = 1
         /\ Answered(cs, c, status)[c].body = status
         /\ SessionOK(Answered(cs, c, status)[c])
<1> DEFINE s == [cs[c] EXCEPT !.body = status, !.ready = TRUE, !.bytes = @ + 1]
<1>1. cs[c] \in Session /\ cs[c].phase = "waiting" /\ cs[c].bytes = 0
  BY DEF SessionOK
<1>2. cs[c].op \in {"add", "del", "transfer", Nil} /\ cs[c].server \in Server \cup {Nil}
  BY <1>1 DEF Session
<1>3. /\ s \in Session /\ s.phase = "waiting" /\ s.op = cs[c].op /\ s.server = cs[c].server
      /\ s.ready /\ s.bytes = 1 /\ s.body = status
  <2>1. s.phase = "waiting" /\ s.op = cs[c].op /\ s.server = cs[c].server /\ s.bytes = 1 /\ s.body = status
    BY <1>1, <1>2 DEF Session
  <2>2. s.ready
    BY <1>1 DEF Session
  <2>3. cs[c].bytes + 1 = 1 /\ 1 \in 0..1
    BY <1>1
  <2>4. s = [cs[c] EXCEPT !.body = status, !.ready = TRUE, !.bytes = 1]
    BY <2>3, Zenon
  <2>5. s \in Session
    BY <1>1, <2>3, <2>4 DEF Session
  <2>6. QED
    BY <2>1, <2>2, <2>5
<1>4. Answered(cs, c, status) = [cs EXCEPT ![c] = s]
  BY <1>1 DEF Answered, Session
<1>5. status # Nil
  BY NoneAssumption
<1> HIDE DEF s
<1>6. SessionOK(s)
  BY <1>3, <1>5 DEF SessionOK
<1>7. QED
  BY <1>3, <1>4, <1>6

\* The session of a request that is refused is over.
LEMMA RefusedEffect ==
  ASSUME conn \in [Conn -> Session], NEW c \in Conn, NEW status \in Statuses
  PROVE  /\ Refused(c, status) \in [Conn -> Session]
         /\ \A d \in Conn : d # c => Refused(c, status)[d] = conn[d]
         /\ Refused(c, status)[c].phase = "done"
         /\ Refused(c, status)[c].ready
         /\ Refused(c, status)[c].body = status
         /\ SessionOK(Refused(c, status)[c])
<1> DEFINE s == [Finished EXCEPT !.body = status]
<1>1. s \in Session /\ s.phase = "done" /\ s.ready /\ s.body = status
  <2>1. s \in Session
    BY ConstantSessions DEF Session
  <2>2. s.phase = "done" /\ s.body = status
    BY DEF Finished, FreshSession
  <2>3. s.ready
    BY DEF Finished, FreshSession
  <2>4. QED
    BY <2>1, <2>2, <2>3
<1>2. Refused(c, status) = [conn EXCEPT ![c] = s]
  BY DEF Refused
<1> HIDE DEF s
<1>3. SessionOK(s)
  BY <1>1 DEF SessionOK
<1>4. QED
  BY <1>1, <1>2, <1>3

\* The session of a request that was accepted waits, and is owed an answer.
LEMMA WaitingEffect ==
  ASSUME conn \in [Conn -> Session], NEW c \in Conn, Idle(c), SessionOK(conn[c]),
         NEW op \in {"add", "del", "transfer"}, NEW n \in Server
  PROVE  /\ Waiting(c, op, n) \in [Conn -> Session]
         /\ \A d \in Conn : d # c => Waiting(c, op, n)[d] = conn[d]
         /\ Waiting(c, op, n)[c].phase = "waiting"
         /\ Waiting(c, op, n)[c].op = op
         /\ Waiting(c, op, n)[c].server = n
         /\ ~Waiting(c, op, n)[c].ready
         /\ Waiting(c, op, n)[c].body = Nil
         /\ SessionOK(Waiting(c, op, n)[c])
<1> DEFINE s == [FreshSession EXCEPT !.phase = "waiting", !.op = op, !.server = n, !.ready = FALSE]
<1>1. conn[c] = FreshSession
  BY DEF SessionOK, Idle
<1>2. /\ s \in Session /\ s.phase = "waiting" /\ s.op = op /\ s.server = n /\ ~s.ready
      /\ s.bytes = 0 /\ s.body = Nil
  <2>1. s \in Session
    BY ConstantSessions DEF Session
  <2>2. s.phase = "waiting" /\ s.op = op /\ s.server = n /\ s.bytes = 0 /\ s.body = Nil
    BY DEF FreshSession
  <2>3. ~s.ready
    BY ConstantSessions DEF Session
  <2>4. QED
    BY <2>1, <2>2, <2>3
<1>3. Waiting(c, op, n) = [conn EXCEPT ![c] = s]
  BY <1>1 DEF Waiting
<1> HIDE DEF s
<1>4. SessionOK(s)
  BY <1>2 DEF SessionOK
<1>5. QED
  BY <1>2, <1>3, <1>4

\* The session of a request that is completed before the handler returns is over.
LEMMA CompletedAtOnceEffect ==
  ASSUME conn \in [Conn -> Session], NEW c \in Conn, NEW op \in {"add", "del", "transfer"},
         NEW n \in Server, NEW status \in Statuses
  PROVE  /\ CompletedAtOnce(c, op, n, status) \in [Conn -> Session]
         /\ \A d \in Conn : d # c => CompletedAtOnce(c, op, n, status)[d] = conn[d]
         /\ CompletedAtOnce(c, op, n, status)[c].phase = "done"
         /\ CompletedAtOnce(c, op, n, status)[c].op = op
         /\ CompletedAtOnce(c, op, n, status)[c].server = n
         /\ CompletedAtOnce(c, op, n, status)[c].ready
         /\ CompletedAtOnce(c, op, n, status)[c].body = status
         /\ SessionOK(CompletedAtOnce(c, op, n, status)[c])
<1> DEFINE s == [Finished EXCEPT !.op = op, !.server = n, !.bytes = 1, !.body = status]
<1>1. /\ s \in Session /\ s.phase = "done" /\ s.op = op /\ s.server = n /\ s.ready
      /\ s.body = status
  <2>1. 1 \in 0..1
    OBVIOUS
  <2>2. s \in Session
    BY ConstantSessions, <2>1 DEF Session
  <2>3. s.phase = "done" /\ s.op = op /\ s.server = n /\ s.body = status
    BY DEF Finished, FreshSession
  <2>4. s.ready
    BY DEF Finished, FreshSession
  <2>5. QED
    BY <2>2, <2>3, <2>4
<1>2. CompletedAtOnce(c, op, n, status) = [conn EXCEPT ![c] = s]
  BY DEF CompletedAtOnce
<1> HIDE DEF s
<1>3. SessionOK(s)
  BY <1>1 DEF SessionOK
<1>4. QED
  BY <1>1, <1>2, <1>3

\* The session whose response has been written is over.
LEMMA FinishedEffect ==
  ASSUME conn \in [Conn -> Session], NEW c \in Conn
  PROVE  /\ [conn EXCEPT ![c] = Finished] \in [Conn -> Session]
         /\ Finished.phase = "done" /\ Finished.ready /\ Finished.body = Nil /\ SessionOK(Finished)
<1>1. Finished \in Session /\ Finished.phase = "done" /\ Finished.ready /\ Finished.body = Nil
  <2>1. Finished \in Session
    BY ConstantSessions
  <2>2. Finished.phase = "done" /\ Finished.body = Nil
    BY DEF Finished, FreshSession
  <2>3. Finished.ready
    BY DEF Finished, FreshSession
  <2>4. QED
    BY <2>1, <2>2, <2>3
<1>2. SessionOK(Finished)
  BY <1>1 DEF SessionOK
<1>3. QED
  BY <1>1, <1>2

-----------------------------------------------------------------------------
(***************************************************************************)
(* What the checks of the handlers let through.                            *)
(***************************************************************************)
\* add_server accepts a server that is not in the cluster when nothing is in progress.
LEMMA AddAccepted ==
  ASSUME NEW n \in Server
  PROVE  /\ AddRefusal(n) \in (Statuses \ {"OK"}) \cup {Nil}
         /\ AddRefusal(n) = Nil => role = "LEADER" /\ n \notin cluster /\ recfg = Nil
<1>1. \A s \in Statuses : s # Nil
  BY NoneAssumption
<1>2. /\ "NOT_LEADER" \in Statuses
      /\ "IN_CFG" \in Statuses
      /\ "INPROGRESS" \in Statuses
  BY DEF Statuses
<1>3. QED
  BY <1>1, <1>2 DEF AddRefusal, InProgress

\* del_server accepts a server of the cluster, not the last, when nothing is in progress.
LEMMA DelAccepted ==
  ASSUME NEW n \in Server
  PROVE  /\ DelRefusal(n) \in (Statuses \ {"OK"}) \cup {Nil}
         /\ DelRefusal(n) = Nil =>
              role = "LEADER" /\ n \in cluster /\ recfg = Nil /\ cluster # {n} /\ cluster \ {n} # {}
<1>1. \A s \in Statuses : s # Nil
  BY NoneAssumption
<1>2. /\ "NOT_LEADER" \in Statuses
      /\ "NOT_IN_CFG" \in Statuses
      /\ "INPROGRESS" \in Statuses
      /\ "UNIQUE_SERVER" \in Statuses
  BY DEF Statuses
<1>3. DelRefusal(n) \in (Statuses \ {"OK"}) \cup {Nil}
  BY <1>1, <1>2 DEF DelRefusal, InProgress
<1>4. DelRefusal(n) = Nil => role = "LEADER" /\ n \in cluster /\ recfg = Nil /\ cluster # {n}
  BY <1>1, <1>2 DEF DelRefusal, InProgress
<1>5. n \in cluster /\ cluster # {n} => cluster \ {n} # {}
  OBVIOUS
<1>6. QED
  BY <1>3, <1>4, <1>5

\* leadership_transfer accepts another node of cl when no transfer is in progress.
LEMMA TransferAccepted ==
  ASSUME NEW n \in Server, NEW cl
  PROVE  /\ TransferRefusal(n, cl) \in (Statuses \ {"OK"}) \cup {Nil}
         /\ TransferRefusal(n, cl) = Nil =>
              role = "LEADER" /\ server_transfer_leader_to = Nil /\ n # Self /\ n \in cl
<1>1. \A s \in Statuses : s # Nil
  BY NoneAssumption
<1>2. /\ "NOT_LEADER" \in Statuses
      /\ "IN_CFG" \in Statuses
      /\ "NOT_IN_CFG" \in Statuses
      /\ "INPROGRESS" \in Statuses
  BY DEF Statuses
<1>3. QED
  BY <1>1, <1>2 DEF TransferRefusal

\* A reconfiguration record.
LEMMA ReconfigurationFields ==
  ASSUME NEW type \in {"addition", "removal"}, NEW n \in Server, NEW c \in Conn
  PROVE  /\ Reconfiguration(type, n, c) \in Reconfigurations
         /\ Reconfiguration(type, n, c).type = type
         /\ Reconfiguration(type, n, c).n = n
         /\ ~Reconfiguration(type, n, c).entry_added
         /\ Reconfiguration(type, n, c).rep = c
         /\ Reconfiguration(type, n, c) # Nil
<1>1. Reconfiguration(type, n, c) \in Reconfigurations
  BY DEF Reconfiguration, Reconfigurations
<1>2. Reconfiguration(type, n, c) # Nil
  BY <1>1, NoneAssumption
<1>3. ~Reconfiguration(type, n, c).entry_added
  BY DEF Reconfiguration
<1>4. /\ Reconfiguration(type, n, c).type = type
      /\ Reconfiguration(type, n, c).n = n
      /\ Reconfiguration(type, n, c).rep = c
  BY DEF Reconfiguration
<1>5. QED
  BY <1>1, <1>2, <1>3, <1>4

\* The fields of the reconfiguration in progress.
LEMMA InProgressFields ==
  ASSUME recfg \in Reconfigurations \cup {Nil}, recfg # Nil
  PROVE  /\ recfg.type \in {"addition", "removal"} /\ recfg.n \in Server
         /\ recfg.rounds \in Nat /\ recfg.entry_added \in BOOLEAN /\ recfg.rep \in Conn
BY DEF Reconfigurations

\* handle_catch_up's changes of the reconfiguration.
LEMMA InProgressUpdates ==
  ASSUME recfg \in Reconfigurations \cup {Nil}, recfg # Nil
  PROVE  LET rc == [recfg EXCEPT !.rounds = @ + 1]
             ra == [recfg EXCEPT !.entry_added = TRUE]
         IN /\ rc \in Reconfigurations /\ rc # Nil /\ rc.type = recfg.type /\ rc.n = recfg.n
            /\ rc.entry_added = recfg.entry_added /\ rc.rep = recfg.rep
            /\ ra \in Reconfigurations /\ ra # Nil /\ ra.type = recfg.type /\ ra.n = recfg.n
            /\ ra.entry_added /\ ra.rep = recfg.rep
<1> DEFINE rc == [recfg EXCEPT !.rounds = @ + 1]
           ra == [recfg EXCEPT !.entry_added = TRUE]
<1>1. recfg \in Reconfigurations /\ recfg.rounds \in Nat
  BY InProgressFields
<1>2. PICK k \in Nat : k = recfg.rounds + 1
  BY <1>1
<1>3. rc = [recfg EXCEPT !.rounds = k]
  BY <1>2, Zenon
<1>4. rc \in Reconfigurations /\ ra \in Reconfigurations
  BY <1>1, <1>3 DEF Reconfigurations
<1>5. rc # Nil /\ ra # Nil
  BY <1>4, NoneAssumption
<1>6. rc.type = recfg.type /\ rc.n = recfg.n /\ rc.rep = recfg.rep
  BY <1>1, <1>3 DEF Reconfigurations
<1>7. ra.type = recfg.type /\ ra.n = recfg.n /\ ra.rep = recfg.rep
  BY <1>1 DEF Reconfigurations
<1>8. ra.entry_added
  BY <1>1 DEF Reconfigurations
<1>9. rc.entry_added = recfg.entry_added
  BY <1>1, <1>3 DEF Reconfigurations
<1>10. QED
  BY <1>4, <1>5, <1>6, <1>7, <1>8, <1>9

-----------------------------------------------------------------------------
(***************************************************************************)
(* The inductive invariant, and the steps that leave most of it alone.     *)
(***************************************************************************)
IInv ==
  /\ TypeOK
  /\ ReconfigInv
  /\ ClusterIsLatestConfig
  /\ NobodyForgotten
  /\ TransferPointersValid

\* Whom the pointers point to, and what is in the log.
LEMMA PointerFacts ==
  ASSUME IInv
  PROVE  /\ conn \in [Conn -> Session]
         /\ \A c \in Conn : SessionOK(conn[c])
         /\ \A c \in Conn : Idle(c) => conn[c].ready
         /\ recfg # Nil => recfg.rep \in Conn /\ recfg.n \in Server /\ ~conn[recfg.rep].ready
         /\ server_transfer_reply_to # Nil => server_transfer_reply_to \in Conn
         /\ log \in Seq(Entries) /\ Len(log) \in Nat /\ commit_index \in 1..Len(log)
         /\ CfgIndices(log) # {}
         /\ cfg_entry_index(log) \in CfgIndices(log)
         /\ cfg_entry_index(log) \in 1..Len(log)
         /\ \A i \in CfgIndices(log) : i <= cfg_entry_index(log)
<1>1. conn \in [Conn -> Session] /\ \A c \in Conn : SessionOK(conn[c])
  BY DEF IInv, TypeOK, ReconfigInv, SessionInv
<1>2. FreshSession.ready
  BY DEF FreshSession
<1>3. \A c \in Conn : Idle(c) => conn[c].ready
  BY <1>1, <1>2 DEF SessionOK, Idle
<1>4. recfg # Nil => recfg.rep \in Conn /\ recfg.n \in Server /\ ~conn[recfg.rep].ready
  BY InProgressFields DEF IInv, TypeOK, ReconfigInv, SessionInv
<1>5. server_transfer_reply_to # Nil => server_transfer_reply_to \in Conn
  BY DEF IInv, TypeOK
<1>6. log \in Seq(Entries) /\ Len(log) \in Nat /\ commit_index \in 1..Len(log) /\ log[1].cfg # {}
  BY DEF IInv, TypeOK, ReconfigInv, ChangeInv, Entries
<1>7. 1 \in CfgIndices(log)
  BY <1>6 DEF CfgIndices
<1>8. QED
  BY <1>1, <1>3, <1>4, <1>5, <1>6, <1>7, LatestConfig

\* A session that is not owed an answer ends: nobody else is concerned.
LEMMA ClosedKeeps ==
  ASSUME IInv, NEW c \in Conn, conn[c].ready,
         conn' \in [Conn -> Session], \A d \in Conn : d # c => conn'[d] = conn[d],
         conn'[c].phase = "done", conn'[c].ready, SessionOK(conn'[c]),
         UNCHANGED <<recfg, server_transfer_leader_to, server_transfer_reply_to>>, trouble \subseteq trouble'
  PROVE  /\ SessionInv'
         /\ NobodyForgotten'
         /\ server_transfer_reply_to # Nil /\ ~conn[server_transfer_reply_to].ready
              => ~conn'[server_transfer_reply_to].ready
<1>1. \A d \in Conn : SessionOK(conn'[d])
  BY PointerFacts
<1>2. \A d \in Conn : ~conn[d].ready => conn'[d] = conn[d]
  OBVIOUS
<1>3. recfg # Nil => conn'[recfg.rep] = conn[recfg.rep]
  BY <1>2, PointerFacts
<1>4. SessionInv'
  BY <1>1, <1>3, PointerFacts DEF IInv, ReconfigInv, SessionInv
<1>5. NobodyForgotten'
  BY DEF IInv, NobodyForgotten
<1>6. QED
  BY <1>2, <1>4, <1>5, PointerFacts

\* A handler that refuses.
LEMMA RefusedKeeps ==
  ASSUME IInv, NEW c \in Conn, Idle(c), NEW status \in Statuses, conn' = Refused(c, status),
         UNCHANGED <<recfg, server_transfer_leader_to, server_transfer_reply_to>>, trouble \subseteq trouble'
  PROVE  /\ conn' \in [Conn -> Session]
         /\ SessionInv'
         /\ NobodyForgotten'
         /\ server_transfer_reply_to # Nil /\ ~conn[server_transfer_reply_to].ready
              => ~conn'[server_transfer_reply_to].ready
<1>1. conn[c].ready /\ conn \in [Conn -> Session]
  BY PointerFacts
<1>2. /\ conn' \in [Conn -> Session]
      /\ \A d \in Conn : d # c => conn'[d] = conn[d]
      /\ conn'[c].phase = "done" /\ conn'[c].ready /\ SessionOK(conn'[c])
  BY <1>1, RefusedEffect
<1>3. QED
  BY <1>1, <1>2, ClosedKeeps

\* A step that changes sessions only, and none that is owed an answer.
LEMMA SessionsOnlyKeep ==
  ASSUME IInv, UNCHANGED <<raftVars, recfg, transferVars, trouble>>,
         conn' \in [Conn -> Session], SessionInv', NobodyForgotten',
         server_transfer_reply_to # Nil /\ ~conn[server_transfer_reply_to].ready
           => ~conn'[server_transfer_reply_to].ready
  PROVE  IInv'
<1>1. TypeOK'
  BY DEF IInv, TypeOK, raftVars, transferVars
<1>2. TransferInv'
  BY DEF IInv, ReconfigInv, TransferInv, raftVars, transferVars
<1>3. ChangeInv'
  BY DEF IInv, ReconfigInv, ChangeInv, ChangeInLog, CfgIndices, cfg_entry_index, raftVars
<1>4. ClusterIsLatestConfig'
  BY DEF IInv, ClusterIsLatestConfig, CfgIndices, cfg_entry_index, raftVars
<1>5. TransferPointersValid'
  BY DEF IInv, TransferPointersValid, raftVars, transferVars
<1>6. QED
  BY <1>1, <1>2, <1>3, <1>4, <1>5 DEF IInv, ReconfigInv

\* add_server and del_server and leadership_transfer, refusing.
LEMMA RefusalKeeps ==
  ASSUME IInv, NEW c \in Conn, Idle(c), NEW status \in Statuses, conn' = Refused(c, status),
         UNCHANGED <<raftVars, recfg, transferVars, trouble>>
  PROVE  IInv'
<1>1. UNCHANGED <<recfg, server_transfer_leader_to, server_transfer_reply_to>> /\ trouble \subseteq trouble'
  BY DEF transferVars
<1>2. QED
  BY <1>1, RefusedKeeps, SessionsOnlyKeep

\* on_read_some.
LEMMA OnReadSomeKeeps ==
  ASSUME IInv, NEW c \in Conn, OnReadSome(c)
  PROVE  IInv'
<1>1. conn \in [Conn -> Session] /\ SessionOK(conn[c])
  BY PointerFacts
<1>2. conn[c].ready
  BY <1>1 DEF OnReadSome, SessionOK
<1>3. UNCHANGED <<recfg, server_transfer_leader_to, server_transfer_reply_to>> /\ trouble \subseteq trouble'
  BY DEF transferVars, OnReadSome
<1>4. /\ conn' \in [Conn -> Session]
      /\ \A d \in Conn : d # c => conn'[d] = conn[d]
      /\ conn'[c].phase = "done" /\ conn'[c].ready /\ SessionOK(conn'[c])
  BY <1>1, FinishedEffect DEF OnReadSome
<1>5. UNCHANGED <<raftVars, recfg, transferVars, trouble>>
  BY DEF OnReadSome
<1>6. QED
  BY <1>2, <1>3, <1>4, <1>5, ClosedKeeps, SessionsOnlyKeep

-----------------------------------------------------------------------------
(***************************************************************************)
(* The handlers of requests.                                               *)
(***************************************************************************)
\* The session of a request that is accepted is nobody's before.
LEMMA WaitingSessions ==
  ASSUME IInv, NEW c \in Conn, Idle(c), NEW op \in {"add", "del", "transfer"}, NEW n \in Server,
         conn' = Waiting(c, op, n)
  PROVE  /\ conn' \in [Conn -> Session]
         /\ \A d \in Conn : SessionOK(conn'[d])
         /\ \A d \in Conn : d # c => conn'[d] = conn[d]
         /\ conn'[c].phase = "waiting" /\ conn'[c].op = op /\ conn'[c].server = n
         /\ ~conn'[c].ready /\ conn'[c].body = Nil
         /\ recfg # Nil => recfg.rep # c
         /\ server_transfer_reply_to # Nil => server_transfer_reply_to # c
<1>1. conn \in [Conn -> Session] /\ SessionOK(conn[c])
  BY PointerFacts
<1>2. /\ conn' \in [Conn -> Session]
      /\ \A d \in Conn : d # c => conn'[d] = conn[d]
      /\ conn'[c].phase = "waiting" /\ conn'[c].op = op /\ conn'[c].server = n
      /\ ~conn'[c].ready /\ conn'[c].body = Nil /\ SessionOK(conn'[c])
  BY <1>1, WaitingEffect
<1>3. \A d \in Conn : SessionOK(conn'[d])
  BY <1>2, PointerFacts
<1>4. recfg # Nil => recfg.rep # c
  BY PointerFacts
<1>5. server_transfer_reply_to # Nil => server_transfer_reply_to # c
  BY DEF IInv, ReconfigInv, SessionInv, Idle
<1>6. QED
  BY <1>2, <1>3, <1>4, <1>5

\* An append leaves the entries before it.
LEMMA AppendKeepsEntries ==
  ASSUME IInv, NEW e \in Entries, log' = Append(log, e)
  PROVE  /\ log' \in Seq(Entries) /\ Len(log') = Len(log) + 1
         /\ \A i \in 1..Len(log) : log'[i] = log[i]
         /\ log'[1].cfg # {}
         /\ commit_index \in 1..Len(log')
<1>1. log \in Seq(Entries) /\ Len(log) \in Nat /\ commit_index \in 1..Len(log) /\ log[1].cfg # {}
  BY PointerFacts DEF IInv, ReconfigInv, ChangeInv
<1>2. /\ log' \in Seq(Entries) /\ Len(log') = Len(log) + 1
      /\ \A i \in 1..Len(log) : log'[i] = log[i]
  BY <1>1
<1>3. 1 \in 1..Len(log)
  BY <1>1
<1>4. QED
  BY <1>1, <1>2, <1>3

\* Entries of this term.
LEMMA EntryFields ==
  ASSUME TypeOK, NEW C \in SUBSET Server
  PROVE  Entry(C) \in Entries /\ Entry(C).cfg = C
BY DEF TypeOK, Entry, Entries

\* handle_append: a command.
LEMMA HandleAppendKeeps ==
  ASSUME IInv, HandleAppend
  PROVE  IInv'
<1> DEFINE e == Entry({})
<1>1. e \in Entries /\ e.cfg = {} /\ log' = Append(log, e)
  BY EntryFields DEF IInv, HandleAppend
<1>2. UNCHANGED <<role, curr_term, commit_index, cluster, match_index, recfg, conn, trouble>>
      /\ UNCHANGED <<server_transfer_leader_to, server_transfer_reply_to, transfer_leader_to, transfer_timer>>
  BY DEF HandleAppend, transferVars
<1> HIDE DEF e
<1>3. /\ log' \in Seq(Entries) /\ Len(log') = Len(log) + 1
      /\ \A i \in 1..Len(log) : log'[i] = log[i]
      /\ log'[1].cfg # {}
      /\ commit_index \in 1..Len(log')
  BY <1>1, AppendKeepsEntries
<1>4. CfgIndices(log') = CfgIndices(log) /\ cfg_entry_index(log') = cfg_entry_index(log)
  BY <1>1, PointerFacts, AppendCommand
<1>5. TypeOK'
  BY <1>2, <1>3 DEF IInv, TypeOK, Entries
<1>6. SessionInv' /\ TransferInv' /\ NobodyForgotten' /\ TransferPointersValid'
  BY <1>2 DEF IInv, ReconfigInv, SessionInv, TransferInv, NobodyForgotten, TransferPointersValid
<1>7. ChangeInv'
  BY <1>2, <1>3, <1>4 DEF IInv, ReconfigInv, ChangeInv, ChangeInLog
<1>8. ClusterIsLatestConfig'
  <2>1. log'[cfg_entry_index(log)] = log[cfg_entry_index(log)]
    BY <1>3, PointerFacts
  <2>2. QED
    BY <1>2, <1>4, <2>1 DEF IInv, ClusterIsLatestConfig
<1>9. QED
  BY <1>5, <1>6, <1>7, <1>8 DEF IInv, ReconfigInv

\* add_server: the change begins, its entry comes later.
LEMMA AddServerKeeps ==
  ASSUME IInv, NEW c \in Conn, NEW n \in Server, AddServer(c, n)
  PROVE  IInv'
<1>0. Idle(c) /\ UNCHANGED <<role, curr_term, log, commit_index, cluster, transferVars, trouble>>
  BY DEF AddServer
<1>1. CASE AddRefusal(n) # Nil
  <2>1. AddRefusal(n) \in Statuses
    BY <1>1, AddAccepted
  <2>2. conn' = Refused(c, AddRefusal(n)) /\ UNCHANGED <<raftVars, recfg, transferVars, trouble>>
    BY <1>1 DEF AddServer, raftVars
  <2>3. QED
    BY <1>0, <2>1, <2>2, RefusalKeeps
<1>2. CASE AddRefusal(n) = Nil
  <2>1. role = "LEADER" /\ n \notin cluster /\ recfg = Nil
    BY <1>2, AddAccepted
  <2>2. /\ conn' = Waiting(c, "add", n)
        /\ recfg' = Reconfiguration("addition", n, c)
        /\ match_index' = [match_index EXCEPT ![n] = 0]
    BY <1>2 DEF AddServer
  <2>3. /\ recfg' \in Reconfigurations /\ recfg' # Nil /\ recfg'.type = "addition" /\ recfg'.n = n
        /\ ~recfg'.entry_added /\ recfg'.rep = c
    BY <2>2, ReconfigurationFields
  <2>4. /\ conn' \in [Conn -> Session]
        /\ \A d \in Conn : SessionOK(conn'[d])
        /\ \A d \in Conn : d # c => conn'[d] = conn[d]
        /\ conn'[c].phase = "waiting" /\ conn'[c].op = "add" /\ conn'[c].server = n
        /\ ~conn'[c].ready /\ conn'[c].body = Nil
        /\ server_transfer_reply_to # Nil => server_transfer_reply_to # c
    BY <1>0, <2>2, WaitingSessions
  <2>5. UNCHANGED <<server_transfer_leader_to, server_transfer_reply_to, transfer_leader_to, transfer_timer>>
    BY <1>0 DEF transferVars
  <2>6. TypeOK'
    BY <1>0, <2>2, <2>3, <2>4, <2>5 DEF IInv, TypeOK
  <2>7. SessionInv'
    BY <2>3, <2>4, <2>5 DEF IInv, TypeOK, ReconfigInv, SessionInv
  <2>8. TransferInv'
    BY <1>0, <2>3, <2>4, <2>5 DEF IInv, ReconfigInv, TransferInv
  <2>9. ChangeInv'
    <3>1. ~ChangeInLog'
      BY <2>3 DEF ChangeInLog
    <3>2. ~ChangeInLog
      BY <2>1 DEF ChangeInLog
    <3>3. QED
      BY <1>0, <2>1, <3>1, <3>2 DEF IInv, ReconfigInv, ChangeInv, CfgIndices, cfg_entry_index
  <2>10. ClusterIsLatestConfig'
    BY <1>0 DEF IInv, ClusterIsLatestConfig, CfgIndices, cfg_entry_index
  <2>11. NobodyForgotten'
    BY <1>0, <2>1, <2>3, <2>4, <2>5 DEF IInv, NobodyForgotten
  <2>12. TransferPointersValid'
    BY <1>0, <2>4, <2>5 DEF IInv, TypeOK, TransferPointersValid
  <2>13. QED
    BY <2>6, <2>7, <2>8, <2>9, <2>10, <2>11, <2>12 DEF IInv, ReconfigInv
<1>3. QED
  BY <1>1, <1>2

\* del_server, when its append fails: only the nodes and the session change.
LEMMA DelServerFailsKeeps ==
  ASSUME IInv, NEW c \in Conn, NEW n \in Server, DelServerFails(c, n)
  PROVE  IInv'
<1>1. /\ Idle(c) /\ cluster' = cluster \ {n} /\ conn' = Refused(c, "ERROR")
      /\ trouble' = trouble \cup {"error"}
      /\ UNCHANGED <<role, curr_term, log, commit_index, match_index, recfg>>
      /\ UNCHANGED <<server_transfer_leader_to, server_transfer_reply_to, transfer_leader_to, transfer_timer>>
  BY DEF DelServerFails, transferVars
<1>2. "ERROR" \in Statuses /\ "error" \in trouble' /\ trouble \subseteq trouble' /\ "error" \in Voiding
  BY <1>1 DEF Statuses, Voiding
<1>3. conn' \in [Conn -> Session] /\ SessionInv' /\ NobodyForgotten'
  BY <1>1, <1>2, RefusedKeeps
<1>4. TypeOK'
  BY <1>1, <1>3 DEF IInv, TypeOK
<1>5. TransferInv'
  BY <1>1, <1>2 DEF IInv, ReconfigInv, TransferInv
<1>6. ChangeInv'
  BY <1>1, <1>2 DEF IInv, ReconfigInv, ChangeInv
<1>7. ClusterIsLatestConfig' /\ TransferPointersValid'
  BY <1>2 DEF ClusterIsLatestConfig, TransferPointersValid
<1>8. QED
  BY <1>3, <1>4, <1>5, <1>6, <1>7 DEF IInv, ReconfigInv

\* leadership_transfer: the target is flagged, and the session waits for the outcome.
LEMMA LeadershipTransferKeeps ==
  ASSUME IInv, NEW c \in Conn, NEW n \in Server, LeadershipTransfer(c, n)
  PROVE  IInv'
<1>0. Idle(c) /\ UNCHANGED <<raftVars, recfg>>
  BY DEF LeadershipTransfer
<1>1. CASE TransferRefusal(n, cluster) # Nil
  <2>1. TransferRefusal(n, cluster) \in Statuses
    BY <1>1, TransferAccepted
  <2>2. conn' = Refused(c, TransferRefusal(n, cluster)) /\ UNCHANGED <<raftVars, recfg, transferVars, trouble>>
    BY <1>1 DEF LeadershipTransfer
  <2>3. QED
    BY <1>0, <2>1, <2>2, RefusalKeeps
<1>2. CASE TransferRefusal(n, cluster) = Nil
  <2>1. role = "LEADER" /\ server_transfer_leader_to = Nil /\ n \in cluster
    BY <1>2, TransferAccepted
  <2>2. /\ conn' = Waiting(c, "transfer", n)
        /\ transfer_leader_to' = transfer_leader_to \cup {n}
        /\ server_transfer_leader_to' = n
        /\ server_transfer_reply_to' = c
        /\ transfer_timer' \in {transfer_timer, n}
        /\ trouble' = trouble \cup IF recfg # Nil THEN {"overlap"} ELSE {}
    BY <1>2 DEF LeadershipTransfer, begin_transfer
  <2>3. trouble \subseteq trouble' /\ (recfg # Nil => "overlap" \in trouble')
    BY <2>2
  <2>4. /\ conn' \in [Conn -> Session]
        /\ \A d \in Conn : SessionOK(conn'[d])
        /\ \A d \in Conn : d # c => conn'[d] = conn[d]
        /\ conn'[c].phase = "waiting" /\ conn'[c].op = "transfer" /\ conn'[c].server = n
        /\ ~conn'[c].ready /\ conn'[c].body = Nil
        /\ recfg # Nil => recfg.rep # c
    BY <1>0, <2>2, WaitingSessions
  <2>5. UNCHANGED <<role, curr_term, log, commit_index, cluster, match_index, recfg>>
    BY <1>0 DEF raftVars
  <2>6. n # Nil /\ c # Nil
    BY NoneAssumption
  <2>7. TypeOK'
    BY <2>2, <2>4, <2>5 DEF IInv, TypeOK
  <2>8. SessionInv'
    BY <2>2, <2>4, <2>5, PointerFacts DEF IInv, ReconfigInv, SessionInv
  <2>9. TransferInv'
    BY <2>1, <2>2, <2>3, <2>4, <2>5, <2>6 DEF IInv, ReconfigInv, TransferInv
  <2>10. ChangeInv'
    BY <2>3, <2>5 DEF IInv, ReconfigInv, ChangeInv, ChangeInLog, CfgIndices, cfg_entry_index
  <2>11. ClusterIsLatestConfig'
    BY <2>3, <2>5 DEF IInv, ClusterIsLatestConfig, CfgIndices, cfg_entry_index
  <2>12. NobodyForgotten'
    BY <2>1, <2>2, <2>3, <2>4, <2>5, <2>6 DEF IInv, NobodyForgotten
  <2>13. TransferPointersValid'
    <3>1. SUFFICES ASSUME trouble' \cap {"overlap", "error", "removed"} = {}
                   PROVE  /\ server_transfer_leader_to' \in cluster' \cup {Nil}
                          /\ server_transfer_reply_to' # Nil => ~conn'[server_transfer_reply_to'].ready
                          /\ transfer_leader_to' \subseteq {server_transfer_leader_to'}
      BY DEF TransferPointersValid
    <3>2. transfer_leader_to \subseteq {Nil} /\ transfer_leader_to \subseteq Server
      BY <2>1, <2>3, <3>1 DEF IInv, TypeOK, TransferPointersValid
    <3>3. transfer_leader_to = {}
      BY <3>2, NoneAssumption
    <3>4. QED
      BY <2>1, <2>2, <2>4, <2>5, <3>3
  <2>14. QED
    BY <2>7, <2>8, <2>9, <2>10, <2>11, <2>12, <2>13 DEF IInv, ReconfigInv
<1>3. QED
  BY <1>1, <1>2

\* del_server of another server: its entry is the only one that is not committed.
LEMMA DelOtherKeeps ==
  ASSUME IInv, NEW c \in Conn, NEW n \in Server, DelOther(c, n)
  PROVE  IInv'
<1> DEFINE e == Entry(cluster \ {n})
           rc == Reconfiguration("removal", n, c)
<1>1. Idle(c) /\ role = "LEADER" /\ n \in cluster /\ recfg = Nil /\ cluster \ {n} # {} /\ cluster \subseteq Server
  BY DelAccepted DEF DelOther, IInv, TypeOK
<1>2. e \in Entries /\ e.cfg = cluster \ {n} /\ log' = Append(log, e)
  BY <1>1, EntryFields DEF IInv, DelOther
<1>3. /\ rc \in Reconfigurations /\ rc # Nil /\ rc.type = "removal" /\ rc.n = n /\ rc.rep = c
  BY ReconfigurationFields
<1>4. /\ cluster' = cluster \ {n}
      /\ commit_index' = IF cluster \ {n} = {Self} THEN Len(log') ELSE commit_index
      /\ IF Completes(log', commit_index', rc)
           THEN recfg' = Nil /\ conn' = CompletedAtOnce(c, "del", n, "OK")
           ELSE recfg' = rc /\ conn' = Waiting(c, "del", n)
      /\ trouble' = trouble \cup IF server_transfer_leader_to # Nil THEN {"overlap"} ELSE {}
      /\ UNCHANGED <<role, curr_term, match_index>>
      /\ UNCHANGED <<server_transfer_leader_to, server_transfer_reply_to, transfer_leader_to, transfer_timer>>
  BY DEF DelOther, transferVars
<1> HIDE DEF e, rc
<1>5. /\ log' \in Seq(Entries) /\ Len(log') = Len(log) + 1
      /\ \A i \in 1..Len(log) : log'[i] = log[i]
      /\ log'[1].cfg # {}
      /\ commit_index \in 1..Len(log') /\ commit_index \in 1..Len(log) /\ Len(log) \in Nat
  BY <1>2, AppendKeepsEntries, PointerFacts
<1>6. /\ CfgIndices(log') = CfgIndices(log) \cup {Len(log) + 1}
      /\ cfg_entry_index(log') = Len(log) + 1
      /\ log'[Len(log) + 1].cfg = cluster \ {n}
  BY <1>1, <1>2, PointerFacts, AppendConfig
<1>7. commit_index' \in 1..Len(log') /\ commit_index <= commit_index'
  BY <1>4, <1>5
<1>8. Completes(log', commit_index', rc) <=> commit_index' = Len(log')
  BY <1>3, <1>5, <1>6, <1>7 DEF Completes
<1>9. trouble \subseteq trouble' /\ (server_transfer_leader_to # Nil => "overlap" \in trouble')
  BY <1>4
<1>10. /\ conn' \in [Conn -> Session]
       /\ SessionInv'
       /\ NobodyForgotten'
       /\ recfg' \in Reconfigurations \cup {Nil}
       /\ server_transfer_reply_to # Nil /\ recfg' # Nil => recfg'.rep # server_transfer_reply_to
       /\ server_transfer_reply_to # Nil /\ ~conn[server_transfer_reply_to].ready
            => ~conn'[server_transfer_reply_to].ready
  <2>1. CASE Completes(log', commit_index', rc)
    <3>1. conn' = CompletedAtOnce(c, "del", n, "OK") /\ recfg' = recfg
      BY <1>1, <1>4, <2>1
    <3>2. conn[c].ready /\ conn \in [Conn -> Session] /\ "OK" \in Statuses
      BY <1>1, PointerFacts DEF Statuses
    <3>3. /\ conn' \in [Conn -> Session]
          /\ \A d \in Conn : d # c => conn'[d] = conn[d]
          /\ conn'[c].phase = "done" /\ conn'[c].ready /\ SessionOK(conn'[c])
      BY <3>1, <3>2, CompletedAtOnceEffect
    <3>4. UNCHANGED <<recfg, server_transfer_leader_to, server_transfer_reply_to>>
      BY <1>4, <3>1
    <3>5. QED
      BY <1>1, <1>9, <3>1, <3>2, <3>3, <3>4, ClosedKeeps
  <2>2. CASE ~Completes(log', commit_index', rc)
    <3>1. conn' = Waiting(c, "del", n) /\ recfg' = rc
      BY <1>4, <2>2
    <3>2. /\ conn' \in [Conn -> Session]
          /\ \A d \in Conn : SessionOK(conn'[d])
          /\ \A d \in Conn : d # c => conn'[d] = conn[d]
          /\ conn'[c].phase = "waiting" /\ conn'[c].op = "del" /\ conn'[c].server = n
          /\ ~conn'[c].ready /\ conn'[c].body = Nil
          /\ server_transfer_reply_to # Nil => server_transfer_reply_to # c
      BY <1>1, <3>1, WaitingSessions
    <3>3. SessionInv'
      BY <1>3, <1>4, <3>1, <3>2, PointerFacts DEF IInv, ReconfigInv, SessionInv
    <3>4. NobodyForgotten'
      BY <1>1, <1>3, <1>4, <1>9, <3>1, <3>2 DEF IInv, NobodyForgotten
    <3>5. QED
      BY <1>3, <3>1, <3>2, <3>3, <3>4, PointerFacts
  <2>3. QED
    BY <2>1, <2>2
<1>11. TypeOK'
  BY <1>1, <1>4, <1>5, <1>7, <1>10 DEF IInv, TypeOK, Entries
<1>12. TransferInv'
  BY <1>4, <1>9, <1>10 DEF IInv, ReconfigInv, TransferInv
<1>13. ChangeInv'
  <2>1. SUFFICES ASSUME trouble' \cap Voiding = {}
                 PROVE  /\ recfg' # Nil => role' = "LEADER"
                        /\ \A i \in CfgIndices(log') : i > commit_index' =>
                             i = cfg_entry_index(log') /\ ChangeInLog'
                        /\ ChangeInLog' => (recfg'.n \in cluster' <=> recfg'.type = "addition")
    BY <1>5 DEF ChangeInv
  <2>2. ~ChangeInLog /\ trouble \cap Voiding = {}
    BY <1>1, <1>9, <2>1 DEF ChangeInLog
  <2>3. \A i \in CfgIndices(log) : ~(i > commit_index)
    BY <1>1, <2>2 DEF IInv, ReconfigInv, ChangeInv
  <2>4. \A i \in CfgIndices(log) : i \in Nat
    BY PointerFacts DEF CfgIndices
  <2>5. ASSUME NEW i \in CfgIndices(log'), i > commit_index'
        PROVE  i = cfg_entry_index(log') /\ ChangeInLog'
    <3>1. i = Len(log) + 1
      BY <1>5, <1>6, <1>7, <2>3, <2>4, <2>5
    <3>2. recfg' = rc
      BY <1>4, <1>5, <1>8, <2>5, <3>1
    <3>3. QED
      BY <1>3, <1>6, <3>1, <3>2 DEF ChangeInLog
  <2>6. ChangeInLog' => (recfg'.n \in cluster' <=> recfg'.type = "addition")
    BY <1>3, <1>4 DEF ChangeInLog
  <2>7. QED
    BY <1>1, <1>4, <2>5, <2>6
<1>14. ClusterIsLatestConfig'
  BY <1>4, <1>6 DEF ClusterIsLatestConfig
<1>15. TransferPointersValid'
  BY <1>4, <1>9, <1>10 DEF IInv, TransferPointersValid
<1>16. QED
  BY <1>10, <1>11, <1>12, <1>13, <1>14, <1>15 DEF IInv, ReconfigInv

\* del_server of the leader itself: as another's, and leadership is handed on.
LEMMA DelSelfKeeps ==
  ASSUME IInv, NEW c \in Conn, DelSelf(c)
  PROVE  IInv'
<1> DEFINE cl == cluster \ {Self}
           e == Entry(cl)
           rc == Reconfiguration("removal", Self, c)
<1>0. Self \in Server
  BY SelfAssumption
<1>1. Idle(c) /\ role = "LEADER" /\ recfg = Nil /\ cl # {} /\ cluster \subseteq Server
  BY <1>0, DelAccepted DEF DelSelf, IInv, TypeOK
<1>2. e \in Entries /\ e.cfg = cl /\ log' = Append(log, e)
  BY <1>1, EntryFields DEF IInv, DelSelf
<1>3. /\ rc \in Reconfigurations /\ rc # Nil /\ rc.type = "removal" /\ rc.n = Self /\ rc.rep = c
  BY <1>0, ReconfigurationFields
<1>4. cluster' = cl /\ UNCHANGED <<role, curr_term, commit_index, match_index>>
  BY DEF DelSelf
<1>5. PICK n \in LatestServers(cl) :
        \/ /\ TransferRefusal(n, cl) = Nil
           /\ begin_transfer(c, n, last_entry_index + 1)
           /\ recfg' = rc
           /\ conn' = Waiting(c, "del", Self)
           /\ trouble' = trouble \cup {"removed"}
        \/ /\ TransferRefusal(n, cl) # Nil
           /\ conn' = Refused(c, "ERROR")
           /\ trouble' = trouble \cup {"error"}
           /\ UNCHANGED <<recfg, transferVars>>
  BY DEF DelSelf
<1>6. n \in Server
  BY <1>0, <1>1 DEF LatestServers
<1> HIDE DEF e, rc
<1>7. /\ log' \in Seq(Entries) /\ Len(log') = Len(log) + 1
      /\ log'[1].cfg # {}
      /\ commit_index \in 1..Len(log') /\ commit_index \in 1..Len(log) /\ Len(log) \in Nat
  BY <1>2, AppendKeepsEntries, PointerFacts
<1>8. /\ CfgIndices(log') = CfgIndices(log) \cup {Len(log) + 1}
      /\ cfg_entry_index(log') = Len(log) + 1
      /\ log'[Len(log) + 1].cfg = cl
  BY <1>1, <1>2, PointerFacts, AppendConfig
<1>9. ClusterIsLatestConfig'
  BY <1>4, <1>8 DEF ClusterIsLatestConfig
<1>10. CASE TransferRefusal(n, cl) # Nil
  <2>1. /\ conn' = Refused(c, "ERROR") /\ trouble' = trouble \cup {"error"} /\ UNCHANGED recfg
        /\ UNCHANGED <<server_transfer_leader_to, server_transfer_reply_to, transfer_leader_to, transfer_timer>>
    BY <1>5, <1>10 DEF transferVars
  <2>2. "ERROR" \in Statuses /\ "error" \in trouble' /\ trouble \subseteq trouble' /\ "error" \in Voiding
    BY <2>1 DEF Statuses, Voiding
  <2>3. conn' \in [Conn -> Session] /\ SessionInv' /\ NobodyForgotten'
    BY <1>1, <2>1, <2>2, RefusedKeeps
  <2>4. TypeOK'
    BY <1>1, <1>4, <1>7, <2>1, <2>3 DEF IInv, TypeOK, Entries
  <2>5. TransferInv'
    BY <1>4, <2>1, <2>2 DEF IInv, ReconfigInv, TransferInv
  <2>6. ChangeInv' /\ TransferPointersValid'
    BY <1>7, <2>2 DEF ChangeInv, TransferPointersValid
  <2>7. QED
    BY <1>9, <2>3, <2>4, <2>5, <2>6 DEF IInv, ReconfigInv
<1>11. CASE TransferRefusal(n, cl) = Nil
  <2>1. server_transfer_leader_to = Nil
    BY <1>6, <1>11, TransferAccepted
  <2>2. /\ conn' = Waiting(c, "del", Self) /\ recfg' = rc /\ trouble' = trouble \cup {"removed"}
        /\ transfer_leader_to' = transfer_leader_to \cup {n}
        /\ server_transfer_leader_to' = n
        /\ server_transfer_reply_to' = c
        /\ transfer_timer' \in {transfer_timer, n}
    BY <1>5, <1>11 DEF begin_transfer
  <2>3. "removed" \in trouble' /\ trouble \subseteq trouble'
    BY <2>2
  <2>4. n # Nil /\ c # Nil
    BY <1>6, NoneAssumption
  <2>5. /\ conn' \in [Conn -> Session]
        /\ \A d \in Conn : SessionOK(conn'[d])
        /\ \A d \in Conn : d # c => conn'[d] = conn[d]
        /\ conn'[c].phase = "waiting" /\ conn'[c].op = "del" /\ conn'[c].server = Self
        /\ ~conn'[c].ready /\ conn'[c].body = Nil
    BY <1>0, <1>1, <2>2, WaitingSessions
  <2>6. TypeOK'
    BY <1>1, <1>3, <1>4, <1>6, <1>7, <2>2, <2>5 DEF IInv, TypeOK, Entries
  <2>7. SessionInv'
    BY <1>3, <2>2, <2>5 DEF SessionInv
  <2>8. TransferInv'
    BY <1>1, <1>3, <1>4, <2>2, <2>3, <2>4 DEF TransferInv
  <2>9. ChangeInv'
    <3>1. SUFFICES ASSUME trouble' \cap Voiding = {}
                   PROVE  /\ \A i \in CfgIndices(log') : i > commit_index' =>
                               i = cfg_entry_index(log') /\ ChangeInLog'
                          /\ ChangeInLog' => (recfg'.n \in cluster' <=> recfg'.type = "addition")
      BY <1>1, <1>4, <1>7 DEF ChangeInv
    <3>2. ~ChangeInLog /\ trouble \cap Voiding = {}
      BY <1>1, <2>3, <3>1 DEF ChangeInLog
    <3>3. \A i \in CfgIndices(log) : ~(i > commit_index)
      BY <1>1, <3>2 DEF IInv, ReconfigInv, ChangeInv
    <3>4. ChangeInLog'
      BY <1>3, <2>2 DEF ChangeInLog
    <3>5. QED
      BY <1>3, <1>4, <1>8, <2>2, <3>3, <3>4
  <2>10. NobodyForgotten'
    BY <1>1, <1>3, <2>1, <2>2, <2>3, <2>4, <2>5 DEF IInv, NobodyForgotten
  <2>11. TransferPointersValid'
    BY <2>3 DEF TransferPointersValid
  <2>12. QED
    BY <1>9, <2>6, <2>7, <2>8, <2>9, <2>10, <2>11 DEF IInv, ReconfigInv
<1>12. QED
  BY <1>10, <1>11

-----------------------------------------------------------------------------
(***************************************************************************)
(* Callbacks and timers.                                                   *)
(***************************************************************************)
\* A session that is owed an answer gets it, and the others are left alone.
LEMMA AnsweredSessions ==
  ASSUME IInv, NEW r \in Conn, ~conn[r].ready, NEW status \in Statuses, conn' = Answered(conn, r, status)
  PROVE  /\ conn' \in [Conn -> Session]
         /\ \A d \in Conn : SessionOK(conn'[d])
         /\ \A d \in Conn : d # r => conn'[d] = conn[d]
         /\ \A d \in Conn : conn'[d].phase = conn[d].phase /\ conn'[d].op = conn[d].op
         /\ conn[r].phase = "waiting"
         /\ conn'[r].server = conn[r].server
         /\ conn'[r].ready /\ conn'[r].bytes = 1 /\ conn'[r].body # Nil
<1>1. conn \in [Conn -> Session] /\ SessionOK(conn[r]) /\ status # Nil
  BY PointerFacts, NoneAssumption
<1>2. conn[r].phase = "waiting"
  BY <1>1 DEF SessionOK
<1>3. /\ conn' \in [Conn -> Session]
      /\ \A d \in Conn : d # r => conn'[d] = conn[d]
      /\ conn'[r].phase = "waiting" /\ conn'[r].op = conn[r].op /\ conn'[r].server = conn[r].server
      /\ conn'[r].ready /\ conn'[r].bytes = 1 /\ conn'[r].body = status
      /\ SessionOK(conn'[r])
  BY <1>1, AnsweredEffect
<1>4. \A d \in Conn : SessionOK(conn'[d])
  BY <1>3, PointerFacts
<1>5. QED
  BY <1>1, <1>2, <1>3, <1>4

\* The end of a change: its session has the answer, and nothing else is owed.
LEMMA ChangeEnds ==
  ASSUME IInv, recfg # Nil, NEW status \in Statuses, conn' = Answered(conn, recfg.rep, status),
         recfg' = Nil, trouble \subseteq trouble', role' = "LEADER" \/ UNCHANGED role, UNCHANGED transferVars
  PROVE  /\ conn' \in [Conn -> Session]
         /\ SessionInv'
         /\ TransferInv'
         /\ NobodyForgotten'
         /\ trouble' \cap {"overlap", "error", "removed"} = {} =>
              /\ server_transfer_reply_to # Nil => ~conn'[server_transfer_reply_to].ready
              /\ transfer_leader_to \subseteq {server_transfer_leader_to}
<1> DEFINE r == recfg.rep
<1>1. r \in Conn /\ ~conn[r].ready
  BY PointerFacts
<1> HIDE DEF r
<1>2. conn' = Answered(conn, r, status)
  BY DEF r
<1>3. /\ conn' \in [Conn -> Session]
      /\ \A d \in Conn : SessionOK(conn'[d])
      /\ \A d \in Conn : d # r => conn'[d] = conn[d]
      /\ \A d \in Conn : conn'[d].phase = conn[d].phase /\ conn'[d].op = conn[d].op
      /\ conn'[r].ready /\ conn'[r].bytes = 1 /\ conn'[r].body # Nil
  BY <1>1, <1>2, AnsweredSessions
<1>4. UNCHANGED <<server_transfer_leader_to, server_transfer_reply_to, transfer_leader_to, transfer_timer>>
  BY DEF transferVars
<1>5. SessionInv'
  BY <1>3, <1>4, PointerFacts DEF IInv, ReconfigInv, SessionInv
<1>6. TransferInv'
  BY <1>4 DEF IInv, ReconfigInv, TransferInv
<1>7. NobodyForgotten'
  BY <1>3, <1>4 DEF IInv, NobodyForgotten, r
<1>8. ASSUME trouble' \cap {"overlap", "error", "removed"} = {}
      PROVE  /\ server_transfer_reply_to # Nil => ~conn'[server_transfer_reply_to].ready
             /\ transfer_leader_to \subseteq {server_transfer_leader_to}
  <2>1. trouble \cap {"overlap", "error", "removed"} = {}
    BY <1>8
  <2>2. server_transfer_reply_to # Nil => r # server_transfer_reply_to
    BY <2>1 DEF IInv, ReconfigInv, TransferInv, r
  <2>3. QED
    BY <1>3, <2>1, <2>2, PointerFacts DEF IInv, TransferPointersValid
<1>9. QED
  BY <1>3, <1>5, <1>6, <1>7, <1>8

\* handle_catch_up_server_append_entries, whatever was committed just before.
LEMMA CatchUpKeeps ==
  ASSUME IInv, NEW n \in Server, NEW mt, newly(n, recfg), handle_catch_up(n, mt, recfg, conn),
         UNCHANGED <<role, curr_term>>, UNCHANGED transferVars,
         commit_index' \in commit_index..Len(log), match_index' \in [Server -> Nat]
  PROVE  IInv'
<1>1. recfg # Nil /\ recfg.n = n /\ recfg.type = "addition" /\ recfg \in Reconfigurations
  BY DEF newly, IInv, TypeOK
<1>2. /\ log \in Seq(Entries) /\ Len(log) \in Nat /\ commit_index \in 1..Len(log)
      /\ commit_index' \in 1..Len(log) /\ commit_index <= commit_index' /\ log[1].cfg # {}
      /\ \A i \in CfgIndices(log) : i \in 1..Len(log)
  BY PointerFacts DEF CfgIndices, IInv, ReconfigInv, ChangeInv
<1>3. UNCHANGED <<server_transfer_leader_to, server_transfer_reply_to, transfer_leader_to, transfer_timer>>
  BY DEF transferVars
<1>4. \A i \in CfgIndices(log) : i > commit_index' => i > commit_index
  BY <1>2
<1>5. ASSUME recfg' \in Reconfigurations, recfg' # Nil, recfg'.type = recfg.type, recfg'.n = recfg.n,
             recfg'.rep = recfg.rep, conn' = conn, UNCHANGED trouble
      PROVE  SessionInv' /\ TransferInv' /\ NobodyForgotten'
  BY <1>1, <1>3, <1>5 DEF IInv, ReconfigInv, SessionInv, TransferInv, NobodyForgotten
<1>6. ASSUME recfg' \in Reconfigurations, recfg' # Nil, recfg'.type = recfg.type, recfg'.n = recfg.n,
             recfg'.rep = recfg.rep, recfg'.entry_added = recfg.entry_added, conn' = conn,
             UNCHANGED <<log, cluster, trouble>>
      PROVE  IInv'
  <2>1. TypeOK'
    BY <1>2, <1>3, <1>6 DEF IInv, TypeOK
  <2>2. SessionInv' /\ TransferInv' /\ NobodyForgotten'
    BY <1>5, <1>6
  <2>3. ChangeInLog' <=> ChangeInLog
    BY <1>1, <1>6 DEF ChangeInLog
  <2>4. CfgIndices(log') = CfgIndices(log) /\ cfg_entry_index(log') = cfg_entry_index(log)
    BY <1>6
  <2>5. ChangeInv'
    BY <1>1, <1>2, <1>4, <1>6, <2>3, <2>4 DEF IInv, ReconfigInv, ChangeInv
  <2>6. ClusterIsLatestConfig' /\ TransferPointersValid'
    BY <1>3, <1>6, <2>4 DEF IInv, ClusterIsLatestConfig, TransferPointersValid
  <2>7. QED
    BY <2>1, <2>2, <2>5, <2>6 DEF IInv, ReconfigInv
<1>7. CASE /\ recfg' = [recfg EXCEPT !.rounds = @ + 1] /\ conn' = conn
           /\ UNCHANGED <<log, cluster, trouble>>
  <2>1. /\ recfg' \in Reconfigurations /\ recfg' # Nil /\ recfg'.type = recfg.type /\ recfg'.n = recfg.n
        /\ recfg'.entry_added = recfg.entry_added /\ recfg'.rep = recfg.rep
    BY <1>1, <1>7, InProgressUpdates
  <2>2. QED
    BY <1>6, <1>7, <2>1
<1>8. CASE recfg' = recfg /\ conn' = conn /\ UNCHANGED <<log, cluster, trouble>>
  BY <1>1, <1>6, <1>8
<1>9. CASE /\ ~recfg.entry_added
           /\ cluster' = cluster \cup {n}
           /\ log' = Append(log, Entry(cluster \cup {n}))
           /\ recfg' = [recfg EXCEPT !.entry_added = TRUE]
           /\ conn' = conn
           /\ UNCHANGED trouble
  <2> DEFINE e == Entry(cluster \cup {n})
  <2>1. cluster \cup {n} \in SUBSET Server /\ cluster \cup {n} # {}
    BY DEF IInv, TypeOK
  <2>2. e \in Entries /\ e.cfg = cluster \cup {n} /\ log' = Append(log, e)
    BY <1>9, <2>1, EntryFields DEF IInv
  <2> HIDE DEF e
  <2>3. /\ log' \in Seq(Entries) /\ Len(log') = Len(log) + 1 /\ log'[1].cfg # {}
    BY <2>2, AppendKeepsEntries
  <2>4. /\ CfgIndices(log') = CfgIndices(log) \cup {Len(log) + 1}
        /\ cfg_entry_index(log') = Len(log) + 1
        /\ log'[Len(log) + 1].cfg = cluster \cup {n}
    BY <1>2, <2>1, <2>2, AppendConfig
  <2>5. /\ recfg' \in Reconfigurations /\ recfg' # Nil /\ recfg'.type = recfg.type /\ recfg'.n = recfg.n
        /\ recfg'.entry_added /\ recfg'.rep = recfg.rep
    BY <1>1, <1>9, InProgressUpdates
  <2>6. SessionInv' /\ TransferInv' /\ NobodyForgotten'
    BY <1>5, <1>9, <2>5
  <2>7. TypeOK'
    <3>1. commit_index' \in 1..Len(log')
      BY <1>2, <2>3
    <3>2. QED
      BY <1>3, <1>9, <2>1, <2>3, <2>5, <3>1 DEF IInv, TypeOK, Entries
  <2>8. ChangeInv'
    <3>1. SUFFICES ASSUME trouble' \cap Voiding = {}
                   PROVE  /\ recfg' # Nil => role' = "LEADER"
                          /\ role' = "LEADER" => \A i \in CfgIndices(log') : i > commit_index' =>
                               i = cfg_entry_index(log') /\ ChangeInLog'
                          /\ ChangeInLog' => (recfg'.n \in cluster' <=> recfg'.type = "addition")
      BY <2>3 DEF ChangeInv
    <3>2. ~ChangeInLog /\ trouble \cap Voiding = {}
      BY <1>1, <1>9, <3>1 DEF ChangeInLog
    <3>3. role = "LEADER" /\ \A i \in CfgIndices(log) : ~(i > commit_index')
      BY <1>1, <1>4, <3>2 DEF IInv, ReconfigInv, ChangeInv
    <3>4. ChangeInLog' /\ recfg'.n \in cluster' /\ recfg'.type = "addition"
      BY <1>1, <1>9, <2>5 DEF ChangeInLog
    <3>5. QED
      BY <2>4, <3>3, <3>4
  <2>9. ClusterIsLatestConfig'
    BY <1>9, <2>4 DEF ClusterIsLatestConfig
  <2>10. TransferPointersValid'
    BY <1>3, <1>9 DEF IInv, TransferPointersValid
  <2>11. QED
    BY <2>6, <2>7, <2>8, <2>9, <2>10 DEF IInv, ReconfigInv
<1>10. CASE /\ cluster' = cluster \cup {n}
            /\ recfg' = Nil
            /\ conn' = Answered(conn, recfg.rep, "ERROR")
            /\ trouble' = trouble \cup {"error"}
            /\ UNCHANGED log
  <2>1. "ERROR" \in Statuses /\ trouble \subseteq trouble' /\ "error" \in trouble' /\ "error" \in Voiding
    BY <1>10 DEF Statuses, Voiding
  <2>2. conn' \in [Conn -> Session] /\ SessionInv' /\ TransferInv' /\ NobodyForgotten'
    BY <1>1, <1>10, <2>1, ChangeEnds
  <2>3. TypeOK'
    BY <1>2, <1>3, <1>10, <2>2 DEF IInv, TypeOK
  <2>4. ChangeInv' /\ ClusterIsLatestConfig' /\ TransferPointersValid'
    BY <1>2, <1>10, <2>1 DEF ChangeInv, ClusterIsLatestConfig, TransferPointersValid
  <2>5. QED
    BY <2>2, <2>3, <2>4 DEF IInv, ReconfigInv
<1>11. CASE /\ recfg' = Nil
            /\ conn' = Answered(conn, recfg.rep, "TIMEOUT")
            /\ trouble' = trouble \cup IF recfg.entry_added THEN {"timeout"} ELSE {}
            /\ UNCHANGED <<log, cluster>>
  <2>1. "TIMEOUT" \in Statuses /\ trouble \subseteq trouble'
    BY <1>11 DEF Statuses
  <2>2. /\ conn' \in [Conn -> Session] /\ SessionInv' /\ TransferInv' /\ NobodyForgotten'
        /\ trouble' \cap {"overlap", "error", "removed"} = {} =>
             /\ server_transfer_reply_to # Nil => ~conn'[server_transfer_reply_to].ready
             /\ transfer_leader_to \subseteq {server_transfer_leader_to}
    BY <1>1, <1>11, <2>1, ChangeEnds
  <2>3. TypeOK'
    BY <1>2, <1>3, <1>11, <2>2 DEF IInv, TypeOK
  <2>4. CfgIndices(log') = CfgIndices(log) /\ cfg_entry_index(log') = cfg_entry_index(log)
    BY <1>11
  <2>5. ChangeInv'
    <3>1. CASE recfg.entry_added
      <4>1. "timeout" \in trouble' \cap Voiding
        BY <1>11, <3>1 DEF Voiding
      <4>2. QED
        BY <1>2, <1>11, <4>1 DEF ChangeInv
    <3>2. CASE ~recfg.entry_added
      <4>1. ~ChangeInLog /\ ~ChangeInLog'
        BY <1>1, <1>11, <3>2 DEF ChangeInLog
      <4>2. QED
        BY <1>2, <1>4, <1>11, <2>1, <2>4, <4>1 DEF IInv, ReconfigInv, ChangeInv
    <3>3. QED
      BY <3>1, <3>2
  <2>6. ClusterIsLatestConfig' /\ TransferPointersValid'
    BY <1>3, <1>11, <2>1, <2>2, <2>4 DEF IInv, ClusterIsLatestConfig, TransferPointersValid
  <2>7. QED
    BY <2>2, <2>3, <2>5, <2>6 DEF IInv, ReconfigInv
<1>12. QED
  BY <1>7, <1>8, <1>9, <1>10, <1>11 DEF handle_catch_up

\* on_append_entries, success: the change ends when its entry is committed.
LEMMA AppendEntriesSucceededKeeps ==
  ASSUME IInv, NEW n \in Server, NEW m \in 0..last_entry_index, AppendEntriesSucceeded(n, m)
  PROVE  IInv'
<1> DEFINE mt == [match_index EXCEPT ![n] = m]
           ci == CommitAfter(log, cluster, mt)
           done == Completes(log, ci, recfg)
<1>1. mt \in [Server -> Nat]
  BY PointerFacts DEF IInv, TypeOK, last_entry_index
<1>2. ci \in commit_index..Len(log)
  BY <1>1, CommitAfterWithinLog DEF IInv
<1>3. role = "LEADER" /\ match_index' = mt /\ commit_index' = ci /\ UNCHANGED <<role, curr_term, transferVars>>
  BY DEF AppendEntriesSucceeded
<1>4. CASE done
  <2>1. recfg # Nil /\ cfg_entry_index(log) <= ci
    BY <1>4 DEF Completes
  <2>2. recfg' = Nil /\ conn' = Answered(conn, recfg.rep, "OK") /\ UNCHANGED <<log, cluster, trouble>>
    BY <1>4 DEF AppendEntriesSucceeded, newly
  <2> HIDE DEF mt, ci, done
  <2>3. "OK" \in Statuses /\ trouble \subseteq trouble' /\ UNCHANGED role /\ UNCHANGED transferVars
    BY <1>3, <2>2 DEF Statuses
  <2>4. /\ conn' \in [Conn -> Session] /\ SessionInv' /\ TransferInv' /\ NobodyForgotten'
        /\ trouble' \cap {"overlap", "error", "removed"} = {} =>
             /\ server_transfer_reply_to # Nil => ~conn'[server_transfer_reply_to].ready
             /\ transfer_leader_to \subseteq {server_transfer_leader_to}
    BY <2>1, <2>2, <2>3, ChangeEnds
  <2>5. UNCHANGED <<server_transfer_leader_to, server_transfer_reply_to, transfer_leader_to, transfer_timer>>
    BY <1>3 DEF transferVars
  <2>6. TypeOK'
    BY SMTT(30), <1>1, <1>2, <1>3, <2>2, <2>4, <2>5 DEF IInv, TypeOK
  <2>7. CfgIndices(log') = CfgIndices(log) /\ cfg_entry_index(log') = cfg_entry_index(log)
    BY <2>2
  <2>8. \A i \in CfgIndices(log) : ~(i > commit_index')
    BY <1>2, <1>3, <2>1, PointerFacts DEF CfgIndices
  <2>9. ChangeInv'
    BY <2>2, <2>7, <2>8 DEF IInv, ReconfigInv, ChangeInv, ChangeInLog
  <2>10. ClusterIsLatestConfig' /\ TransferPointersValid'
    BY <2>2, <2>4, <2>5, <2>7 DEF IInv, ClusterIsLatestConfig, TransferPointersValid
  <2>11. QED
    BY <2>4, <2>6, <2>9, <2>10 DEF IInv, ReconfigInv
<1>5. CASE ~done
  <2>1. \/ newly(n, recfg) /\ handle_catch_up(n, mt, recfg, conn)
        \/ recfg' = recfg /\ conn' = conn /\ UNCHANGED <<log, cluster, trouble>>
    BY <1>5 DEF AppendEntriesSucceeded
  <2> HIDE DEF mt, ci, done
  <2>2. CASE newly(n, recfg) /\ handle_catch_up(n, mt, recfg, conn)
    BY <1>1, <1>2, <1>3, <2>2, CatchUpKeeps
  <2>3. CASE recfg' = recfg /\ conn' = conn /\ UNCHANGED <<log, cluster, trouble>>
    <3>1. UNCHANGED <<server_transfer_leader_to, server_transfer_reply_to, transfer_leader_to, transfer_timer>>
      BY <1>3 DEF transferVars
    <3>2. TypeOK'
      BY SMTT(30), <1>1, <1>2, <1>3, <2>3, <3>1 DEF IInv, TypeOK
    <3>3. SessionInv' /\ TransferInv' /\ NobodyForgotten' /\ TransferPointersValid'
      BY <1>3, <2>3, <3>1
         DEF IInv, ReconfigInv, SessionInv, TransferInv, NobodyForgotten, TransferPointersValid
    <3>4. CfgIndices(log') = CfgIndices(log) /\ cfg_entry_index(log') = cfg_entry_index(log)
      BY <2>3
    <3>5. \A i \in CfgIndices(log) : i > commit_index' => i > commit_index
      BY <1>2, <1>3, PointerFacts DEF CfgIndices
    <3>6. ChangeInv' /\ ClusterIsLatestConfig'
      BY <1>3, <2>3, <3>4, <3>5 DEF IInv, ReconfigInv, ChangeInv, ChangeInLog, ClusterIsLatestConfig
    <3>7. QED
      BY <3>2, <3>3, <3>6 DEF IInv, ReconfigInv
  <2>4. QED
    BY <2>1, <2>2, <2>3
<1>6. QED
  BY <1>4, <1>5

\* on_append_entries, a call to a new server failed.
LEMMA AppendEntriesFailedKeeps ==
  ASSUME IInv, NEW n \in Server, AppendEntriesFailed(n)
  PROVE  IInv'
<1>1. /\ newly(n, recfg) /\ handle_catch_up(n, match_index, recfg, conn)
      /\ UNCHANGED <<role, curr_term>> /\ UNCHANGED transferVars
  BY DEF AppendEntriesFailed
<1>2. commit_index' \in commit_index..Len(log) /\ match_index' \in [Server -> Nat]
  BY PointerFacts DEF AppendEntriesFailed, IInv, TypeOK
<1>3. QED
  BY <1>1, <1>2, CatchUpKeeps

\* How a transfer ends: a removal that began it is answered, or else its own session.
LEMMA TransferEnds ==
  ASSUME IInv, NEW removal \in BOOLEAN, NEW status \in Statuses,
         server_transfer_leader_to # Nil => (removal <=> recfg # Nil /\ recfg.type = "removal"),
         removal => recfg # Nil /\ recfg.type = "removal",
         recfg' = IF removal THEN Nil ELSE recfg,
         conn' = IF removal THEN Answered(conn, recfg.rep, status)
                 ELSE IF ReplyDue(server_transfer_reply_to) THEN Answered(conn, server_transfer_reply_to, status)
                 ELSE conn,
         server_transfer_leader_to' = Nil, server_transfer_reply_to' = Nil, trouble \subseteq trouble'
  PROVE  /\ conn' \in [Conn -> Session]
         /\ SessionInv'
         /\ NobodyForgotten'
<1> DEFINE r == server_transfer_reply_to
<1>1. /\ conn \in [Conn -> Session] /\ \A d \in Conn : SessionOK(conn[d])
      /\ recfg # Nil => recfg.rep \in Conn /\ ~conn[recfg.rep].ready
      /\ r # Nil => r \in Conn
  BY PointerFacts
<1>2. CASE removal
  <2> DEFINE q == recfg.rep
  <2>1. recfg' = Nil /\ conn' = Answered(conn, q, status) /\ q \in Conn /\ ~conn[q].ready
    BY <1>1, <1>2
  <2>2. recfg # Nil /\ recfg.type = "removal"
    BY <1>2
  <2> HIDE DEF q
  <2>3. /\ conn' \in [Conn -> Session]
        /\ \A d \in Conn : SessionOK(conn'[d])
        /\ \A d \in Conn : d # q => conn'[d] = conn[d]
        /\ conn'[q].ready /\ conn'[q].bytes = 1 /\ conn'[q].body # Nil
    BY <2>1, AnsweredSessions
  <2>4. SessionInv'
    BY <2>1, <2>3 DEF SessionInv
  <2>5. "overlap" \notin trouble /\ server_transfer_leader_to # Nil => r = q
    BY <2>2 DEF IInv, ReconfigInv, TransferInv, q
  <2>6. NobodyForgotten'
    BY <2>1, <2>3, <2>5 DEF IInv, NobodyForgotten, q
  <2>7. QED
    BY <2>3, <2>4, <2>6
<1>3. CASE ~removal /\ ReplyDue(r)
  <2>1. recfg' = recfg /\ conn' = Answered(conn, r, status) /\ r # Nil /\ r \in Conn /\ ~conn[r].ready
    BY <1>1, <1>3 DEF ReplyDue
  <2>2. /\ conn' \in [Conn -> Session]
        /\ \A d \in Conn : SessionOK(conn'[d])
        /\ \A d \in Conn : d # r => conn'[d] = conn[d]
        /\ conn'[r].ready /\ conn'[r].bytes = 1 /\ conn'[r].body # Nil
    BY <2>1, AnsweredSessions
  <2>3. recfg # Nil => recfg.rep # r
    <3>1. SUFFICES ASSUME recfg # Nil, recfg.rep = r PROVE FALSE
      OBVIOUS
    <3>2. server_transfer_leader_to # Nil
      BY <2>1 DEF IInv, ReconfigInv, TransferInv
    <3>3. recfg.type = "addition"
      BY <1>3, <3>1, <3>2, InProgressFields DEF IInv, TypeOK
    <3>4. conn[r].op = "add"
      BY <3>1, <3>3 DEF IInv, ReconfigInv, SessionInv
    <3>5. conn[r].op \in {"del", "transfer"}
      BY <2>1 DEF IInv, ReconfigInv, SessionInv
    <3>6. QED
      BY <3>4, <3>5
  <2>4. recfg # Nil => conn'[recfg.rep] = conn[recfg.rep]
    BY <1>1, <2>2, <2>3
  <2>5. SessionInv'
    BY <2>1, <2>2, <2>4 DEF IInv, ReconfigInv, SessionInv
  <2>6. NobodyForgotten'
    BY <2>1, <2>2 DEF IInv, NobodyForgotten
  <2>7. QED
    BY <2>2, <2>5, <2>6
<1>4. CASE ~removal /\ ~ReplyDue(r)
  <2>1. recfg' = recfg /\ conn' = conn
    BY <1>4
  <2>2. SessionInv'
    BY <2>1 DEF IInv, ReconfigInv, SessionInv
  <2>3. NobodyForgotten'
    <3>1. SUFFICES ASSUME "overlap" \notin trouble, NEW c \in Conn, conn[c].phase = "waiting"
                   PROVE  \/ conn[c].ready /\ conn[c].bytes = 1 /\ conn[c].body # Nil
                          \/ ~conn[c].ready /\ recfg # Nil /\ recfg.rep = c
      BY <2>1 DEF NobodyForgotten
    <3>2. ~(~conn[c].ready /\ server_transfer_leader_to # Nil /\ r = c)
      BY <1>4, NoneAssumption DEF ReplyDue
    <3>3. QED
      BY <3>1, <3>2 DEF IInv, NobodyForgotten
  <2>4. QED
    BY <1>1, <2>1, <2>2, <2>3
<1>5. QED
  BY <1>2, <1>3, <1>4

\* The transfer timer.
LEMMA TransferTimeoutKeeps ==
  ASSUME IInv, OnLeadershipTransferTimeout
  PROVE  IInv'
<1> DEFINE n == transfer_timer
           removal == recfg # Nil /\ recfg.type = "removal"
<1>1. /\ n # Nil /\ transfer_timer' = Nil /\ transfer_leader_to' = transfer_leader_to \ {n}
      /\ server_transfer_leader_to' = Nil /\ server_transfer_reply_to' = Nil
      /\ recfg' = IF removal THEN Nil ELSE recfg
      /\ conn' = IF removal THEN Answered(conn, recfg.rep, "TIMEOUT")
                 ELSE IF ReplyDue(server_transfer_reply_to)
                      THEN Answered(conn, server_transfer_reply_to, "TIMEOUT") ELSE conn
      /\ trouble' = trouble \cup IF removal THEN {"timeout"} ELSE {}
      /\ UNCHANGED <<role, curr_term, log, commit_index, cluster, match_index>>
  BY DEF OnLeadershipTransferTimeout, reply_after_timeout, raftVars
<1>2. "TIMEOUT" \in Statuses /\ trouble \subseteq trouble' /\ (removal => "timeout" \in trouble' \cap Voiding)
  BY <1>1 DEF Statuses, Voiding
<1>3. removal \in BOOLEAN /\ (removal <=> recfg # Nil /\ recfg.type = "removal")
  OBVIOUS
<1> HIDE DEF removal
<1>4. conn' \in [Conn -> Session] /\ SessionInv' /\ NobodyForgotten'
  BY <1>1, <1>2, <1>3, TransferEnds
<1>5. TypeOK'
  BY <1>1, <1>4 DEF IInv, TypeOK
<1>6. TransferInv'
  BY <1>1 DEF TransferInv
<1>7. ChangeInv'
  <2>1. CASE removal
    BY <1>1, <1>2, <2>1 DEF IInv, ReconfigInv, ChangeInv
  <2>2. CASE ~removal
    <3>1. recfg' = recfg /\ trouble' = trouble
      BY <1>1, <2>2
    <3>2. QED
      BY <1>1, <3>1 DEF IInv, ReconfigInv, ChangeInv, ChangeInLog, CfgIndices, cfg_entry_index
  <2>3. QED
    BY <2>1, <2>2
<1>8. ClusterIsLatestConfig'
  BY <1>1, <1>2 DEF IInv, ClusterIsLatestConfig, CfgIndices, cfg_entry_index
<1>9. TransferPointersValid'
  <2>1. SUFFICES ASSUME trouble' \cap {"overlap", "error", "removed"} = {}
                 PROVE  transfer_leader_to' \subseteq {Nil}
    BY <1>1 DEF TransferPointersValid
  <2>2. trouble \cap {"overlap", "error", "removed"} = {}
    BY <1>2, <2>1
  <2>3. n = server_transfer_leader_to /\ transfer_leader_to \subseteq {server_transfer_leader_to}
    BY <1>1, <2>2 DEF IInv, ReconfigInv, TransferInv, TransferPointersValid
  <2>4. QED
    BY <1>1, <2>3
<1>10. QED
  BY <1>4, <1>5, <1>6, <1>7, <1>8, <1>9 DEF IInv, ReconfigInv

\* step_down: a change that is in progress outlives the leadership, a transfer does not.
LEMMA StepDownKeeps ==
  ASSUME IInv, StepDown
  PROVE  IInv'
<1> DEFINE n == server_transfer_leader_to
           r == server_transfer_reply_to
           removal == n # Nil /\ recfg # Nil /\ recfg.type = "removal"
           reply == n # Nil /\ ~removal /\ ReplyDue(r)
<1>1. /\ role' = "FOLLOWER" /\ curr_term' = curr_term + 1
      /\ transfer_leader_to' = transfer_leader_to \ {n}
      /\ recfg' = IF removal THEN Nil ELSE recfg
      /\ conn' = IF removal THEN Answered(conn, recfg.rep, "OK")
                 ELSE IF reply THEN Answered(conn, r, "OK") ELSE conn
      /\ transfer_timer' = IF removal \/ reply THEN Nil ELSE transfer_timer
      /\ server_transfer_leader_to' = Nil
      /\ server_transfer_reply_to' = IF n = Nil THEN r ELSE Nil
      /\ trouble' = trouble \cup IF recfg # Nil THEN {"deposed"} ELSE {}
      /\ UNCHANGED <<log, commit_index, cluster, match_index>>
  BY DEF StepDown
<1>2. "OK" \in Statuses /\ trouble \subseteq trouble' /\ (recfg # Nil => "deposed" \in trouble' \cap Voiding)
  BY <1>1 DEF Statuses, Voiding
<1>3. n = Nil <=> r = Nil
  BY DEF IInv, ReconfigInv, TransferInv
<1>4. /\ removal \in BOOLEAN
      /\ removal => recfg # Nil /\ recfg.type = "removal"
      /\ n # Nil => (removal <=> recfg # Nil /\ recfg.type = "removal")
      /\ reply <=> ~removal /\ ReplyDue(r)
  BY <1>3 DEF ReplyDue
<1> HIDE DEF removal, reply
<1>5. server_transfer_reply_to' = Nil
  BY <1>1, <1>3
<1>6. conn' = IF removal THEN Answered(conn, recfg.rep, "OK")
              ELSE IF ReplyDue(r) THEN Answered(conn, r, "OK") ELSE conn
  BY <1>1, <1>4
<1>7. conn' \in [Conn -> Session] /\ SessionInv' /\ NobodyForgotten'
  BY <1>1, <1>2, <1>4, <1>5, <1>6, TransferEnds
<1>8. TypeOK'
  BY <1>1, <1>5, <1>7 DEF IInv, TypeOK
<1>9. trouble' \cap {"overlap", "error", "removed"} = {} =>
        transfer_timer' = Nil /\ transfer_leader_to' \subseteq {Nil}
  <2>1. SUFFICES ASSUME trouble' \cap {"overlap", "error", "removed"} = {}
                 PROVE  transfer_timer' = Nil /\ transfer_leader_to' \subseteq {Nil}
    OBVIOUS
  <2>2. trouble \cap {"overlap", "error", "removed"} = {}
    BY <1>2, <2>1
  <2>3. /\ transfer_timer \in {n, Nil} /\ transfer_leader_to \subseteq {n}
        /\ r # Nil => ~conn[r].ready
    BY <2>2 DEF IInv, ReconfigInv, TransferInv, TransferPointersValid
  <2>4. r # Nil => removal \/ reply
    BY <1>4, <2>3 DEF ReplyDue
  <2>5. QED
    BY <1>1, <1>3, <2>3, <2>4
<1>10. TransferInv'
  BY <1>1, <1>5, <1>9 DEF TransferInv
<1>11. ChangeInv'
  <2>1. CASE recfg # Nil
    BY <1>1, <1>2, <2>1 DEF IInv, ReconfigInv, ChangeInv
  <2>2. CASE recfg = Nil
    <3>1. recfg' = Nil
      BY <1>1, <2>2
    <3>2. QED
      BY <1>1, <3>1 DEF IInv, ReconfigInv, ChangeInv, ChangeInLog
  <2>3. QED
    BY <2>1, <2>2
<1>12. ClusterIsLatestConfig'
  BY <1>1, <1>2 DEF IInv, ClusterIsLatestConfig, CfgIndices, cfg_entry_index
<1>13. TransferPointersValid'
  BY <1>1, <1>5, <1>9 DEF TransferPointersValid
<1>14. QED
  BY <1>7, <1>8, <1>10, <1>11, <1>12, <1>13 DEF IInv, ReconfigInv

-----------------------------------------------------------------------------
(***************************************************************************)
(* Self as a follower, and its return.                                     *)
(***************************************************************************)
\* The append_entries handler: a change that is chopped is out of effect, the one that
\* comes is in effect, and a transfer is not in progress.
LEMMA FollowLeaderKeeps ==
  ASSUME IInv, NEW k \in 1..last_entry_index, NEW es \in Foreign, NEW ci \in 1..MaxLog, FollowLeader(k, es, ci)
  PROVE  IInv'
<1> DEFINE pre == SubSeq(log, 1, k)
           lg == pre \o es
<1>1. /\ role = "FOLLOWER" /\ k >= commit_index /\ ci >= commit_index /\ ci <= Len(lg)
      /\ log' = lg /\ cluster' = adjust_configuration(lg, es)
      /\ match_index' = [n \in Server |-> IF n \in cluster' \ cluster THEN 0 ELSE match_index[n]]
      /\ commit_index' = ci
      /\ UNCHANGED <<role, curr_term, recfg, conn, trouble>>
      /\ UNCHANGED <<server_transfer_leader_to, server_transfer_reply_to, transfer_leader_to, transfer_timer>>
  BY DEF FollowLeader, transferVars
<1>2. /\ log \in Seq(Entries) /\ Len(log) \in Nat /\ k \in 1..Len(log) /\ log[1].cfg # {}
      /\ ci \in Nat /\ cfg_entry_index(log) \in 1..Len(log)
  BY PointerFacts, ReconfigBoundsAssumption DEF IInv, ReconfigInv, ChangeInv, last_entry_index
<1>3. pre \in Seq(Entries) /\ Len(pre) = k /\ \A i \in 1..k : pre[i] = log[i]
  BY <1>2
<1>4. es \in Seq(Entries) /\ (es # <<>> => Len(es) = 1 /\ es[1] \in Entries)
  <2>1. CASE es = <<>>
    BY <2>1
  <2>2. CASE es # <<>>
    <3>1. PICK C \in SUBSET Server : es = <<[term |-> curr_term, cfg |-> C]>>
      BY <2>2 DEF Foreign
    <3>2. [term |-> curr_term, cfg |-> C] \in Entries
      BY DEF Entries, IInv, TypeOK
    <3>3. QED
      BY <3>1, <3>2
  <2>3. QED
    BY <2>1, <2>2
<1> HIDE DEF pre
<1>5. /\ lg \in Seq(Entries) /\ Len(lg) = k + Len(es)
      /\ \A i \in 1..k : lg[i] = log[i]
      /\ es # <<>> => Len(lg) = k + 1 /\ lg[k + 1] = es[1]
      /\ es = <<>> => Len(lg) = k
  <2>1. lg \in Seq(Entries) /\ Len(lg) = k + Len(es) /\ Len(es) \in Nat /\ k \in Nat
    BY SMTT(30), <1>2, <1>3, <1>4
  <2>2. \A i \in 1..k : lg[i] = pre[i]
    BY <1>2, <1>3, <1>4
  <2>3. es # <<>> => lg[k + 1] = es[1]
    BY <1>2, <1>3, <1>4
  <2>4. es = <<>> => Len(es) = 0
    OBVIOUS
  <2>5. es # <<>> => Len(lg) = k + 1
    BY <1>4, <2>1
  <2>6. es = <<>> => Len(lg) = k
    BY <2>1, <2>4
  <2>7. QED
    BY <1>3, <2>1, <2>2, <2>3, <2>5, <2>6
<1> HIDE DEF lg
<1>6. lg[1].cfg # {} /\ 1 \in CfgIndices(lg)
  BY <1>2, <1>5 DEF CfgIndices
<1>7. /\ cfg_entry_index(lg) \in CfgIndices(lg) /\ cfg_entry_index(lg) \in 1..Len(lg)
  BY <1>5, <1>6, LatestConfig
<1>8. lg[cfg_entry_index(lg)].cfg \in SUBSET Server /\ lg[cfg_entry_index(lg)].cfg # {}
  <2>1. lg[cfg_entry_index(lg)].cfg # {}
    BY <1>7 DEF CfgIndices
  <2>2. lg[cfg_entry_index(lg)] \in Entries
    BY <1>5, <1>7
  <2>3. QED
    BY <2>1, <2>2 DEF Entries
<1>9. ClusterIsLatestConfig'
  <2>1. SUFFICES ASSUME "error" \notin trouble PROVE cluster' = lg[cfg_entry_index(lg)].cfg
    BY <1>1 DEF ClusterIsLatestConfig
  <2>2. CASE (es # <<>> /\ es[1].cfg # {}) \/ cfg_entry_index(lg) # cfg_entry_index(log)
    BY <1>1, <2>2 DEF adjust_configuration
  <2>3. CASE ~(es # <<>> /\ es[1].cfg # {}) /\ cfg_entry_index(lg) = cfg_entry_index(log)
    <3>1. cluster' = cluster /\ cluster = log[cfg_entry_index(lg)].cfg
      BY <1>1, <2>1, <2>3 DEF adjust_configuration, IInv, ClusterIsLatestConfig
    <3>2. cfg_entry_index(lg) # k + 1
      BY <1>5, <1>7, <1>8, <2>3
    <3>3. cfg_entry_index(lg) \in 1..k
      BY <1>2, <1>5, <1>7, <3>2
    <3>4. QED
      BY <1>5, <3>1, <3>3
  <2>4. QED
    BY <2>2, <2>3
<1>10. TypeOK'
  <2>1. cluster' \subseteq Server
    BY <1>1, <1>8 DEF adjust_configuration, IInv, TypeOK
  <2>2. match_index' \in [Server -> Nat]
    BY <1>1 DEF IInv, TypeOK
  <2>3. commit_index' \in 1..Len(log')
    BY <1>1, <1>2, <1>5, PointerFacts
  <2>4. QED
    BY <1>1, <1>5, <2>1, <2>2, <2>3 DEF IInv, TypeOK, Entries
<1>11. SessionInv' /\ TransferInv' /\ NobodyForgotten'
  BY <1>1 DEF IInv, ReconfigInv, SessionInv, TransferInv, NobodyForgotten
<1>12. ChangeInv'
  BY <1>1, <1>6 DEF IInv, ReconfigInv, ChangeInv, ChangeInLog
<1>13. TransferPointersValid'
  BY <1>1 DEF IInv, ReconfigInv, TransferInv, TransferPointersValid
<1>14. QED
  BY <1>9, <1>10, <1>11, <1>12, <1>13 DEF IInv, ReconfigInv

\* timeout_now at a leader: what is in progress stays, and the change is one of a term
\* that is over.
LEMMA ServeTimeoutNowKeeps ==
  ASSUME IInv, ServeTimeoutNow
  PROVE  IInv'
<1>1. /\ role' = "STANDING"
      /\ trouble' = trouble \cup IF recfg # Nil THEN {"deposed"} ELSE {}
      /\ UNCHANGED <<curr_term, log, commit_index, cluster, match_index, recfg, conn>>
      /\ UNCHANGED <<server_transfer_leader_to, server_transfer_reply_to, transfer_leader_to, transfer_timer>>
  BY DEF ServeTimeoutNow, transferVars
<1>2. /\ trouble \subseteq trouble'
      /\ recfg # Nil => "deposed" \in trouble' \cap Voiding
      /\ trouble' \cap {"overlap", "error", "removed"} = trouble \cap {"overlap", "error", "removed"}
  BY <1>1 DEF Voiding
<1>3. TypeOK'
  BY <1>1 DEF IInv, TypeOK
<1>4. SessionInv' /\ NobodyForgotten'
  BY <1>1, <1>2 DEF IInv, ReconfigInv, SessionInv, NobodyForgotten
<1>5. TransferInv' /\ TransferPointersValid'
  BY <1>1, <1>2 DEF IInv, ReconfigInv, TransferInv, TransferPointersValid
<1>6. ChangeInv'
  <2>1. trouble' \cap Voiding = {} => recfg = Nil /\ ~ChangeInLog'
    BY <1>1, <1>2 DEF ChangeInLog
  <2>2. QED
    BY <1>1, <2>1 DEF IInv, ReconfigInv, ChangeInv
<1>7. ClusterIsLatestConfig'
  BY <1>1, <1>2 DEF IInv, ClusterIsLatestConfig, CfgIndices, cfg_entry_index
<1>8. QED
  BY <1>3, <1>4, <1>5, <1>6, <1>7 DEF IInv, ReconfigInv

\* step_up: a change that is in progress is one of an earlier leadership, and what is not
\* committed is inherited.
LEMMA StepUpKeeps ==
  ASSUME IInv, StepUp
  PROVE  IInv'
<1> DEFINE done == cluster = {Self} /\ Completes(log, last_entry_index, recfg)
<1>1. /\ role # "LEADER" /\ role' = "LEADER" /\ curr_term' = curr_term + 1
      /\ match_index' = [n \in Server |-> IF n \in cluster THEN 0 ELSE match_index[n]]
      /\ commit_index' = IF cluster = {Self} THEN Len(log) ELSE commit_index
      /\ IF done THEN recfg' = Nil /\ conn' = Answered(conn, recfg.rep, "OK") ELSE UNCHANGED <<recfg, conn>>
      /\ trouble' = trouble \cup IF cfg_entry_index(log) > commit_index' THEN {"inherited"} ELSE {}
      /\ UNCHANGED <<log, cluster, transferVars>>
  BY DEF StepUp, last_entry_index
<1>2. UNCHANGED <<server_transfer_leader_to, server_transfer_reply_to, transfer_leader_to, transfer_timer>>
  BY <1>1 DEF transferVars
<1>3. /\ trouble \subseteq trouble'
      /\ cfg_entry_index(log) > commit_index' => "inherited" \in trouble' \cap Voiding
      /\ trouble' \cap {"overlap", "error", "removed"} = trouble \cap {"overlap", "error", "removed"}
  BY <1>1 DEF Voiding
<1>4. done => recfg # Nil
  BY DEF Completes
<1> HIDE DEF done
<1>5. commit_index' \in 1..Len(log)
  BY <1>1, PointerFacts
<1>6. /\ conn' \in [Conn -> Session] /\ SessionInv' /\ TransferInv' /\ NobodyForgotten'
      /\ TransferPointersValid'
      /\ recfg' \in Reconfigurations \cup {Nil}
  <2>1. CASE done
    <3>1. recfg # Nil /\ recfg' = Nil /\ conn' = Answered(conn, recfg.rep, "OK") /\ "OK" \in Statuses
      BY <1>1, <1>4, <2>1 DEF Statuses
    <3>2. /\ conn' \in [Conn -> Session] /\ SessionInv' /\ TransferInv' /\ NobodyForgotten'
          /\ trouble' \cap {"overlap", "error", "removed"} = {} =>
               /\ server_transfer_reply_to # Nil => ~conn'[server_transfer_reply_to].ready
               /\ transfer_leader_to \subseteq {server_transfer_leader_to}
      BY <1>1, <1>3, <3>1, ChangeEnds
    <3>3. TransferPointersValid'
      BY <1>1, <1>2, <1>3, <3>2 DEF IInv, TransferPointersValid
    <3>4. QED
      BY <3>1, <3>2, <3>3
  <2>2. CASE ~done
    <3>1. recfg' = recfg /\ conn' = conn
      BY <1>1, <2>2
    <3>2. SessionInv' /\ NobodyForgotten' /\ conn' \in [Conn -> Session] /\ recfg' \in Reconfigurations \cup {Nil}
      BY <1>2, <1>3, <3>1 DEF IInv, TypeOK, ReconfigInv, SessionInv, NobodyForgotten
    <3>3. TransferInv' /\ TransferPointersValid'
      BY <1>1, <1>2, <1>3, <3>1 DEF IInv, ReconfigInv, TransferInv, TransferPointersValid
    <3>4. QED
      BY <3>2, <3>3
  <2>3. QED
    BY <2>1, <2>2
<1>7. TypeOK'
  BY <1>1, <1>2, <1>5, <1>6 DEF IInv, TypeOK
<1>8. ChangeInv'
  <2>1. SUFFICES ASSUME trouble' \cap Voiding = {}
                 PROVE  /\ \A i \in CfgIndices(log) : ~(i > commit_index')
                        /\ recfg' = Nil
    BY <1>1 DEF IInv, ReconfigInv, ChangeInv, ChangeInLog
  <2>2. recfg = Nil
    BY <1>1, <1>3, <2>1 DEF IInv, ReconfigInv, ChangeInv
  <2>3. recfg' = Nil
    BY <1>1, <1>4, <2>2
  <2>4. ~(cfg_entry_index(log) > commit_index')
    BY <1>3, <2>1
  <2>5. QED
    BY <1>5, <2>3, <2>4, PointerFacts DEF CfgIndices
<1>9. ClusterIsLatestConfig'
  BY <1>1, <1>3 DEF IInv, ClusterIsLatestConfig, CfgIndices, cfg_entry_index
<1>10. QED
  BY <1>6, <1>7, <1>8, <1>9 DEF IInv, ReconfigInv

-----------------------------------------------------------------------------
(***************************************************************************)
(* The invariants.                                                         *)
(***************************************************************************)
\* The deployed cluster.
LEMMA InitIInv ==
  Init => IInv
<1> SUFFICES ASSUME Init PROVE IInv
  OBVIOUS
<1>0. /\ role = "LEADER" /\ curr_term = 1 /\ cluster = InitialCluster
      /\ log = <<[term |-> 1, cfg |-> cluster]>> /\ commit_index = 1
      /\ match_index = [n \in Server |-> 1] /\ recfg = Nil
      /\ server_transfer_leader_to = Nil /\ server_transfer_reply_to = Nil
      /\ transfer_leader_to = {} /\ transfer_timer = Nil
      /\ conn = [c \in Conn |-> FreshSession] /\ trouble = {}
  BY DEF Init
<1>1. Self \in InitialCluster /\ InitialCluster \subseteq Server
  BY SelfAssumption
<1>2. log \in Seq(Entries) /\ Len(log) = 1 /\ log[1].cfg = cluster /\ cluster # {}
  BY <1>0, <1>1 DEF Entries
<1>3. CfgIndices(log) = {1}
  BY <1>2 DEF CfgIndices
<1>4. cfg_entry_index(log) = 1
  <2>1. 1 \in CfgIndices(log) /\ \A j \in CfgIndices(log) : j <= 1
    BY <1>3
  <2>2. QED
    BY <1>2, <2>1, LatestConfigIs
<1>5. FreshSession \in Session /\ FreshSession.phase = "idle" /\ FreshSession.ready
  <2>1. FreshSession.phase = "idle"
    BY DEF FreshSession
  <2>2. FreshSession.ready
    BY DEF FreshSession
  <2>3. QED
    BY <2>1, <2>2, ConstantSessions
<1>6. SessionOK(FreshSession)
  BY <1>5 DEF SessionOK
<1>7. TypeOK
  BY <1>0, <1>1, <1>2, <1>5 DEF TypeOK, Entries
<1>8. SessionInv /\ TransferInv /\ NobodyForgotten /\ TransferPointersValid
  BY <1>0, <1>5, <1>6 DEF SessionInv, TransferInv, NobodyForgotten, TransferPointersValid
<1>9. ChangeInv
  BY <1>0, <1>2, <1>3 DEF ChangeInv, ChangeInLog
<1>10. ClusterIsLatestConfig
  BY <1>2, <1>4 DEF ClusterIsLatestConfig
<1>11. QED
  BY <1>7, <1>8, <1>9, <1>10 DEF IInv, ReconfigInv

\* Every step keeps the inductive invariant.
LEMMA NextIInv ==
  IInv /\ [Next]_vars => IInv'
<1> SUFFICES ASSUME IInv, [Next]_vars PROVE IInv'
  OBVIOUS
<1>1. CASE UNCHANGED vars
  <2>1. /\ UNCHANGED <<role, curr_term, log, commit_index, cluster, match_index, recfg, conn, trouble>>
        /\ UNCHANGED <<server_transfer_leader_to, server_transfer_reply_to, transfer_leader_to, transfer_timer>>
    BY <1>1 DEF vars, raftVars, transferVars
  <2>2. QED
    BY ZenonT(40), <2>1 DEF IInv, TypeOK, ReconfigInv, SessionInv, TransferInv, ChangeInv, ChangeInLog, CfgIndices,
                cfg_entry_index, ClusterIsLatestConfig, NobodyForgotten, TransferPointersValid
<1>2. ASSUME NEW c \in Conn, Request(c) PROVE IInv'
  <2>1. PICK n \in Server :
          \/ AddServer(c, n)
          \/ RefuseDelServer(c, n)
          \/ DelServerFails(c, n)
          \/ DelOther(c, n)
          \/ LeadershipTransfer(c, n)
          \/ n = Self /\ DelSelf(c)
    BY <1>2 DEF Request
  <2>2. CASE RefuseDelServer(c, n)
    <3>1. DelRefusal(n) \in Statuses
      BY <2>2, DelAccepted DEF RefuseDelServer
    <3>2. QED
      BY <2>2, <3>1, RefusalKeeps DEF RefuseDelServer
  <2>3. QED
    BY <2>1, <2>2, AddServerKeeps, DelServerFailsKeeps, DelOtherKeeps, LeadershipTransferKeeps, DelSelfKeeps
<1>3. ASSUME NEW c \in Conn, OnReadSome(c) PROVE IInv'
  BY <1>3, OnReadSomeKeeps
<1>4. CASE HandleAppend
  BY <1>4, HandleAppendKeeps
<1>5. ASSUME NEW n \in Server, NEW m \in 0..last_entry_index, AppendEntriesSucceeded(n, m) PROVE IInv'
  BY <1>5, AppendEntriesSucceededKeeps
<1>6. ASSUME NEW n \in Server, AppendEntriesFailed(n) PROVE IInv'
  BY <1>6, AppendEntriesFailedKeeps
<1>7. CASE OnLeadershipTransferTimeout
  BY <1>7, TransferTimeoutKeeps
<1>8. CASE StepDown
  BY <1>8, StepDownKeeps
<1>9. ASSUME NEW k \in 1..last_entry_index, NEW es \in Foreign, NEW ci \in 1..MaxLog, FollowLeader(k, es, ci)
      PROVE  IInv'
  BY <1>9, FollowLeaderKeeps
<1>10. CASE StepUp
  BY <1>10, StepUpKeeps
<1>11. CASE ServeTimeoutNow
  BY <1>11, ServeTimeoutNowKeeps
<1>12. QED
  BY <1>1, <1>2, <1>3, <1>4, <1>5, <1>6, <1>7, <1>8, <1>9, <1>10, <1>11 DEF Next

\* The inductive invariant holds in every reachable state.
LEMMA IInvHolds ==
  Spec => []IInv
BY InitIInv, NextIInv, PTL DEF Spec

-----------------------------------------------------------------------------
(***************************************************************************)
(* What OK means.                                                          *)
(***************************************************************************)
\* When the latest configuration is committed, it is the committed one.
LEMMA CommittedIsLatest ==
  ASSUME NEW lg \in Seq(Entries), CfgIndices(lg) # {}, NEW ci \in Nat, cfg_entry_index(lg) <= ci
  PROVE  Max({i \in CfgIndices(lg) : i <= ci}) = cfg_entry_index(lg)
<1>1. \A i \in CfgIndices(lg) : i \in Nat /\ i <= cfg_entry_index(lg) /\ cfg_entry_index(lg) \in Nat
  BY LatestConfig DEF CfgIndices
<1>2. \A i \in CfgIndices(lg) : i <= ci
  BY <1>1
<1>3. {i \in CfgIndices(lg) : i <= ci} = CfgIndices(lg)
  BY <1>2
<1>4. QED
  BY <1>3 DEF cfg_entry_index

\* An answer other than OK, or none, to one session at most.
LEMMA OtherAnswers ==
  ASSUME NEW c \in Conn, NEW q \in Conn, conn'[c].body = "OK", conn[c].body # "OK",
         \A d \in Conn : d # q => conn'[d] = conn[d], conn'[q].body # "OK"
  PROVE  FALSE
OBVIOUS

\* The handler of a request answers OK itself only when it has removed the other server.
LEMMA RequestOk ==
  ASSUME IInv, NEW q \in Conn, Request(q), NEW c \in Conn, conn'[c].body = "OK", conn[c].body # "OK"
  PROVE  Achieved(c)'
<1>1. conn \in [Conn -> Session] /\ "OK" # Nil
  BY PointerFacts, NoneAssumption DEF Statuses
<1>2. ASSUME NEW status \in Statuses \ {"OK"}, conn' = Refused(q, status) PROVE FALSE
  <2>1. /\ \A d \in Conn : d # q => conn'[d] = conn[d]
        /\ conn'[q].body # "OK"
    BY <1>1, <1>2, RefusedEffect
  <2>2. QED
    BY <2>1, OtherAnswers
<1>3. ASSUME NEW op \in {"add", "del", "transfer"}, NEW n \in Server, Idle(q), conn' = Waiting(q, op, n)
      PROVE  FALSE
  <2>1. /\ \A d \in Conn : d # q => conn'[d] = conn[d]
        /\ conn'[q].body = Nil
    BY <1>3, WaitingSessions
  <2>2. QED
    BY <1>1, <2>1, OtherAnswers
<1>4. PICK n \in Server :
        \/ AddServer(q, n)
        \/ RefuseDelServer(q, n)
        \/ DelServerFails(q, n)
        \/ DelOther(q, n)
        \/ LeadershipTransfer(q, n)
        \/ n = Self /\ DelSelf(q)
  BY DEF Request
<1>5. "ERROR" \in Statuses \ {"OK"} /\ Idle(q)
  BY <1>4 DEF Statuses, AddServer, RefuseDelServer, DelServerFails, DelOther, LeadershipTransfer, DelSelf
<1>6. CASE AddServer(q, n)
  BY <1>2, <1>3, <1>5, <1>6, AddAccepted DEF AddServer
<1>7. CASE RefuseDelServer(q, n)
  BY <1>2, <1>7, DelAccepted DEF RefuseDelServer
<1>8. CASE DelServerFails(q, n)
  BY <1>2, <1>5, <1>8 DEF DelServerFails
<1>9. CASE LeadershipTransfer(q, n)
  BY <1>2, <1>3, <1>5, <1>9, TransferAccepted DEF LeadershipTransfer
<1>10. CASE DelSelf(q)
  <2>1. conn' = Waiting(q, "del", Self) \/ conn' = Refused(q, "ERROR")
    BY <1>10 DEF DelSelf
  <2>2. QED
    BY <1>2, <1>3, <1>5, <2>1, SelfAssumption
<1>11. CASE DelOther(q, n)
  <2> DEFINE e == Entry(cluster \ {n})
             rc == Reconfiguration("removal", n, q)
  <2>1. /\ log' = Append(log, e)
        /\ IF Completes(log', commit_index', rc)
             THEN conn' = CompletedAtOnce(q, "del", n, "OK")
             ELSE conn' = Waiting(q, "del", n)
        /\ commit_index' = IF cluster \ {n} = {Self} THEN Len(log') ELSE commit_index
    BY <1>11 DEF DelOther
  <2>2. Completes(log', commit_index', rc) /\ conn' = CompletedAtOnce(q, "del", n, "OK")
    BY <1>3, <1>5, <2>1
  <2>3. cluster \subseteq Server /\ cluster \ {n} # {}
    BY <1>11, DelAccepted DEF IInv, TypeOK, DelOther
  <2>4. e \in Entries /\ e.cfg = cluster \ {n}
    BY <2>3, EntryFields DEF IInv
  <2> HIDE DEF e
  <2>5. /\ log' \in Seq(Entries) /\ Len(log') = Len(log) + 1 /\ Len(log) \in Nat /\ commit_index \in Nat
    BY <2>1, <2>4, AppendKeepsEntries, PointerFacts
  <2>6. /\ CfgIndices(log') = CfgIndices(log) \cup {Len(log) + 1}
        /\ cfg_entry_index(log') = Len(log) + 1
        /\ log'[Len(log) + 1].cfg = cluster \ {n}
    BY <2>1, <2>3, <2>4, PointerFacts, AppendConfig
  <2>7. cfg_entry_index(log') <= commit_index' /\ commit_index' \in Nat
    BY <2>1, <2>2, <2>5 DEF Completes
  <2>8. CommittedConfig' = cluster \ {n}
    BY <2>5, <2>6, <2>7, CommittedIsLatest DEF CommittedConfig
  <2>9. /\ \A d \in Conn : d # q => conn'[d] = conn[d]
        /\ conn'[q].op = "del" /\ conn'[q].server = n
    BY <1>1, <2>2, CompletedAtOnceEffect DEF Statuses
  <2>10. c = q
    BY <2>9
  <2>11. QED
    BY <2>8, <2>9, <2>10 DEF Achieved
<1>12. QED
  BY <1>4, <1>6, <1>7, <1>8, <1>9, <1>10, <1>11

\* A catch-up round answers with ERROR or TIMEOUT only.
LEMMA CatchUpOk ==
  ASSUME IInv, NEW n \in Server, NEW mt, newly(n, recfg), handle_catch_up(n, mt, recfg, conn),
         NEW c \in Conn, conn'[c].body = "OK", conn[c].body # "OK"
  PROVE  FALSE
<1>1. conn' = conn \/ \E status \in Statuses \ {"OK"} : conn' = Answered(conn, recfg.rep, status)
  BY DEF handle_catch_up, Statuses
<1>2. PICK status \in Statuses \ {"OK"} : conn' = Answered(conn, recfg.rep, status)
  BY <1>1
<1> DEFINE q == recfg.rep
<1>3. q \in Conn /\ ~conn[q].ready /\ conn \in [Conn -> Session] /\ SessionOK(conn[q])
  BY PointerFacts DEF newly
<1> HIDE DEF q
<1>4. conn' = Answered(conn, q, status)
  BY <1>2 DEF q
<1>5. /\ \A d \in Conn : d # q => conn'[d] = conn[d]
      /\ conn'[q].body = status
  BY <1>3, <1>4, AnsweredEffect
<1>6. QED
  BY <1>3, <1>5, OtherAnswers

\* adjust_commit_index answers OK when the latest configuration, that of the change, has
\* been committed.
LEMMA CompletionOk ==
  ASSUME IInv, trouble \cap Voiding = {}, role = "LEADER", Completes(log, commit_index', recfg),
         commit_index' \in Nat, UNCHANGED log, conn' = Answered(conn, recfg.rep, "OK"),
         NEW c \in Conn, conn'[c].body = "OK", conn[c].body # "OK"
  PROVE  Achieved(c)'
<1> DEFINE q == recfg.rep
<1>1. recfg # Nil /\ commit_index < cfg_entry_index(log) /\ cfg_entry_index(log) <= commit_index'
  BY DEF Completes
<1>2. /\ q \in Conn /\ ~conn[q].ready /\ conn \in [Conn -> Session] /\ SessionOK(conn[q]) /\ "OK" \in Statuses
      /\ recfg.type \in {"addition", "removal"}
  BY <1>1, PointerFacts, InProgressFields DEF Statuses, IInv, TypeOK
<1>3. /\ \A d \in Conn : d # q => conn'[d] = conn[d]
      /\ conn'[q].op = conn[q].op /\ conn'[q].server = conn[q].server
  BY <1>2, AnsweredEffect
<1>4. c = q
  BY <1>3
<1>5. /\ conn'[c].op = IF recfg.type = "addition" THEN "add" ELSE "del"
      /\ conn'[c].server = recfg.n
  BY <1>1, <1>3, <1>4 DEF IInv, ReconfigInv, SessionInv
<1>6. ChangeInLog
  BY <1>1, PointerFacts DEF IInv, ReconfigInv, ChangeInv
<1>7. recfg.n \in cluster <=> recfg.type = "addition"
  BY <1>6 DEF IInv, ReconfigInv, ChangeInv
<1>8. cluster = log[cfg_entry_index(log)].cfg
  BY DEF IInv, ClusterIsLatestConfig, Voiding
<1>9. CommittedConfig' = cluster
  <2>1. Max({i \in CfgIndices(log) : i <= commit_index'}) = cfg_entry_index(log)
    BY <1>1, PointerFacts, CommittedIsLatest
  <2>2. CommittedConfig' = log'[Max({i \in CfgIndices(log') : i <= commit_index'})].cfg
    BY DEF CommittedConfig
  <2>3. QED
    BY <1>8, <2>1, <2>2
<1>10. QED
  BY <1>2, <1>5, <1>7, <1>9 DEF Achieved

\* step_down answers OK to who asked for the end of this leadership: a transfer, or the
\* removal of the leader itself.
LEMMA StepDownOk ==
  ASSUME IInv, "overlap" \notin trouble, StepDown, NEW c \in Conn, conn'[c].body = "OK", conn[c].body # "OK"
  PROVE  Achieved(c)'
<1> DEFINE r == server_transfer_reply_to
<1>1. role' = "FOLLOWER"
  BY DEF StepDown
<1>2. /\ r # Nil /\ ~conn[r].ready
      /\ conn' = Answered(conn, r, "OK")
  <2>1. CASE server_transfer_leader_to # Nil /\ recfg # Nil /\ recfg.type = "removal"
    <3>1. recfg.rep = r
      BY <2>1 DEF IInv, ReconfigInv, TransferInv
    <3>2. conn' = Answered(conn, recfg.rep, "OK")
      BY <2>1 DEF StepDown
    <3>3. r # Nil
      BY <2>1 DEF IInv, ReconfigInv, TransferInv
    <3>4. QED
      BY <2>1, <3>1, <3>2, <3>3, PointerFacts
  <2>2. CASE ~(server_transfer_leader_to # Nil /\ recfg # Nil /\ recfg.type = "removal")
    BY <2>2 DEF StepDown, ReplyDue
  <2>3. QED
    BY <2>1, <2>2
<1>3. r \in Conn
  BY <1>2, PointerFacts
<1>4. conn[r].op = "transfer" \/ (conn[r].op = "del" /\ conn[r].server = Self)
  BY <1>2 DEF IInv, ReconfigInv, SessionInv
<1> HIDE DEF r
<1>5. conn \in [Conn -> Session] /\ SessionOK(conn[r]) /\ "OK" \in Statuses
  BY <1>3, PointerFacts DEF Statuses
<1>6. /\ \A d \in Conn : d # r => conn'[d] = conn[d]
      /\ conn'[r].op = conn[r].op /\ conn'[r].server = conn[r].server
  BY <1>2, <1>3, <1>5, AnsweredEffect
<1>7. c = r
  BY <1>6
<1>8. QED
  BY <1>1, <1>4, <1>6, <1>7 DEF Achieved

\* No step answers OK before its time.
LEMMA StepOk ==
  ASSUME IInv, Next, trouble \cap (Voiding \cup {"overlap"}) = {},
         NEW c \in Conn, conn'[c].body = "OK", conn[c].body # "OK"
  PROVE  Achieved(c)'
<1>0. trouble \cap Voiding = {} /\ "overlap" \notin trouble
  OBVIOUS
<1>1. CASE \E q \in Conn : Request(q)
  BY <1>1, RequestOk
<1>2. ASSUME NEW q \in Conn, OnReadSome(q) PROVE FALSE
  <2>1. conn \in [Conn -> Session] /\ "OK" # Nil
    BY PointerFacts, NoneAssumption DEF Statuses
  <2>2. (\A d \in Conn : d # q => conn'[d] = conn[d]) /\ conn'[q].body = Nil
    BY <1>2, <2>1, FinishedEffect DEF OnReadSome
  <2>3. QED
    BY <2>1, <2>2, OtherAnswers
<1>3. CASE HandleAppend
  BY <1>3 DEF HandleAppend
<1>4. ASSUME NEW n \in Server, NEW m \in 0..last_entry_index, AppendEntriesSucceeded(n, m)
      PROVE  Achieved(c)'
  <2> DEFINE mt == [match_index EXCEPT ![n] = m]
  <2>1. mt \in [Server -> Nat]
    BY PointerFacts DEF IInv, TypeOK, last_entry_index
  <2>2. commit_index' = CommitAfter(log, cluster, mt) /\ role = "LEADER"
    BY <1>4 DEF AppendEntriesSucceeded
  <2> HIDE DEF mt
  <2>3. commit_index' \in Nat
    <3>1. CommitAfter(log, cluster, mt) \in commit_index..Len(log)
      BY <2>1, CommitAfterWithinLog DEF IInv
    <3>2. commit_index \in Nat /\ Len(log) \in Nat
      BY PointerFacts
    <3>3. QED
      BY <2>2, <3>1, <3>2
  <2>4. \/ Completes(log, commit_index', recfg) /\ conn' = Answered(conn, recfg.rep, "OK") /\ UNCHANGED log
        \/ newly(n, recfg) /\ handle_catch_up(n, mt, recfg, conn)
        \/ conn' = conn
    BY <1>4, <2>2 DEF AppendEntriesSucceeded, newly, mt
  <2>5. QED
    BY <1>0, <2>2, <2>3, <2>4, CompletionOk, CatchUpOk
<1>5. ASSUME NEW n \in Server, AppendEntriesFailed(n) PROVE FALSE
  BY <1>5, CatchUpOk DEF AppendEntriesFailed
<1>6. CASE OnLeadershipTransferTimeout
  <2> DEFINE r == server_transfer_reply_to
  <2>1. \/ recfg # Nil /\ conn' = Answered(conn, recfg.rep, "TIMEOUT")
        \/ r # Nil /\ ~conn[r].ready /\ conn' = Answered(conn, r, "TIMEOUT")
        \/ conn' = conn
    BY <1>6 DEF OnLeadershipTransferTimeout, ReplyDue
  <2>2. PICK q \in Conn : ~conn[q].ready /\ conn' = Answered(conn, q, "TIMEOUT")
    BY <2>1, PointerFacts
  <2>3. conn \in [Conn -> Session] /\ SessionOK(conn[q]) /\ "TIMEOUT" \in Statuses
    BY PointerFacts DEF Statuses
  <2>4. (\A d \in Conn : d # q => conn'[d] = conn[d]) /\ conn'[q].body = "TIMEOUT"
    BY <2>2, <2>3, AnsweredEffect
  <2>5. QED
    BY <2>4, OtherAnswers
<1>7. CASE StepDown
  BY <1>0, <1>7, StepDownOk
<1>8. CASE \E k \in 1..last_entry_index, es \in Foreign, ci \in 1..MaxLog : FollowLeader(k, es, ci)
  <2>1. conn' = conn
    BY <1>8 DEF FollowLeader
  <2>2. QED
    BY <2>1
<1>9. CASE StepUp
  <2>1. recfg = Nil
    BY <1>0, <1>9 DEF StepUp, IInv, ReconfigInv, ChangeInv
  <2>2. conn' = conn
    BY <1>9, <2>1 DEF StepUp, Completes
  <2>3. QED
    BY <2>2
<1>10. CASE ServeTimeoutNow
  BY <1>10 DEF ServeTimeoutNow
<1>11. QED
  BY <1>1, <1>2, <1>3, <1>4, <1>5, <1>6, <1>7, <1>8, <1>9, <1>10 DEF Next

-----------------------------------------------------------------------------
(***************************************************************************)
(* The results.                                                            *)
(***************************************************************************)
\* Every variable keeps its type: in particular the committed part of the log is in the
\* log, whatever is appended, chopped and committed (adjust_commit_index).
THEOREM ReconfigTypes == Spec => []TypeOK
<1>1. IInv => TypeOK
  BY DEF IInv
<1>2. QED
  BY <1>1, IInvHolds, PTL

\* Who is owed an answer, how a transfer and a change depend on each other, and what is
\* not committed of configurations: the inductive invariant behind the others.
THEOREM ReconfigConsistent == Spec => []ReconfigInv
<1>1. IInv => ReconfigInv
  BY DEF IInv
<1>2. QED
  BY <1>1, IInvHolds, PTL

\* A server counts with the nodes of the latest configuration of its log, as leader and as
\* follower, unless an append failed (add_server, del_server, adjust_configuration).
THEOREM CountsWithLatestConfig == Spec => []ClusterIsLatestConfig
<1>1. IInv => ClusterIsLatestConfig
  BY DEF IInv
<1>2. QED
  BY <1>1, IInvHolds, PTL

\* A leader has at most one configuration entry that is not committed (recfg of add_server
\* and del_server keeps the second change out).
THEOREM ChangesOneByOne == Spec => []OneChangeAtATime
<1>1. IInv => OneChangeAtATime
  <2> SUFFICES ASSUME IInv, role = "LEADER", trouble \cap Voiding = {}
               PROVE  Cardinality({i \in CfgIndices(log) : i > commit_index}) <= 1
    BY DEF OneChangeAtATime
  <2> DEFINE U == {i \in CfgIndices(log) : i > commit_index}
             L == {cfg_entry_index(log)}
  <2>1. U \subseteq L
    BY DEF IInv, ReconfigInv, ChangeInv
  <2>2. IsFiniteSet(L) /\ Cardinality(L) = 1
    BY FS_Singleton
  <2>3. Cardinality(U) <= 1
    BY <2>1, <2>2, FS_Subset
  <2>4. QED
    BY <2>3
<1>2. QED
  BY <1>1, IInvHolds, PTL

\* Nobody waits for an answer that nobody will give, unless a transfer and a change of
\* membership overlap (recfg->rep and server_transfer_reply_to).
THEOREM EveryWaiterIsOwed == Spec => []NobodyForgotten
<1>1. IInv => NobodyForgotten
  BY DEF IInv
<1>2. QED
  BY <1>1, IInvHolds, PTL

\* The pointers of a transfer are valid and only its target is flagged
\* (leadership_transfer, its timer and step_down).
THEOREM TransferStaysValid == Spec => []TransferPointersValid
<1>1. IInv => TransferPointersValid
  BY DEF IInv
<1>2. QED
  BY <1>1, IInvHolds, PTL

\* OK is answered only to who got what he asked for: a committed configuration, or the end
\* of this leadership for a transfer and the removal of the leader (adjust_commit_index,
\* step_down); as long as a transfer and a change of membership do not overlap.
THEOREM OkIsEarned == Spec => OkMeansDone
<1>1. IInv /\ [Next]_vars =>
        [\A c \in Conn : conn'[c].body = "OK" /\ conn[c].body # "OK" /\ trouble \cap (Voiding \cup {"overlap"}) = {}
           => Achieved(c)']_vars
  BY StepOk
<1>2. QED
  BY <1>1, IInvHolds, PTL DEF Spec, OkMeansDone

=============================================================================
