------------------------------ MODULE Reconfig ------------------------------
(***************************************************************************)
(* Membership change and leadership transfer at one server, Self           *)
(* (raft_impl.hpp: add_server, del_server, leadership_transfer and what    *)
(* their callbacks and timers do), with the HTTP sessions that wait for    *)
(* the outcome (config_server.hpp).  All of it runs on one thread.         *)
(*                                                                         *)
(* The other servers are an environment: they answer append_entries in any *)
(* order, let calls fail, start elections, and lead while Self follows.    *)
(* Log compaction is off.                                                  *)
(***************************************************************************)
EXTENDS Integers, Sequences, FiniteSets, FiniteSetsExt

CONSTANTS
  Server, Self,
  InitialCluster,           \* the members of the deployed cluster
  Nil,                      \* a null pointer, an empty body
  Conn,                     \* HTTP connections, one request each
  server_catch_up_rounds,   \* raft.conf
  MaxLag,                   \* entries a new server may be behind
  MaxLog,                   \* bound: no entry of Self beyond this index
  MaxTerm                   \* bound: no term beyond this one

ASSUME SelfAssumption == Self \in InitialCluster /\ InitialCluster \subseteq Server /\ IsFiniteSet(Server)
ASSUME RoundsAssumption == server_catch_up_rounds \in Nat \ {0} /\ MaxLag \in Nat
ASSUME ReconfigBoundsAssumption == MaxLog \in Nat /\ MaxTerm \in Nat

VARIABLES
  role,                       \* STANDING: FOLLOWER in a round of its own, without a newer term
  curr_term,
  log,                        \* entries; cfg is the set of servers, {} for a command
  commit_index,
  cluster,                    \* the nodes Self counts with
  match_index,
  recfg,                      \* the reconfiguration in progress, or Nil
  server_transfer_leader_to,  \* the node leadership is being handed to, or Nil
  server_transfer_reply_to,   \* the connection that waits for it, or Nil
  transfer_leader_to,         \* nodes whose flag of that name is set
  transfer_timer,             \* the node the armed timer is about, or Nil
  conn,                       \* the session of each connection
  trouble                     \* history: what has gone wrong so far

raftVars == <<role, curr_term, log, commit_index, cluster, match_index>>
transferVars == <<server_transfer_leader_to, server_transfer_reply_to, transfer_leader_to, transfer_timer>>
vars == <<raftVars, recfg, transferVars, conn, trouble>>

-----------------------------------------------------------------------------
(***************************************************************************)
(* Sessions.  A request is dispatched when it is read; a session whose     *)
(* response is not ready waits for a byte on its local socket pair.        *)
(***************************************************************************)
Statuses == {"OK", "TIMEOUT", "ERROR", "NOT_LEADER", "IN_CFG", "NOT_IN_CFG", "INPROGRESS", "UNIQUE_SERVER"}

Session ==
  [phase : {"idle", "waiting", "done"}, op : {"add", "del", "transfer", Nil}, server : Server \cup {Nil},
   ready : BOOLEAN, bytes : 0..1, body : Statuses \cup {Nil}]

FreshSession == [phase |-> "idle", op |-> Nil, server |-> Nil, ready |-> TRUE, bytes |-> 0, body |-> Nil]
Finished == [FreshSession EXCEPT !.phase = "done"]

\* prepare and response::do_write of the waiting session c.
Answered(cs, c, status) ==
  [cs EXCEPT ![c].body = status, ![c].ready = TRUE, ![c].bytes = @ + 1]

\* on_read, with the handler's outcome: the response is ready and written, or not.
Refused(c, status) == [conn EXCEPT ![c] = [Finished EXCEPT !.body = status]]

Waiting(c, op, n) ==
  [conn EXCEPT ![c] = [@ EXCEPT !.phase = "waiting", !.op = op, !.server = n, !.ready = FALSE]]

\* The handler has answered c itself, before on_read looks whether the response is ready:
\* it is written, and the byte stays on the local socket.
CompletedAtOnce(c, op, n, status) ==
  [conn EXCEPT ![c] = [Finished EXCEPT !.op = op, !.server = n, !.bytes = 1, !.body = status]]

\* on_read_some: the byte has arrived and the response is written.
OnReadSome(c) ==
  /\ conn[c].phase = "waiting"
  /\ conn[c].bytes > 0
  /\ conn' = [conn EXCEPT ![c] = Finished]
  /\ UNCHANGED <<raftVars, recfg, transferVars, trouble>>

-----------------------------------------------------------------------------
(***************************************************************************)
(* The log of Self and what of it is committed.                            *)
(***************************************************************************)
last_entry_index == Len(log)

CfgIndices(lg) == {i \in DOMAIN lg : lg[i].cfg # {}}
cfg_entry_index(lg) == Max(CfgIndices(lg))

Entry(cfg) == [term |-> curr_term, cfg |-> cfg]

Reconfigurations ==
  [type : {"addition", "removal"}, n : Server, rounds : Nat, entry_added : BOOLEAN, rep : Conn]

ASSUME NoneAssumption == Nil \notin Server \cup Conn \cup Statuses \cup Reconfigurations

Reconfiguration(type, n, c) == [type |-> type, n |-> n, rounds |-> 0, entry_added |-> FALSE, rep |-> c]

\* adjust_commit_index: nodes whose match_index is new and of this term span the range
\* in which an index that more than half of the cluster has is looked for.
Counted(cl, mt) ==
  {n \in cl \ {Self} : mt[n] > commit_index /\ log[mt[n]].term = curr_term}

Supporters(cl, mt, i) == (cl \cap {Self}) \cup {n \in cl \ {Self} : mt[n] >= i}

MajorityAt(cl, mt) ==
  LET M == {mt[n] : n \in Counted(cl, mt)}
  IN {i \in 1..last_entry_index : M # {} /\ i >= Min(M) /\ i <= Max(M)
        /\ Cardinality(Supporters(cl, mt, i)) > Cardinality(cl) \div 2}

CommitAfter(lg, cl, mt) ==
  IF cl = {Self} THEN Len(lg)
  ELSE IF MajorityAt(cl, mt) = {} THEN commit_index ELSE Max(MajorityAt(cl, mt))

\* Mutant: an old configuration entry completes the change.
CompletesAgain(lg, ci, rc) == rc # Nil /\ cfg_entry_index(lg) <= ci

\* The end of adjust_commit_index: the latest configuration entry has just been committed.
Completes(lg, ci, rc) ==
  /\ rc # Nil
  /\ commit_index < cfg_entry_index(lg)
  /\ cfg_entry_index(lg) <= ci

-----------------------------------------------------------------------------
\* A deployed cluster that Self leads, with all of its log committed.
Init ==
  /\ role = "LEADER"
  /\ curr_term = 1
  /\ cluster = InitialCluster
  /\ log = <<[term |-> 1, cfg |-> cluster]>>
  /\ commit_index = 1
  /\ match_index = [n \in Server |-> 1]
  /\ recfg = Nil
  /\ server_transfer_leader_to = Nil
  /\ server_transfer_reply_to = Nil
  /\ transfer_leader_to = {}
  /\ transfer_timer = Nil
  /\ conn = [c \in Conn |-> FreshSession]
  /\ trouble = {}

\* handle_append and append: a command of a client.
HandleAppend ==
  /\ role = "LEADER"
  /\ last_entry_index < MaxLog
  /\ log' = Append(log, Entry({}))
  /\ UNCHANGED <<role, curr_term, commit_index, cluster, match_index, recfg, transferVars, conn, trouble>>

-----------------------------------------------------------------------------
(***************************************************************************)
(* Requests.                                                               *)
(***************************************************************************)
Idle(c) == conn[c].phase = "idle"

\* Mutant: one change is not kept from another.
NeverInProgress == FALSE

InProgress == recfg # Nil

AddRefusal(n) ==
  CASE role # "LEADER" -> "NOT_LEADER"
    [] role = "LEADER" /\ n \in cluster -> "IN_CFG"
    [] role = "LEADER" /\ n \notin cluster /\ InProgress -> "INPROGRESS"
    [] OTHER -> Nil

\* make_node gives the new server a match_index of 0 and the first round of replication
\* to it begins.  A removed leader that is asked to add itself is not followed.
AddServer(c, n) ==
  /\ Idle(c)
  /\ \/ /\ AddRefusal(n) # Nil
        /\ conn' = Refused(c, AddRefusal(n))
        /\ UNCHANGED <<recfg, match_index>>
     \/ /\ AddRefusal(n) = Nil
        /\ n # Self
        /\ conn' = Waiting(c, "add", n)
        /\ recfg' = Reconfiguration("addition", n, c)
        /\ match_index' = [match_index EXCEPT ![n] = 0]
  /\ UNCHANGED <<role, curr_term, log, commit_index, cluster, transferVars, trouble>>

DelRefusal(n) ==
  CASE role # "LEADER" -> "NOT_LEADER"
    [] role = "LEADER" /\ n \notin cluster -> "NOT_IN_CFG"
    [] role = "LEADER" /\ n \in cluster /\ InProgress -> "INPROGRESS"
    [] role = "LEADER" /\ cluster = {n} /\ ~InProgress -> "UNIQUE_SERVER"
    [] OTHER -> Nil

RefuseDelServer(c, n) ==
  /\ Idle(c)
  /\ DelRefusal(n) # Nil
  /\ conn' = Refused(c, DelRefusal(n))
  /\ UNCHANGED <<raftVars, recfg, transferVars, trouble>>

\* The node is gone from cluster when the append of the configuration entry fails.
DelServerFails(c, n) ==
  /\ Idle(c)
  /\ DelRefusal(n) = Nil
  /\ cluster' = cluster \ {n}
  /\ conn' = Refused(c, "ERROR")
  /\ trouble' = trouble \cup {"error"}
  /\ UNCHANGED <<role, curr_term, log, commit_index, match_index, recfg, transferVars>>

\* Another server: the entry goes out, and is committed at once when Self is alone.
DelOther(c, n) ==
  LET lg == Append(log, Entry(cluster \ {n}))
      rc == Reconfiguration("removal", n, c)
      ci == IF cluster \ {n} = {Self} THEN Len(lg) ELSE commit_index
  IN
  /\ Idle(c)
  /\ DelRefusal(n) = Nil
  /\ n # Self
  /\ last_entry_index < MaxLog
  /\ cluster' = cluster \ {n}
  /\ log' = lg
  /\ commit_index' = ci
  /\ IF Completes(lg, ci, rc)
       THEN /\ recfg' = Nil
            /\ conn' = CompletedAtOnce(c, "del", n, "OK")
       ELSE /\ recfg' = rc
            /\ conn' = Waiting(c, "del", n)
  /\ trouble' = trouble \cup IF server_transfer_leader_to # Nil THEN {"overlap"} ELSE {}
  /\ UNCHANGED <<role, curr_term, match_index, transferVars>>

\* latest_server: any of the nodes with the greatest match_index, Self if there is none.
LatestServers(cl) ==
  IF cl \ {Self} = {} THEN {Self}
  ELSE {n \in cl \ {Self} : \A k \in cl \ {Self} : match_index[k] <= match_index[n]}

TransferRefusal(n, cl) ==
  CASE role # "LEADER" -> "NOT_LEADER"
    [] role = "LEADER" /\ server_transfer_leader_to # Nil -> "INPROGRESS"
    [] role = "LEADER" /\ server_transfer_leader_to = Nil /\ n = Self -> "IN_CFG"
    [] role = "LEADER" /\ server_transfer_leader_to = Nil /\ n \notin cl \cup {Self} -> "NOT_IN_CFG"
    [] OTHER -> Nil

\* The part of leadership_transfer behind its checks: a target that has the whole log is
\* told to start an election (timeout_now), with no timer; another is brought up to date
\* first, and told when it is.
begin_transfer(c, n, last) ==
  /\ transfer_leader_to' = transfer_leader_to \cup {n}
  /\ server_transfer_leader_to' = n
  /\ server_transfer_reply_to' = c
  /\ transfer_timer' = IF match_index[n] = last THEN transfer_timer ELSE n

LeadershipTransfer(c, n) ==
  /\ Idle(c)
  /\ \/ /\ TransferRefusal(n, cluster) # Nil
        /\ conn' = Refused(c, TransferRefusal(n, cluster))
        /\ UNCHANGED <<transferVars, trouble>>
     \/ /\ TransferRefusal(n, cluster) = Nil
        /\ begin_transfer(c, n, last_entry_index)
        /\ conn' = Waiting(c, "transfer", n)
        /\ trouble' = trouble \cup IF recfg # Nil THEN {"overlap"} ELSE {}
  /\ UNCHANGED <<raftVars, recfg>>

\* Self: the entry is appended, then leadership is handed to the latest server; if that
\* is refused the answer is ERROR, and the entry stays.
DelSelf(c) ==
  LET cl == cluster \ {Self} IN
  /\ Idle(c)
  /\ DelRefusal(Self) = Nil
  /\ last_entry_index < MaxLog
  /\ cluster' = cl
  /\ log' = Append(log, Entry(cl))
  /\ \E n \in LatestServers(cl) :
       \/ /\ TransferRefusal(n, cl) = Nil
          /\ begin_transfer(c, n, last_entry_index + 1)
          /\ recfg' = Reconfiguration("removal", Self, c)
          /\ conn' = Waiting(c, "del", Self)
          /\ trouble' = trouble \cup {"removed"}
       \/ /\ TransferRefusal(n, cl) # Nil
          /\ conn' = Refused(c, "ERROR")
          /\ trouble' = trouble \cup {"error"}
          /\ UNCHANGED <<recfg, transferVars>>
  /\ UNCHANGED <<role, curr_term, commit_index, match_index>>

-----------------------------------------------------------------------------
(***************************************************************************)
(* Callbacks.  rc and cs are the reconfiguration and the sessions as the   *)
(* step has left them so far.                                              *)
(***************************************************************************)
newly(n, rc) == rc # Nil /\ rc.n = n /\ rc.type = "addition"

InTime(n, mt) == mt[n] <= last_entry_index /\ last_entry_index - mt[n] <= MaxLag

LastRound(rc) == rc.rounds >= server_catch_up_rounds - 1

\* handle_catch_up_server_append_entries: another round; or the configuration entry, if
\* the last round was quick enough; or the end.
handle_catch_up(n, mt, rc, cs) ==
  \/ /\ ~LastRound(rc)
     /\ recfg' = [rc EXCEPT !.rounds = @ + 1]
     /\ conn' = cs
     /\ UNCHANGED <<log, cluster, trouble>>
  \/ /\ LastRound(rc) /\ InTime(n, mt)
     /\ rc.entry_added
     /\ recfg' = rc
     /\ conn' = cs
     /\ UNCHANGED <<log, cluster, trouble>>
  \/ /\ LastRound(rc) /\ InTime(n, mt)
     /\ ~rc.entry_added
     /\ last_entry_index < MaxLog
     /\ cluster' = cluster \cup {n}
     /\ log' = Append(log, Entry(cluster \cup {n}))
     /\ recfg' = [rc EXCEPT !.entry_added = TRUE]
     /\ conn' = cs
     /\ UNCHANGED trouble
  \/ /\ LastRound(rc) /\ InTime(n, mt)
     /\ ~rc.entry_added
     /\ cluster' = cluster \cup {n}
     /\ recfg' = Nil
     /\ conn' = Answered(cs, rc.rep, "ERROR")
     /\ trouble' = trouble \cup {"error"}
     /\ UNCHANGED log
  \/ /\ LastRound(rc)
     /\ recfg' = Nil
     /\ conn' = Answered(cs, rc.rep, "TIMEOUT")
     /\ trouble' = trouble \cup IF rc.entry_added THEN {"timeout"} ELSE {}
     /\ UNCHANGED <<log, cluster>>

\* on_append_entries, success: node n has the log up to m.
AppendEntriesSucceeded(n, m) ==
  LET mt == [match_index EXCEPT ![n] = m]
      ci == CommitAfter(log, cluster, mt)
      done == Completes(log, ci, recfg)
      rc == IF done THEN Nil ELSE recfg
      cs == IF done THEN Answered(conn, recfg.rep, "OK") ELSE conn
  IN
  /\ role = "LEADER"
  /\ n # Self
  /\ n \in cluster \/ (recfg # Nil /\ recfg.n = n)
  /\ match_index' = mt
  /\ commit_index' = ci
  /\ \/ newly(n, rc) /\ handle_catch_up(n, mt, rc, cs)
     \/ ~newly(n, rc) /\ recfg' = rc /\ conn' = cs /\ UNCHANGED <<log, cluster, trouble>>
  /\ UNCHANGED <<role, curr_term, transferVars>>

\* on_append_entries, a call to a new server failed: the round is over.  The role is not
\* looked at.
AppendEntriesFailed(n) ==
  /\ newly(n, recfg)
  /\ handle_catch_up(n, match_index, recfg, conn)
  /\ UNCHANGED <<role, curr_term, commit_index, match_index, transferVars>>

\* Mutant: a session that has its answer gets another.
ReplyDueAgain(r) == r # Nil

\* Mutant: the test of ready is inverted.
ReplyDueWhenReady(r) == r # Nil /\ conn[r].ready

\* server_transfer_reply_to && !server_transfer_reply_to->ready
ReplyDue(r) == r # Nil /\ ~conn[r].ready

\* Mutant: the reply pointer survives the timeout.
reply_after_timeout_kept == server_transfer_reply_to

reply_after_timeout == Nil

OnLeadershipTransferTimeout ==
  LET n == transfer_timer
      removal == recfg # Nil /\ recfg.type = "removal"
      r == server_transfer_reply_to
  IN
  /\ n # Nil
  /\ transfer_timer' = Nil
  /\ transfer_leader_to' = transfer_leader_to \ {n}
  /\ server_transfer_leader_to' = Nil
  /\ server_transfer_reply_to' = reply_after_timeout
  /\ recfg' = IF removal THEN Nil ELSE recfg
  /\ conn' = IF removal THEN Answered(conn, recfg.rep, "TIMEOUT")
             ELSE IF ReplyDue(r) THEN Answered(conn, r, "TIMEOUT") ELSE conn
  /\ trouble' = trouble \cup IF removal THEN {"timeout"} ELSE {}
  /\ UNCHANGED raftVars

\* The timeout_now handler at a leader, to which an earlier leader's call comes late:
\* pre_vote makes a follower of it, and a change or a transfer that is going on stays.
ServeTimeoutNow ==
  /\ role = "LEADER"
  /\ role' = "STANDING"
  /\ trouble' = trouble \cup IF recfg # Nil THEN {"deposed"} ELSE {}
  /\ UNCHANGED <<curr_term, log, commit_index, cluster, match_index, recfg, transferVars, conn>>

\* step_down: a newer term ends the leadership, and with it a transfer.  A follower that
\* hears of one only raises its term.
StepDown ==
  LET n == server_transfer_leader_to
      r == server_transfer_reply_to
      removal == n # Nil /\ recfg # Nil /\ recfg.type = "removal"
      reply == n # Nil /\ ~removal /\ ReplyDue(r)
  IN
  /\ role # "FOLLOWER"
  /\ curr_term < MaxTerm
  /\ role' = "FOLLOWER"
  /\ curr_term' = curr_term + 1
  /\ transfer_leader_to' = transfer_leader_to \ {n}
  /\ recfg' = IF removal THEN Nil ELSE recfg
  /\ conn' = IF removal THEN Answered(conn, recfg.rep, "OK")
             ELSE IF reply THEN Answered(conn, r, "OK") ELSE conn
  /\ transfer_timer' = IF removal \/ reply THEN Nil ELSE transfer_timer
  /\ server_transfer_leader_to' = Nil
  /\ server_transfer_reply_to' = IF n = Nil THEN r ELSE Nil
  /\ trouble' = trouble \cup IF recfg # Nil THEN {"deposed"} ELSE {}
  /\ UNCHANGED <<log, commit_index, cluster, match_index>>

-----------------------------------------------------------------------------
(***************************************************************************)
(* Self as a follower, and its return.                                     *)
(***************************************************************************)
\* Mutant: a configuration that was chopped stays in effect.
adjust_on_new_config(lg, es) == IF es # <<>> /\ es[1].cfg # {} THEN es[1].cfg ELSE cluster

\* The configuration of the log, when a configuration entry came or was chopped.
adjust_configuration(lg, es) ==
  IF (es # <<>> /\ es[1].cfg # {}) \/ cfg_entry_index(lg) # cfg_entry_index(log)
  THEN lg[cfg_entry_index(lg)].cfg ELSE cluster

\* A leader adds or removes one server at a time.
OneApart(C, D) == Cardinality((C \ D) \cup (D \ C)) = 1

\* The append_entries handler: a leader of this term keeps the first k entries of Self,
\* which include the committed ones, and adds at most one.
FollowLeader(k, es, ci) ==
  LET lg == SubSeq(log, 1, k) \o es IN
  /\ role = "FOLLOWER"
  /\ k >= commit_index
  /\ k < last_entry_index => es # <<>>
  /\ es # <<>> /\ es[1].cfg # {} => OneApart(es[1].cfg, log[cfg_entry_index(SubSeq(log, 1, k))].cfg)
  /\ ci >= commit_index /\ ci <= Len(lg)
  /\ Len(lg) <= MaxLog
  /\ log' = lg
  /\ cluster' = adjust_configuration(lg, es)
  /\ match_index' = [n \in Server |-> IF n \in cluster' \ cluster THEN 0 ELSE match_index[n]]
  /\ commit_index' = ci
  /\ UNCHANGED <<role, curr_term, recfg, transferVars, conn, trouble>>

\* step_up in a new term; append_entries commits at once when Self is alone.
StepUp ==
  /\ role # "LEADER"
  /\ curr_term < MaxTerm
  /\ role' = "LEADER"
  /\ curr_term' = curr_term + 1
  /\ match_index' = [n \in Server |-> IF n \in cluster THEN 0 ELSE match_index[n]]
  /\ commit_index' = IF cluster = {Self} THEN last_entry_index ELSE commit_index
  /\ IF cluster = {Self} /\ Completes(log, last_entry_index, recfg)
       THEN recfg' = Nil /\ conn' = Answered(conn, recfg.rep, "OK")
       ELSE UNCHANGED <<recfg, conn>>
  /\ trouble' = trouble \cup IF cfg_entry_index(log) > commit_index' THEN {"inherited"} ELSE {}
  /\ UNCHANGED <<log, cluster, transferVars>>

-----------------------------------------------------------------------------
Request(c) ==
  \E n \in Server :
    \/ AddServer(c, n)
    \/ RefuseDelServer(c, n)
    \/ DelServerFails(c, n)
    \/ DelOther(c, n)
    \/ LeadershipTransfer(c, n)
    \/ n = Self /\ DelSelf(c)

Foreign == {<<>>} \cup {<<[term |-> curr_term, cfg |-> C]>> : C \in SUBSET Server}

Next ==
  \/ \E c \in Conn : Request(c)
  \/ \E c \in Conn : OnReadSome(c)
  \/ HandleAppend
  \/ \E n \in Server : \/ \E m \in 0..last_entry_index : AppendEntriesSucceeded(n, m)
                       \/ AppendEntriesFailed(n)
  \/ OnLeadershipTransferTimeout
  \/ ServeTimeoutNow
  \/ StepDown
  \/ \E k \in 1..last_entry_index, es \in Foreign, ci \in 1..MaxLog : FollowLeader(k, es, ci)
  \/ StepUp

Spec == Init /\ [][Next]_vars

-----------------------------------------------------------------------------
(***************************************************************************)
(* Properties.  A failed append, a TIMEOUT for a change that is in the     *)
(* log, a change that outlives its leadership and a leadership that begins *)
(* with an uncommitted change (trouble) void the guarantees of later       *)
(* changes: see the README.                                                *)
(***************************************************************************)
TypeOK ==
  /\ role \in {"LEADER", "FOLLOWER", "STANDING"} /\ curr_term \in Nat
  /\ log \in Seq([term : Nat, cfg : SUBSET Server])
  /\ commit_index \in 1..Len(log)
  /\ cluster \subseteq Server
  /\ match_index \in [Server -> Nat]
  /\ recfg \in Reconfigurations \cup {Nil}
  /\ server_transfer_leader_to \in Server \cup {Nil}
  /\ server_transfer_reply_to \in Conn \cup {Nil}
  /\ transfer_leader_to \subseteq Server
  /\ transfer_timer \in Server \cup {Nil}
  /\ conn \in [Conn -> Session]

Voiding == {"error", "timeout", "deposed", "inherited"}

\* The nodes a server counts with are those of the latest configuration of its log, also
\* while changes are appended, chopped by another leader and replaced; unless an append
\* failed after cluster was changed.
ClusterIsLatestConfig ==
  "error" \notin trouble => cluster = log[cfg_entry_index(log)].cfg

\* A leader has at most one configuration entry that is not committed, so that any
\* majority of the old and any of the new configuration intersect.
OneChangeAtATime ==
  role = "LEADER" /\ trouble \cap Voiding = {} =>
    Cardinality({i \in CfgIndices(log) : i > commit_index}) <= 1

CommittedConfig == log[Max({i \in CfgIndices(log) : i <= commit_index})].cfg

Achieved(c) ==
  \/ conn[c].op = "add" /\ conn[c].server \in CommittedConfig
  \/ conn[c].op = "del" /\ conn[c].server \notin CommittedConfig
  \/ conn[c].op = "transfer" /\ role # "LEADER"
  \/ conn[c].op = "del" /\ conn[c].server = Self /\ role # "LEADER"

\* OK is the outcome of a request only when what it asked for has been achieved: the
\* configuration is committed (adjust_commit_index), or the leadership that was to be
\* handed on, by a transfer or by the removal of the leader itself, is gone (step_down).
\* Not so when a transfer overlaps the removal of another server: step_down answers OK to
\* that removal, which need not be committed.
OkMeansDone ==
  [][\A c \in Conn :
       conn'[c].body = "OK" /\ conn[c].body # "OK" /\ trouble \cap (Voiding \cup {"overlap"}) = {}
         => Achieved(c)']_vars

\* A session that waits has somebody who will answer it, or its answer is on its way; as
\* long as a transfer and a change of membership do not overlap.
NobodyForgotten ==
  "overlap" \notin trouble =>
    \A c \in Conn : conn[c].phase = "waiting" =>
      \/ conn[c].ready /\ conn[c].bytes = 1 /\ conn[c].body # Nil
      \/ ~conn[c].ready /\ recfg # Nil /\ recfg.rep = c
      \/ ~conn[c].ready /\ server_transfer_leader_to # Nil /\ server_transfer_reply_to = c

\* The pointers of a transfer are valid: the target is a node of the cluster, the reply
\* is that of a session that still waits, and no other node is flagged to be told to start
\* an election.  Not so when a removal overlaps, when an append failed, and when a leader
\* has removed itself.
TransferPointersValid ==
  trouble \cap {"overlap", "error", "removed"} = {} =>
    /\ server_transfer_leader_to \in cluster \cup {Nil}
    /\ server_transfer_reply_to # Nil => ~conn[server_transfer_reply_to].ready
    /\ transfer_leader_to \subseteq {server_transfer_leader_to}

-----------------------------------------------------------------------------
(***************************************************************************)
(* Why these hold, as an inductive invariant (with TypeOK and the          *)
(* invariants above).                                                      *)
(***************************************************************************)
SessionOK(s) ==
  /\ s.phase = "idle" => s = FreshSession
  /\ ~s.ready => s.phase = "waiting" /\ s.bytes = 0
  /\ s.phase = "waiting" /\ s.ready => s.bytes = 1 /\ s.body # Nil

\* Who is owed an answer waits and has got no byte yet, so that nobody is answered twice;
\* the session of a change asked for that change, and that of a transfer for it or for the
\* removal of the leader.
SessionInv ==
  /\ \A c \in Conn : SessionOK(conn[c])
  /\ recfg # Nil => /\ ~conn[recfg.rep].ready
                    /\ conn[recfg.rep].op = IF recfg.type = "addition" THEN "add" ELSE "del"
                    /\ conn[recfg.rep].server = recfg.n
  /\ server_transfer_reply_to # Nil =>
       /\ conn[server_transfer_reply_to].phase # "idle"
       /\ ~conn[server_transfer_reply_to].ready =>
            \/ conn[server_transfer_reply_to].op = "transfer"
            \/ conn[server_transfer_reply_to].op = "del" /\ conn[server_transfer_reply_to].server = Self

\* A transfer has a target and a session, and a term that Self led; a removal during a transfer is the
\* one that began it, or they overlap; the timer is that of the transfer.
TransferInv ==
  /\ server_transfer_leader_to = Nil <=> server_transfer_reply_to = Nil
  /\ role = "FOLLOWER" => server_transfer_leader_to = Nil
  /\ "overlap" \notin trouble /\ recfg # Nil /\ recfg.type = "removal" /\ server_transfer_leader_to # Nil
       => recfg.rep = server_transfer_reply_to
  /\ trouble \cap {"overlap", "error", "removed"} = {} =>
       /\ transfer_timer \in {server_transfer_leader_to, Nil}
       /\ recfg # Nil /\ server_transfer_reply_to # Nil => recfg.rep # server_transfer_reply_to

\* The change in progress has its entry in the log.
ChangeInLog == recfg # Nil /\ (recfg.type = "addition" => recfg.entry_added)

\* The log begins with a configuration; what a leader has not committed of configurations
\* is the entry of the change in progress, which is in effect.
ChangeInv ==
  /\ log[1].cfg # {}
  /\ trouble \cap Voiding = {} =>
       /\ recfg # Nil => role = "LEADER"
       /\ role = "LEADER" => \A i \in CfgIndices(log) : i > commit_index =>
            i = cfg_entry_index(log) /\ ChangeInLog
       /\ ChangeInLog => (recfg.n \in cluster <=> recfg.type = "addition")

ReconfigInv == SessionInv /\ TransferInv /\ ChangeInv

=============================================================================
