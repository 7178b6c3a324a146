------------------------------- MODULE Client -------------------------------
(***************************************************************************)
(* One user of the key-value store from the keyboard to the log:           *)
(* client/raft_client.hpp with its two threads (the one that reads lines   *)
(* and the io_context), the connections it opens, the sessions at their    *)
(* other ends (server/storage_server.hpp) and the parser of a session      *)
(* (server/command_parser.hpp), which is given a line in whatever pieces   *)
(* the network delivers it.                                                *)
(*                                                                         *)
(* Of raft only what a session sees of it: which servers take themselves   *)
(* for the leader, whom each of them names as the leader, and that a       *)
(* command that a leader appends is committed later.  The database and the *)
(* sessions that other threads meet are module KvStore.                    *)
(***************************************************************************)
EXTENDS Integers, Sequences, FiniteSets

CONSTANTS
  Server,
  rpc_port, listen_port,  \* of each server: the digits of its raft port and of its storage port
  Char,                   \* what lines are made of
  Command,                \* what a user may ask for: its type, its key and its value
  Slip,                   \* lines that are no command
  Leftover,               \* what an uninitialised parser may find: its state, the command's type
  Entry,                  \* servers that users connect to first
  MaxConn,                \* bound: connections that exist at a time
  Followed,               \* bound: kinds of trouble after which a behaviour goes on
  MaxTyped,               \* bound: lines
  MaxChanges              \* bound: leaders that step down, or are joined by a second one

ASSUME PortAssumption ==
  \A s, t \in Server : /\ rpc_port[s] \in Seq(0..9) /\ listen_port[s] \in Seq(0..9)
                       /\ listen_port[s] = listen_port[t] => s = t
ASSUME BoundAssumption == Entry \subseteq Server /\ {MaxConn, MaxTyped, MaxChanges} \subseteq Nat /\ MaxConn > 0

ASSUME CharAssumption == {"g", "s", "d", "e", "t", "l", "blank", "CR", "LF"} \subseteq Char

\* A key or a value is what the parser takes it for: not empty, behind all blanks, and on
\* one line.
IsWord(w) == w # <<>> /\ w[1] # "blank" /\ \A i \in DOMAIN w : w[i] \notin {"CR", "LF"}

ASSUME CommandAssumption ==
  \A c \in Command :
    /\ c \in [type : {"get", "set", "del"}, key : Seq(Char), value : Seq(Char)]
    /\ IsWord(c.key)
    /\ IF c.type = "set" THEN IsWord(c.value) /\ \A i \in DOMAIN c.key : c.key[i] # "blank"
                         ELSE c.value = <<>>

Conn == 1..MaxConn

\* A line on its way to a session: its characters, blank, CR and LF among them.
CRLF == <<"CR", "LF">>
Text(c) ==
  CASE c.type = "get" -> <<"g", "e", "t", "blank">> \o c.key \o CRLF
    [] c.type = "del" -> <<"d", "e", "l", "blank">> \o c.key \o CRLF
    [] c.type = "set" -> <<"s", "e", "t", "blank">> \o c.key \o <<"blank">> \o c.value \o CRLF

Line == {Text(c) : c \in Command} \cup Slip

unknown == "unknown"     \* leader_ before a server has heard of one

ASSUME ServerAssumption == unknown \notin Server

VARIABLES
  \* raft: who is leader, leader_ of each server, the last to have stepped up
  role, leader_, latest, changes,
  \* the connections: text under way to the session, replies under way to the client,
  \* open while the client's end is, and the session's command, parser and progress
  conn,
  \* raft_client: writing is "no", "yes" or "doomed" (the socket was closed under it)
  link, port, current, posted, commands, writing, prev_command, eof,
  \* history: lines typed, replies printed other than redirections, commands appended,
  \* and what happened that the code has no answer to
  typed, answers, appended, trouble

raftVars    == <<role, leader_, latest, changes>>
clientVars  == <<link, port, current, posted, commands, writing, prev_command, eof>>
historyVars == <<typed, answers, appended, trouble>>
vars == <<raftVars, conn, clientVars, historyVars>>

-----------------------------------------------------------------------------
(***************************************************************************)
(* command_parser: a state, and the command that is being put together.    *)
(***************************************************************************)
Keyword == {<<"start", "g", "type_g">>, <<"type_g", "e", "type_ge">>, <<"type_ge", "t", "type_done">>,
            <<"start", "s", "type_s">>, <<"type_s", "e", "type_se">>, <<"type_se", "t", "type_set">>,
            <<"start", "d", "type_d">>, <<"type_d", "e", "type_de">>, <<"type_de", "l", "type_done">>}

TypeSpelt == [type_ge |-> "get", type_se |-> "set", type_de |-> "del"]

State == {"start", "type_g", "type_ge", "type_s", "type_se", "type_set", "type_d", "type_de", "type_done",
          "read_key", "read_set_key", "read_set_blank", "read_set_value", "carriage"}

\* States in which a blank is skipped, and in which the end of the line is an error.
SkipsBlank == {"start", "type_set", "type_done", "read_set_blank"}
NeedsMore  == {"type_done", "read_set_key", "read_set_blank"}

\* The state that the first and any later character of a key or a value leads to.
KeyState   == [type_set |-> "read_set_key", read_set_key |-> "read_set_key",
               type_done |-> "read_key", read_key |-> "read_key"]
ValueState == [read_set_blank |-> "read_set_value", read_set_value |-> "read_set_value"]

\* p.result is what do_parse returns for the character c.
do_parse(p, c) ==
  LET s == p.state
      word == {k \in Keyword : k[1] = s /\ k[2] = c}
      go(t) == [p EXCEPT !.state = t]
      bad == [p EXCEPT !.result = "bad"]
  IN IF s \in SkipsBlank /\ c = "blank" THEN p
     ELSE IF s \in NeedsMore /\ c \in {"CR", "LF"} THEN bad
     ELSE IF s = "read_set_key" /\ c = "blank" THEN go("read_set_blank")
     ELSE IF s \in {"read_key", "read_set_value"} /\ c = "CR" THEN go("carriage")
     ELSE IF s = "carriage" THEN (IF c = "LF" THEN [p EXCEPT !.result = "good"] ELSE bad)
     ELSE IF s \in DOMAIN KeyState THEN [go(KeyState[s]) EXCEPT !.key = Append(@, c)]
     ELSE IF s \in DOMAIN ValueState THEN [go(ValueState[s]) EXCEPT !.value = Append(@, c)]
     ELSE IF word = {} THEN bad
     ELSE [go((CHOOSE k \in word : TRUE)[3]) EXCEPT
             !.type = IF s \in DOMAIN TypeSpelt THEN TypeSpelt[s] ELSE @]

\* parse: the characters of one read, up to the one that decides; the others are lost.
\* (A set of one element makes TLC evaluate each step once.)
parse(p, chars) ==
  LET step(q, c) == IF q.result = "need_more" THEN do_parse(q, c) ELSE q
      after[i \in 0..Len(chars)] ==
        IF i = 0 THEN {p} ELSE {step(q, chars[i]) : q \in after[i - 1]}
  IN CHOOSE q \in after[Len(chars)] : TRUE

Parser(state, type) == [state |-> state, type |-> type, key |-> <<>>, value |-> <<>>, result |-> "need_more"]
Asked(p) == [type |-> p.type, key |-> p.key, value |-> p.value]

Types == {"get", "set", "del", "unknown"}
Parsers == [state : State, type : Types, key : Seq(Char), value : Seq(Char),
            result : {"need_more", "good", "bad"}]

\* What is no command the parser gives up before the line ends, or with it.
ASSUME SlipAssumption ==
  \A l \in Slip : l \in Seq(Char) /\ \A t \in Types : parse(Parser("start", t), l).result = "bad"
ASSUME LeftoverAssumption == Leftover \subseteq State \X Types

-----------------------------------------------------------------------------
(***************************************************************************)
(* Connections and sessions.                                               *)
(***************************************************************************)
Commanded == [type : Types, key : Seq(Char), value : Seq(Char)]

Replies == [status : {"OK", "NOT_LEADER", "INVALID_COMMAND", "INTERNAL_ERROR"},
            leader : Server \cup {unknown},
            cmd    : Commanded]

Session == [pc : {"free", "reading", "waiting", "stranded"}, server : Server \cup {unknown}, open : BOOLEAN,
            wire : Seq(Char), replies : Seq(Replies),
            parser : Parsers]

Free == [pc |-> "free", server |-> unknown, open |-> FALSE, wire |-> <<>>, replies |-> <<>>,
         parser |-> Parser("start", "unknown")]

Init ==
  /\ role = [s \in Server |-> "FOLLOWER"]
  /\ leader_ = [s \in Server |-> unknown]
  /\ latest = unknown
  /\ changes = 0
  /\ conn = [c \in Conn |-> Free]
  /\ link = "resolving"
  /\ \E s \in Entry : port = listen_port[s]
  /\ current = 1
  /\ posted = <<>>
  /\ commands = <<>>
  /\ writing = "no"
  /\ prev_command = <<>>
  /\ eof = FALSE
  /\ typed = <<>>
  /\ answers = <<>>
  /\ appended = <<>>
  /\ trouble = {}

\* Mutant: the command is not cleared.
NextCommandUncleared(p) == [p EXCEPT !.state = "start", !.result = "need_more"]

\* on_write of a session resets the command and the parser.
NextCommand(p) == Parser("start", "unknown")

\* do_write and on_write of session c; a reply to a client that has gone is lost.
Reply(s, status, leader) ==
  [s EXCEPT !.pc = "reading",
            !.parser = NextCommand(@),
            !.replies = IF s.open
                        THEN Append(@, [status |-> status, leader |-> leader, cmd |-> Asked(s.parser)])
                        ELSE @]

\* on_read: a session gets the first n characters that are under way to it.
Parsed(c, n) == [conn[c] EXCEPT !.parser = parse(@, SubSeq(conn[c].wire, 1, n)),
                                !.wire = SubSeq(@, n + 1, Len(@))]

\* More of a line than a read has.
ReadMore(c, s) ==
  /\ s.parser.result = "need_more"
  /\ conn' = [conn EXCEPT ![c] = s]
  /\ UNCHANGED <<raftVars, clientVars, historyVars>>

\* The parser gives a line up; if the rest of it comes with a later read, it is taken for
\* a line of its own.
ReadInvalid(c, s) ==
  /\ s.parser.result = "bad"
  /\ conn' = [conn EXCEPT ![c] = Reply(s, "INVALID_COMMAND", unknown)]
  /\ trouble' = IF s.wire = <<>> THEN trouble ELSE trouble \cup {"split"}
  /\ UNCHANGED <<raftVars, clientVars, typed, answers, appended>>

\* handle_command of a get: the local database is read.
HandleGet(c, s) ==
  /\ s.parser.result = "good"
  /\ s.parser.type = "get"
  /\ conn' = [conn EXCEPT ![c] = Reply(s, "OK", unknown)]
  /\ UNCHANGED <<raftVars, clientVars, historyVars>>

\* handle_command of a set or a del at a server that is not leader.
HandleNotLeader(c, s) ==
  /\ s.parser.result = "good"
  /\ s.parser.type \in {"set", "del"}
  /\ role[s.server] # "LEADER"
  /\ conn' = [conn EXCEPT ![c] = Reply(s, "NOT_LEADER", leader_[s.server])]
  /\ UNCHANGED <<raftVars, clientVars, historyVars>>

\* handle_command at the leader: append fails, or the session waits for the entry.
HandleAppend(c, s) ==
  /\ s.parser.result = "good"
  /\ s.parser.type \in {"set", "del"}
  /\ role[s.server] = "LEADER"
  /\ \/ /\ conn' = [conn EXCEPT ![c] = Reply(s, "INTERNAL_ERROR", unknown)]
        /\ UNCHANGED appended
     \/ /\ conn' = [conn EXCEPT ![c] = [s EXCEPT !.pc = "waiting"]]
        /\ appended' = Append(appended, Asked(s.parser))
  /\ UNCHANGED <<raftVars, clientVars, typed, answers, trouble>>

\* The leader steps down between handle_command's test of the role and append's: append's
\* error is taken for an index and the session waits for an entry that does not exist.
HandleTooLate(c, s) ==
  /\ s.parser.result = "good"
  /\ s.parser.type \in {"set", "del"}
  /\ role[s.server] = "LEADER"
  /\ changes < MaxChanges
  /\ changes' = changes + 1
  /\ role' = [role EXCEPT ![s.server] = "FOLLOWER"]
  /\ conn' = [conn EXCEPT ![c] = [s EXCEPT !.pc = "stranded"]]
  /\ trouble' = trouble \cup {"deposed"}
  /\ UNCHANGED <<leader_, latest, clientVars, typed, answers, appended>>

\* handle_command knows no other type: the session neither answers nor reads again.
HandleUnknown(c, s) ==
  /\ s.parser.result = "good"
  /\ s.parser.type = "unknown"
  /\ conn' = [conn EXCEPT ![c] = [s EXCEPT !.pc = "stranded"]]
  /\ UNCHANGED <<raftVars, clientVars, historyVars>>

Read(c) ==
  /\ conn[c].pc = "reading"
  /\ \E s \in {Parsed(c, n) : n \in 1..Len(conn[c].wire)} :
       \/ ReadMore(c, s)
       \/ ReadInvalid(c, s)
       \/ HandleGet(c, s)
       \/ HandleNotLeader(c, s)
       \/ HandleAppend(c, s)
       \/ HandleTooLate(c, s)
       \/ HandleUnknown(c, s)

\* on_log_entry_committed: the apply thread answers the session that waits.
Committed(c) ==
  /\ conn[c].pc = "waiting"
  /\ conn' = [conn EXCEPT ![c] = Reply(@, "OK", unknown)]
  /\ UNCHANGED <<raftVars, clientVars, historyVars>>

\* A session whose client has gone meets the end of the stream or a reset.
RemoveSession(c) ==
  /\ conn[c].pc = "reading"
  /\ ~conn[c].open
  /\ conn' = [conn EXCEPT ![c] = Free]
  /\ UNCHANGED <<raftVars, clientVars, historyVars>>

-----------------------------------------------------------------------------
(***************************************************************************)
(* raft_client.                                                            *)
(***************************************************************************)
Settled == /\ link = "open"
           /\ Len(answers) = Len(typed)

\* main reads a line and posts it, whatever the client is doing.
TypeLine(l) ==
  /\ ~eof
  /\ link # "exited"
  /\ Len(typed) < MaxTyped
  /\ typed' = Append(typed, l)
  /\ posted' = Append(posted, l)
  /\ trouble' = IF Settled THEN trouble ELSE trouble \cup {"hasty"}
  /\ UNCHANGED <<raftVars, conn, link, port, current, commands, writing, prev_command, eof,
                 answers, appended>>

\* close: a write that has not completed will not.
Doomed == IF writing = "yes" THEN "doomed" ELSE writing
Closed == [conn EXCEPT ![current].open = FALSE, ![current].replies = <<>>]

\* The end of the input: main closes the socket under the other thread, whose handler of
\* the connection or of the read then fails; a resolver goes on.
Eof ==
  /\ ~eof
  /\ link # "exited"
  /\ eof' = TRUE
  /\ link' = IF link \in {"connecting", "open"} THEN "closed" ELSE link
  /\ conn' = IF link = "open" THEN Closed ELSE conn
  /\ writing' = IF link = "resolving" THEN writing ELSE Doomed
  /\ trouble' = trouble \cup {"eof"}
  /\ UNCHANGED <<raftVars, port, current, posted, commands, prev_command, typed, answers, appended>>

\* on_resolve: a port that is not one closes the client.
OnResolve ==
  /\ link = "resolving"
  /\ link' = IF port = <<>> THEN "closed" ELSE "connecting"
  /\ UNCHANGED <<raftVars, conn, port, current, posted, commands, writing, prev_command, eof, historyVars>>

\* Mutant: the command before is sent even if there is none.
WritePrevAlways == Append(posted, prev_command)

\* on_connect writes the command before the redirection again.
WritePrev == IF prev_command = <<>> THEN posted ELSE Append(posted, prev_command)

\* on_accept and on_connect.  The parser of a new session is not initialised.
OnConnect(c) ==
  /\ link = "connecting"
  /\ writing # "doomed"
  /\ conn[c].pc = "free"
  /\ \A d \in 1 .. c - 1 : conn[d].pc # "free"
  /\ \E s \in Server, p \in Leftover :
       /\ listen_port[s] = port
       /\ conn' = [conn EXCEPT ![c] = [Free EXCEPT !.pc = "reading", !.server = s, !.open = TRUE,
                                                   !.parser = Parser(p[1], p[2])]]
       /\ trouble' = IF p[1] = "start" THEN trouble ELSE trouble \cup {"garbled"}
  /\ link' = "open"
  /\ current' = c
  /\ posted' = WritePrev
  /\ UNCHANGED <<raftVars, port, commands, writing, prev_command, eof, typed, answers, appended>>

\* on_connect with an error: nobody listens there.
OnConnectFails ==
  /\ link = "connecting"
  /\ \A s \in Server : listen_port[s] # port
  /\ link' = "closed"
  /\ UNCHANGED <<raftVars, conn, port, current, posted, commands, writing, prev_command, eof, historyVars>>

\* The handler that write posts: the line is written now or after those before it.
RunPosted ==
  /\ posted # <<>>
  /\ link \in {"resolving", "connecting", "open"}
  /\ posted' = Tail(posted)
  /\ commands' = Append(commands, Head(posted))
  /\ writing' = IF commands # <<>> THEN writing ELSE IF link = "resolving" THEN "doomed" ELSE "yes"
  /\ UNCHANGED <<raftVars, conn, link, port, current, prev_command, eof, historyVars>>

\* Mutant: the first command is remembered, not the last.
RememberFirst(l) == IF prev_command = <<>> THEN l ELSE prev_command

Remember(l) == l

OnWrite ==
  /\ writing = "yes"
  /\ link = "open"
  /\ conn' = [conn EXCEPT ![current].wire = @ \o Head(commands)]
  /\ prev_command' = Remember(Head(commands))
  /\ commands' = Tail(commands)
  /\ writing' = IF Tail(commands) = <<>> THEN "no" ELSE "yes"
  /\ UNCHANGED <<raftVars, link, port, current, posted, eof, historyVars>>

\* on_write with an error closes the socket, that of a connection being set up too; what
\* was being written stays at the front of commands.
OnWriteFails ==
  /\ writing = "doomed"
  /\ writing' = "no"
  /\ link' = IF link = "connecting" THEN "closed" ELSE link
  /\ UNCHANGED <<raftVars, conn, port, current, posted, commands, prev_command, eof, historyVars>>

\* Mutant: only the first digit is replaced.
ClientPortFirst(p) == IF p # <<>> /\ p[1] = 8 THEN [p EXCEPT ![1] = 9] ELSE p

\* The port of a leader's storage service, from that of its raft service.
ClientPort(p) == [i \in DOMAIN p |-> IF p[i] = 8 THEN 9 ELSE p[i]]

\* What one read has: the first of the replies decides.  The address of the leader is
\* everything behind the first word, a second reply included, which makes no address.
NamesLeader(batch) == /\ batch[1].status = "NOT_LEADER"
                      /\ \E i \in DOMAIN batch : batch[i].leader # unknown

LeaderPort(batch) == IF Len(batch) = 1 THEN ClientPort(rpc_port[batch[1].leader]) ELSE <<>>

Batches == {SubSeq(conn[current].replies, 1, k) : k \in 1..Len(conn[current].replies)}
Rest(batch) == SubSeq(conn[current].replies, Len(batch) + 1, Len(conn[current].replies))

\* on_read_message: a reply is printed.
OnReply ==
  /\ link = "open"
  /\ \E batch \in Batches :
       /\ ~NamesLeader(batch)
       /\ answers' = answers \o batch
       /\ conn' = [conn EXCEPT ![current].replies = Rest(batch)]
  /\ UNCHANGED <<raftVars, clientVars, typed, appended, trouble>>

\* on_read_message: the client goes to the leader the server named, and leaves when that is
\* the server itself.
OnRedirect ==
  /\ link = "open"
  /\ \E batch \in Batches :
       /\ NamesLeader(batch)
       /\ port' = LeaderPort(batch)
       /\ link' = IF port' = port THEN "exited" ELSE "resolving"
  /\ conn' = Closed
  /\ writing' = Doomed
  /\ UNCHANGED <<raftVars, current, posted, commands, prev_command, eof, historyVars>>

\* A connection breaks or its server dies: the client does not connect again.
Break(c) ==
  /\ conn[c].pc # "free"
  /\ conn' = [conn EXCEPT ![c] = Free]
  /\ IF c = current /\ link = "open"
     THEN link' = "closed" /\ writing' = Doomed
     ELSE UNCHANGED <<link, writing>>
  /\ trouble' = trouble \cup {"broken"}
  /\ UNCHANGED <<raftVars, port, current, posted, commands, prev_command, eof, typed, answers, appended>>

-----------------------------------------------------------------------------
(***************************************************************************)
(* What raft does beneath.                                                 *)
(***************************************************************************)

\* step_up.  There may be a leader of an older term.
StepUp(s) ==
  /\ role[s] = "FOLLOWER"
  /\ \/ (\A t \in Server : role[t] = "FOLLOWER") /\ UNCHANGED changes
     \/ (\E t \in Server : role[t] = "LEADER") /\ changes < MaxChanges /\ changes' = changes + 1
  /\ role' = [role EXCEPT ![s] = "LEADER"]
  /\ leader_' = [leader_ EXCEPT ![s] = s]
  /\ latest' = s
  /\ UNCHANGED <<conn, clientVars, historyVars>>

\* Sessions that wait at a server may never be answered once it is deposed.
Deposed(s) == IF \E c \in Conn : conn[c].server = s /\ conn[c].pc = "waiting" THEN {"deposed"} ELSE {}

\* step_down for a newer term leaves leader_ alone: the server still names itself.
StepDown(s) ==
  /\ role[s] = "LEADER"
  /\ changes < MaxChanges
  /\ changes' = changes + 1
  /\ role' = [role EXCEPT ![s] = "FOLLOWER"]
  /\ trouble' = trouble \cup Deposed(s)
  /\ UNCHANGED <<leader_, latest, conn, clientVars, typed, answers, appended>>

\* append_entries of the new leader.
FollowLeader(s) ==
  /\ s # latest
  /\ latest # unknown
  /\ role[latest] = "LEADER"
  /\ <<role[s], leader_[s]>> # <<"FOLLOWER", latest>>
  /\ role' = [role EXCEPT ![s] = "FOLLOWER"]
  /\ leader_' = [leader_ EXCEPT ![s] = latest]
  /\ trouble' = IF role[s] = "LEADER" THEN trouble \cup Deposed(s) ELSE trouble
  /\ UNCHANGED <<latest, changes, conn, clientVars, typed, answers, appended>>

-----------------------------------------------------------------------------
ClientStep  == OnResolve \/ OnConnectFails \/ RunPosted \/ OnWrite \/ OnWriteFails \/ OnReply \/ OnRedirect
               \/ \E c \in Conn : OnConnect(c)
SessionStep == \E c \in Conn : Read(c) \/ Committed(c) \/ RemoveSession(c)
RaftStep    == \E s \in Server : StepUp(s) \/ FollowLeader(s)

\* Bound: the first trouble ends a behaviour, unless it is one of Followed.
GoingOn == trouble \subseteq Followed /\ Cardinality(trouble) <= 1

Next ==
  /\ GoingOn
  /\ \/ \E l \in Line : TypeLine(l)
     \/ Eof
     \/ ClientStep
     \/ SessionStep
     \/ RaftStep
     \/ \E c \in Conn : Break(c)
     \/ \E s \in Server : StepDown(s)

\* Handlers of an io_context that are ready run, bytes arrive and a leader's entries are
\* committed; there is a leader in the end and its append_entries reach the others.
Fairness == /\ WF_vars(GoingOn /\ ClientStep)
            /\ WF_vars(GoingOn /\ SessionStep)
            /\ WF_vars(GoingOn /\ RaftStep)

Spec == Init /\ [][Next]_vars /\ Fairness

-----------------------------------------------------------------------------
(***************************************************************************)
(* Properties.  The code promises an answer to a user who waits for each   *)
(* one before typing the next line, as long as nothing in trouble happens: *)
(*  - hasty: a line is typed before the last one is answered, or while the *)
(*    client is being redirected;                                          *)
(*  - split: the end of an invalid line arrives after the answer to it;    *)
(*  - garbled: a session began with a parser in some other state;          *)
(*  - deposed: the leader is deposed while a session waits;                *)
(*  - broken, eof: the connection breaks, the user leaves.                 *)
(***************************************************************************)
TypeOK ==
  /\ role \in [Server -> {"LEADER", "FOLLOWER"}]
  /\ leader_ \in [Server -> Server \cup {unknown}]
  /\ latest \in Server \cup {unknown}
  /\ changes \in 0..MaxChanges
  /\ conn \in [Conn -> Session]
  /\ \A c \in Conn : conn[c].pc # "free" => conn[c].server # unknown
  /\ link \in {"resolving", "connecting", "open", "closed", "exited"}
  /\ port \in Seq(0..9)
  /\ current \in Conn
  /\ posted \in Seq(Line) /\ commands \in Seq(Line) /\ typed \in Seq(Line)
  /\ writing \in {"no", "yes", "doomed"}
  /\ writing # "no" => commands # <<>>
  /\ prev_command \in Line \cup {<<>>}
  /\ eof \in BOOLEAN
  /\ answers \in Seq(Replies) /\ appended \in Seq(Commanded)
  /\ trouble \subseteq {"hasty", "split", "garbled", "deposed", "broken", "eof"}

Copies(seq, x) == Cardinality({i \in DOMAIN seq : seq[i] = x})

\* At most one line is under way: the newest, when it is not answered yet.
Pending == Len(answers) < Len(typed)
Newest == typed[Len(typed)]

\* A reply that belongs to the line l.
IsReplyTo(r, l) ==
  IF l \in Slip THEN r.status = "INVALID_COMMAND"
  ELSE r.status # "INVALID_COMMAND" /\ r.cmd \in Command /\ Text(r.cmd) = l

\* Sessions: one that has nothing to do, one that the client left, one that has read a part
\* of the line l, one that waits for the entry, one that has answered.
Fresh(s) == s.pc = "reading" /\ s.wire = <<>> /\ s.replies = <<>> /\ \E t \in Types : s.parser = Parser("start", t)
Left(s) == s.pc \in {"free", "reading"} /\ ~s.open /\ s.wire = <<>> /\ s.replies = <<>>
Reading(s, l) ==
  /\ s.pc = "reading" /\ s.replies = <<>> /\ s.parser.result = "need_more"
  /\ \E t \in Types, i \in 0..Len(l) :
       s.wire = SubSeq(l, i + 1, Len(l)) /\ s.parser = parse(Parser("start", t), SubSeq(l, 1, i))
Waiting(s, l) ==
  /\ s.pc = "waiting" /\ s.replies = <<>> /\ s.wire = <<>>
  /\ Asked(s.parser) \in Command /\ Text(Asked(s.parser)) = l
Answered(s, l) ==
  /\ s.pc = "reading" /\ s.wire = <<>> /\ s.parser = Parser("start", "unknown")
  /\ Len(s.replies) = 1 /\ IsReplyTo(s.replies[1], l)

\* Where the newest line is, when the client is connected and when it is not.
Connected(s) ==
  /\ s.open
  /\ \/ ~Pending /\ posted = <<>> /\ commands = <<>> /\ Fresh(s)
     \/ Pending /\ posted = <<Newest>> /\ commands = <<>> /\ Fresh(s)
     \/ Pending /\ posted = <<>> /\ commands = <<Newest>> /\ Fresh(s)
     \/ /\ Pending /\ posted = <<>> /\ commands = <<>> /\ prev_command = Newest
        /\ Reading(s, Newest) \/ Waiting(s, Newest) \/ Answered(s, Newest)
Away == posted = <<>> /\ commands = <<>> /\ prev_command = IF Pending THEN Newest ELSE <<>>

\* The newest line has been appended, or is a get that was served.
Served == \/ conn[current].pc = "waiting"
          \/ conn[current].replies # <<>> /\ conn[current].replies[1].status = "OK"

Oks(c) == Cardinality({i \in DOMAIN answers : answers[i].status = "OK" /\ answers[i].cmd = c})
One(b) == IF b THEN 1 ELSE 0

\* Why the two properties below hold, as an inductive invariant (with TypeOK): the line under way is
\* in one place of the client (write, on_write, prev_command) or of the one session that is connected
\* (its parser and what is still on the wire make up the line, or it waits, or it has answered), all
\* other sessions are idle, and what was appended and answered OK is no more than was typed.
ClientInv ==
  trouble = {} =>
    /\ Len(answers) <= Len(typed) /\ Len(typed) <= Len(answers) + 1
    /\ \A i \in DOMAIN answers : IsReplyTo(answers[i], typed[i])
    /\ writing = IF commands = <<>> THEN "no" ELSE "yes"
    /\ IF link = "open" THEN Connected(conn[current]) ELSE Away
    /\ \A c \in Conn : (link = "open" /\ c = current) \/ Left(conn[c])
    /\ \A c \in Command :
         /\ Copies(appended, c) + One(Pending /\ ~Served /\ Newest = Text(c)) <= Copies(typed, Text(c))
         /\ c.type # "get" => Oks(c) + One(Served /\ Newest = Text(c)) <= Copies(appended, c)

\* However the network cuts the lines into pieces, and through however many redirections, the
\* user is answered once per line, in order, and for the command that was typed: a parser
\* that keeps something of the command before, or a reply that belongs to another line,
\* breaks it (do_parse, on_write of the session, on_read_message and on_connect).
AnswersMatch ==
  trouble = {} =>
    /\ Len(answers) <= Len(typed)
    /\ \A i \in DOMAIN answers :
         IF typed[i] \in Slip THEN answers[i].status = "INVALID_COMMAND"
         ELSE answers[i].status # "INVALID_COMMAND" /\ Text(answers[i].cmd) = typed[i]

\* Sending a command again after a redirection never gets it into the log twice, and OK to a
\* set or del means that it is in the log (on_connect's prev_command, handle_command).
AppendedOnce ==
  trouble = {} =>
    \A c \in Command :
      /\ Copies(appended, c) <= Copies(typed, Text(c))
      /\ c.type # "get" =>
           Oks(c) <= Copies(appended, c)

\* A line typed by such a user is answered in the end, whoever is leader meanwhile; only a
\* server that names itself while it is no longer leader makes the client leave.
EventuallyAnswered ==
  Len(answers) < Len(typed) ~> (Len(answers) = Len(typed) \/ link = "exited" \/ trouble # {})
=============================================================================
