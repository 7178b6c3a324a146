SPECIFICATION Spec
CONSTANTS
  Server <- Servers
  rpc_port <- RpcPort
  listen_port <- ListenPort
  Char <- Chars
  Command <- Commands
  Slip <- Slips
  Leftover <- Leftovers
  Entry = {"a"}
  MaxConn = 2
  Followed = {"hasty", "garbled"}
  MaxTyped = 2
  MaxChanges = 1
CHECK_DEADLOCK FALSE
INVARIANTS TypeOK ClientInv AnswersMatch AppendedOnce
PROPERTY EventuallyAnswered
