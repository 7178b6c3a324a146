------------------------------ MODULE MCClient ------------------------------
(***************************************************************************)
(* An instance of Client for TLC: servers a and b with the ports of the    *)
(* repository's cluster directory, a set whose value has a blank, a del,   *)
(* a get and a line that stops short; the memory of a session is fresh, or *)
(* that of one which ended in the middle of a key.                         *)
(***************************************************************************)
EXTENDS Client

Servers == {"a", "b"}
RpcPort == [a |-> <<8, 0, 8, 1>>, b |-> <<8, 0, 8, 2>>]
ListenPort == [a |-> <<9, 0, 9, 1>>, b |-> <<9, 0, 9, 2>>]

Chars == {"g", "s", "d", "e", "t", "l", "blank", "CR", "LF", "k", "v"}
Commands == {[type |-> "set", key |-> <<"k">>, value |-> <<"v", "blank">>],
             [type |-> "del", key |-> <<"k">>, value |-> <<>>],
             [type |-> "get", key |-> <<"k">>, value |-> <<>>]}
Slips == {<<"g", "e", "t", "CR", "LF">>}
Leftovers == {<<"start", "unknown">>, <<"read_key", "unknown">>}
=============================================================================
