---------------------------- MODULE MCMcpManager ----------------------------
(* McpManager for TLC: four servers whose names collide, two agents. The filters of s1, s2  *)
(* and s4 keep a prefix of what they offer, those of s3 do not: it offers a tool that is    *)
(* denied before the one that is allowed. s2 has tools only: every probe of it fails.       *)
EXTENDS McpManager

MCServers == <<"s1", "s2", "s3", "s4">>
MCTools == [s1 |-> <<"a", "b">>, s2 |-> <<"a", "c">>, s3 |-> <<"a", "b">>, s4 |-> <<"b", "a">>]
MCAllow == [s1 |-> {}, s2 |-> {"a"}, s3 |-> {"a", "b"}, s4 |-> {}]
MCDeny == [s1 |-> {}, s2 |-> {"c"}, s3 |-> {"a"}, s4 |-> {}]
MCMaxTools == [s1 |-> 8, s2 |-> 8, s3 |-> 8, s4 |-> 1]
MCSees == [root |-> {"s1", "s2", "s3", "s4"}, helper |-> {"s2", "s3", "s4"}]
MCListable == {"s1", "s3", "s4"}
=============================================================================
