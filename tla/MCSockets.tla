----------------------------- MODULE MCSockets ------------------------------
EXTENDS Sockets, TLC

CONSTANTS s1, c1, c2

MCServers == {s1}
MCClients == {c1, c2}
MCTasks == MCServers \cup MCClients

\* Two clients connect once or twice, or one does, and may be unlucky.
Budget(s, c, d, n) == [calls |-> s1 :> s @@ c1 :> c @@ c2 :> d, strays |-> n]
MCBudgets == {Budget(4, 2, 1, 0), Budget(4, 2, 0, 1)}
MCPath == [abs |-> TRUE, names |-> <<"tmp", "s">>]
MCRest == "tmp" :> "mp" @@ "s" :> ""
=============================================================================
