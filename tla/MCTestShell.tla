---------------------------- MODULE MCTestShell ----------------------------
(* TestShell for two nodes. In the first run each waits for the message    *)
(* that the other sends after its own wait; a nack ends it. Then they meet *)
(* in a lava-sync, which one of them calls inside a measured case.         *)
EXTENDS TestShell, TestScript

CONSTANTS n1, n2

First == RunSh("run1", TestCase("a") \o Wait("x") \o Send("y"))
         \o RunSh("run2", TestCaseShell("b", Sync("m")))
Second == RunSh("run1", Lmp("p") \o Wait("y") \o Send("x")) \o RunSh("run2", Sync("m"))

MCScript == [n \in Node |-> Runner(IF n = n1 THEN First ELSE Second)]
=============================================================================
