---------------------------- MODULE MCMultiNode ----------------------------
(* MultiNode for two nodes with jobs of one action that passes, fails      *)
(* tolerably or kills the job, and one signal to one of the nodes.         *)
EXTENDS MultiNode

MCMaxTerms == [n \in Node |-> IF n = CHOOSE m \in Node : TRUE THEN 1 ELSE 0]
MCNoTerms == [n \in Node |-> 0]

MCPrograms == { <<"other">> }
MCAndroid == { <<"boot_android">> }
=============================================================================
