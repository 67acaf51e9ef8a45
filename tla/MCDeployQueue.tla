---------------------------- MODULE MCDeployQueue ----------------------------
(* Instances of DeployQueue: whose jobs they are.                          *)
EXTENDS DeployQueue, TLC

OneUser == [j \in Job |-> "u"]
LastIsOthers == [j \in Job |-> IF j = Jobs THEN "v" ELSE "u"]

\* Nodes with room for every job, or one of them with room for one only.
AllLarge == [w \in Workers |-> 3]
OneSmall == [w \in Workers |-> IF w = CHOOSE v \in Workers : TRUE THEN 1 ELSE 2]
=============================================================================
