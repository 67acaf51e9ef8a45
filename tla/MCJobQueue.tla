---------------------------- MODULE MCJobQueue -----------------------------
(* Instances of JobQueue: whose the jobs are and what is called on them.   *)
EXTENDS JobQueue

\* The last job belongs to another tenant, who controls it in every way; of
\* the first tenant's jobs, the first may be cancelled.
LastIsOthers == [j \in Job |-> IF j = Jobs THEN "u" ELSE "t"]
LastIsControlled == [j \in Job |-> IF j = Jobs THEN Op ELSE IF j = 1 THEN {"cancel"} ELSE {}]

\* One tenant and every call.
OneTenant == [j \in Job |-> "t"]
AllOps == [j \in Job |-> Op]
=============================================================================
