---------------------------- MODULE MCTaskQueue ----------------------------
(* Instances of TaskQueue for TLC: the third task is the urgent one.       *)
EXTENDS TaskQueue, TLC

CONSTANTS t1, t2, t3, n1, n2

TwoTasks == Permutations({t1, t2})
TwoTasksTwoNodes == TwoTasks \cup Permutations({n1, n2})

SamePriority == [t \in TaskId |-> 5]
LastIsUrgent == [t \in TaskId |-> IF t = t3 THEN 8 ELSE 5]
=============================================================================
