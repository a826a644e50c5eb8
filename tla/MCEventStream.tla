--------------------------- MODULE MCEventStream ---------------------------
(* Instances of EventStream for TLC: all clients are the first user's, but *)
(* the third, which may be the second user's.                             *)
EXTENDS EventStream, TLC

CONSTANTS t1, t2, n1, n2, c1, c2, c3, u1, u2

SamePriority == [t \in TaskId |-> 5]
OneUser == [c \in Client |-> u1]
TwoOfOneUser == [c \in Client |-> IF c = c3 THEN u2 ELSE u1]
Clients == Permutations({c1, c2})
=============================================================================
