---------------------------- MODULE MCGitSource ----------------------------
(* Tags may change names, so one order of them is enough.                  *)
EXTENDS GitSource

CONSTANTS t1, t2, t3

Public(tag) == [tag |-> tag, draft |-> FALSE]
Draft(tag) == [tag |-> tag, draft |-> TRUE]

Lists == {<<Public(t1)>>, <<Public(t2), Public(t1)>>, <<Draft(t2), Public(t1)>>}
=============================================================================
