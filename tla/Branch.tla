-------------------------------- MODULE Branch --------------------------------
(***************************************************************************)
(* What davgit promises a client that waits for each answer before its     *)
(* next request: the branch is a tree that changes by whole edits, each    *)
(* request's edit takes effect at most once, between the request and its   *)
(* answer, and has taken effect if the answer is a success.  A request     *)
(* that fails may have taken effect or not, and one whose client or server *)
(* went away may still take effect afterwards.                             *)
(***************************************************************************)
CONSTANTS Task, Edit, Tree, InitialTree, Nothing,
          Applied(_, _)   \* the tree an edit makes of a tree

VARIABLES tree,    \* the tree at the head of the branch
          edit,    \* what each request asks for
          status   \* how far it is
vars == <<tree, edit, status>>

Statuses == {"new", "open", "applied", "succeeded", "closed", "abandoned"}

TypeOK ==
  /\ tree \in Tree
  /\ edit \in [Task -> Edit \cup {Nothing}]
  /\ status \in [Task -> Statuses]

Init ==
  /\ tree = InitialTree
  /\ edit = [t \in Task |-> Nothing]
  /\ status = [t \in Task |-> "new"]

Becomes(t, from, to) == status[t] \in from /\ status' = [status EXCEPT ![t] = to]

Open(t) ==
  /\ Becomes(t, {"new"}, "open")
  /\ \E e \in Edit : edit' = [edit EXCEPT ![t] = e]
  /\ UNCHANGED tree

TakeEffect(t) ==
  /\ Becomes(t, {"open"}, "applied") \/ Becomes(t, {"abandoned"}, "closed")
  /\ tree' = Applied(tree, edit[t])
  /\ UNCHANGED edit

\* The answer, or the end of the request without one.
Succeed(t) == Becomes(t, {"applied"}, "succeeded")         /\ UNCHANGED <<tree, edit>>
GiveUp(t)  == Becomes(t, {"open", "applied"}, "closed")    /\ UNCHANGED <<tree, edit>>
Abandon(t) == Becomes(t, {"open", "applied"}, "abandoned") /\ UNCHANGED <<tree, edit>>
Expire(t)  == Becomes(t, {"abandoned"}, "closed")          /\ UNCHANGED <<tree, edit>>

Next == \E t \in Task :
  Open(t) \/ TakeEffect(t) \/ Succeed(t) \/ GiveUp(t) \/ Abandon(t) \/ Expire(t)

Spec == Init /\ [][Next]_vars
===============================================================================
