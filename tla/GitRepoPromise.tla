---------------------------- MODULE GitRepoPromise ----------------------------
(***************************************************************************)
(* GitRepo implements module Branch when its clients take turns.           *)
(***************************************************************************)
EXTENDS GitRepoProperties

OnBranch(c) == c # Nothing /\ c \in Ancestors(commits, ref)

\* What a request asks for, if it writes.
Asked(t) == IF task[t].req \in Edit THEN task[t].req ELSE Nothing

\* How far a request is for its client.  Its edit has taken effect once the
\* commit built for it is part of the branch.
Pending(t) == \E c \in late : c.of = t /\ ~OnBranch(c.new)
Ended(t) == IF task[t].answer = "ok" THEN "succeeded"
            ELSE IF Pending(t) THEN "abandoned" ELSE "closed"
Status(t) ==
  IF task[t].req \notin Edit THEN "new"
  ELSE CASE task[t].pc = "done"    -> Ended(t)
         [] task[t].pc \in Pushing -> IF OnBranch(task[t].new) THEN "applied" ELSE "open"
         [] OTHER                  -> "open"

Promise == INSTANCE Branch WITH
  tree    <- TreeOf(ref),
  edit    <- [t \in Task |-> Asked(t)],
  status  <- [t \in Task |-> Status(t)],
  Applied <- LAMBDA tree, e : EditTree(Closure(tree), tree, e).root

\* davgit implements the promise of module Branch: every edit takes effect at
\* most once although a push whose report was lost is sent again, and has taken
\* effect when the client is told so (repo.rs 190-198, transport.rs 464-490).
ImplementsBranch == Promise!Spec
===============================================================================
