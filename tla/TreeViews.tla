------------------------------ MODULE TreeViews ------------------------------
(***************************************************************************)
(* A tree as a file system: what is at each path of it.  A reference that  *)
(* follows entries and knows nothing of maps, modes or missing objects.    *)
(***************************************************************************)
EXTENDS GitObjects

Directory == [kind |-> "directory"]

\* What the entries with this name lead to.
Led(objs, name) == {e.oid : e \in UNION {Named(x, name) : x \in objs}}

\* What each prefix of the path leads to.
Reached(tree, path) ==
  LET at[n \in 0..Len(path)] == IF n = 0 THEN {tree} ELSE Led(at[n - 1], path[n])
  IN  at

\* What is at a path: a file, a directory, or nothing.
Shown(objs)      == {IF x.kind = "tree" THEN Directory ELSE x : x \in objs}
Seen(tree, path) == Shown(Reached(tree, path)[Len(path)])
===============================================================================
