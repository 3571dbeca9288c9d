------------------------------ MODULE TreeEdits ------------------------------
(***************************************************************************)
(* One WebDAV write, from the handler's checks to the rebuilt tree, and    *)
(* what the objects before and after it are to each other.                 *)
(*                                                                         *)
(* The checks read the cache before the fetch and the edit works on the    *)
(* tree after it, so every edit is made on every tree; Checked says that   *)
(* the handler would have let it through on this one.                      *)
(***************************************************************************)
EXTENDS RepoEdits, TreeViews, SequencesExt

CONSTANTS Roots,      \* the trees a write may find
          Requests,   \* the edits it may make
          Parts(_),   \* every object a tree is made of
          Paths       \* where to look afterwards

VARIABLES root,      \* tree of the commit the write builds on
          request,   \* the edit made, or NoTree before it
          outcome    \* what the edit returned, or NoTree before it
vars == <<root, request, outcome>>

-------------------------------------------------------------------------------
ASSUME PartsAssumption ==
  \A tree \in Roots : /\ tree \in Parts(tree) /\ tree # NoTree /\ tree.kind = "tree"
                      /\ Closed(Parts(tree)) /\ WellFormed(Parts(tree))

ASSUME RequestsAssumption ==
  \A e \in Requests :
    /\ e # NoTree /\ e.op \in {"put", "delete", "mkcol", "copy", "move"}
    /\ e.path \in Seq(STRING) /\ (e.op \in {"copy", "move"} => e.dest \in Seq(STRING))

ASSUME PathsAssumption == \A path \in Paths : path \in Seq(STRING)

-------------------------------------------------------------------------------
Init == root \in Roots /\ request = NoTree /\ outcome = NoTree

Edit(e) ==
  /\ request = NoTree
  /\ request' = e
  /\ outcome' = Edited(Parts(root), root, e)
  /\ UNCHANGED root

Finished == request # NoTree /\ UNCHANGED vars

Next == (\E e \in Requests : Edit(e)) \/ Finished
Spec == Init /\ [][Next]_vars

Done      == request # NoTree
Checked   == Done /\ HandlerCheck(Parts(root), root, request) = Proceed
Succeeded == Done /\ outcome.ok
Pushed    == {outcome.pack[i] : i \in DOMAIN outcome.pack}

-------------------------------------------------------------------------------
(* What was asked for, path by path.                                        *)

Before(path) == Seen(root, path)

\* The path below one directory that a path below another corresponds to.
Rebased(path, from, to) == to \o SubSeq(path, Len(from) + 1, Len(path))

\* The destination is emptied before the source is copied.
Cleared(path) == IF IsPrefix(request.dest, path) THEN {} ELSE Before(path)
Copied(path)  ==
  IF IsPrefix(request.dest, path) THEN Cleared(Rebased(path, request.dest, request.path))
  ELSE Before(path)

Asked(path) ==
  CASE request.op = "put"    -> IF path = request.path THEN {Blob(request.data)}
                                ELSE IF IsPrefix(request.path, path) THEN {} ELSE Before(path)
    [] request.op = "delete" -> IF IsPrefix(request.path, path) THEN {} ELSE Before(path)
    [] request.op = "mkcol"  -> IF path = request.path THEN {Directory}
                                ELSE IF path = Append(request.path, Marker) THEN {Blob("")}
                                ELSE Before(path)
    [] request.op = "copy"   -> Copied(path)
    [] request.op = "move"   -> IF IsPrefix(request.path, path) /\ ~IsPrefix(request.dest, path)
                                THEN {} ELSE Copied(path)

\* Requests that pass the checks and cannot be carried out, answered with 500:
\* a source that is the destination or lies below it goes with the destination
\* before it is copied (repo.rs 382-389), and the root is no entry of a tree to
\* write over or to remove.
SourceInTarget == request.op \in {"copy", "move"} /\ IsPrefix(request.dest, request.path)
OfTheRoot      == request.path = <<>> /\ request.op # "copy"
Impossible     == SourceInTarget \/ OfTheRoot

\* The removal of the source takes a copy below it along (repo.rs 391-395):
\* MoveKeepsContent is about that, here only what is beside the source counts.
IntoItself == request.op = "move" /\ IsPrefix(request.path, request.dest)

\* An edit the handler let through on this very tree fails and leaves the tree
\* to be, if it is impossible; else it succeeds, and what the new tree has at
\* each path is what the request asks for, nothing else touched.
EditDoesWhatWasAsked ==
  Checked =>
    IF Impossible THEN ~outcome.ok
    ELSE /\ outcome.ok
         /\ \A path \in Paths :
              \/ IntoItself /\ IsPrefix(request.path, path)
              \/ Seen(outcome.root, path) = Asked(path)

\* README.md:9: "COPY and MOVE for files and directories".  What was at the
\* source is at the destination afterwards.
MoveKeepsContent ==
  Succeeded /\ Checked /\ request.op = "move" =>
    \A path \in Paths : IsPrefix(request.dest, path) =>
      Seen(outcome.root, path) = Before(Rebased(path, request.dest, request.path))

-------------------------------------------------------------------------------
\* The objects pushed with the commit, and those the remote has of the tree
\* the commit builds on, have the new tree whole: the pack that
\* push_with_cache sends is never short of a tree or a blob.
PackSuffices ==
  Succeeded => outcome.root \in Parts(root) \cup Pushed /\ Closed(Parts(root) \cup Pushed)

\* The local map after the edit has the new tree whole, which is what the
\* next edit of the same request (a move's removal) walks.
MapSuffices == Succeeded => outcome.root \in outcome.objects /\ Closed(outcome.objects)

\* What is pushed can be read back by find_tree_entry and by git.  (Not so for
\* an edit below a path that became a file since the check: its entry keeps
\* the mode of a file.)
TreeStaysWellFormed == Succeeded /\ Checked => WellFormed(Parts(root) \cup Pushed)

\* An edit on a map that lacks objects either fails or does just what it does
\* on the whole map: a pruned or half filled cache can refuse a write but not
\* change what it means.
EditIsLocal ==
  Done =>
    \A held \in SUBSET Parts(root) :
      LET r == Edited(held, root, request)
      IN  r.ok => outcome.ok /\ r.root = outcome.root /\ r.pack = outcome.pack
===============================================================================
