------------------------------ MODULE GitObjects ------------------------------
(***************************************************************************)
(* The object algorithms of src/git/objects.rs: walking a path through     *)
(* trees, rebuilding the spine of trees above a changed entry, and         *)
(* collecting what a tree reaches.                                         *)
(*                                                                         *)
(* An object id is the hash of the object's bytes (packfile.rs,            *)
(* hash_object).  Hashes are taken to be collision free, so an id is       *)
(* represented by the object itself, and a HashMap from ids to bytes by    *)
(* the set of the objects it holds.  A tree is canonical (its entries are  *)
(* sorted before it is written), so its entries are a set.                 *)
(*                                                                         *)
(* What the code does by recursion is here a function of the place in the  *)
(* path, or of the objects walked.                                         *)
(***************************************************************************)
EXTENDS Sequences, FiniteSets, Naturals

Blob(data)              == [kind |-> "blob", data |-> data]
TreeOf(entries)         == [kind |-> "tree", entries |-> entries]
Entry(name, mode, oid)  == [name |-> name, mode |-> mode, oid |-> oid]
EmptyTree               == TreeOf({})

\* What TreeRefIter yields with flatten(): the bytes of a blob are no entries.
Entries(object) == IF object.kind = "tree" THEN object.entries ELSE {}

Named(object, name) == {e \in Entries(object) : e.name = name}

-------------------------------------------------------------------------------
\* collect_all_oids: the walk goes no further below a tree that is not held.
CollectAllOids(objects, tree) ==
  LET from[t \in objects] ==
        {t} \cup UNION {IF e.mode = "tree" /\ e.oid \in objects THEN from[e.oid]
                       ELSE {e.oid} : e \in Entries(t)}
  IN  IF tree \in objects THEN from[tree] ELSE {tree}

\* The three answers of find_tree_entry: Ok(Some(mode, oid)), Ok(None), Err.
Found(mode, oid) == [answer |-> "some", mode |-> mode, oid |-> oid]
NotFound         == [answer |-> "none"]
Broken           == [answer |-> "err"]

\* The entry with this name below what has been found so far.
Descend(objects, at, name) ==
  IF at.answer # "some" THEN at
  ELSE IF at.mode # "tree" THEN NotFound
  ELSE IF at.oid \notin objects THEN Broken
  ELSE IF Named(at.oid, name) = {} THEN NotFound
  ELSE LET e == CHOOSE e \in Named(at.oid, name) : TRUE IN Found(e.mode, e.oid)

\* What is found at each prefix of the path.
Walk(objects, tree, path) ==
  LET at[n \in 0..Len(path)] ==
        IF n = 0 THEN Found("tree", tree) ELSE Descend(objects, at[n - 1], path[n])
  IN  at

FindTreeEntry(objects, tree, path) == Walk(objects, tree, path)[Len(path)]

-------------------------------------------------------------------------------
\* A leaf to insert at a path, or the request to remove the one that is there.
Leaf(mode, oid) == [mode |-> mode, oid |-> oid]
Removal         == [mode |-> "none"]

Failed(objects) == [ok |-> FALSE, objects |-> objects]

\* The entry modify_tree_entry goes down into: one that exists, whatever its
\* mode, or an empty tree in its place.
Child(tree, name) ==
  IF Named(tree, name) = {} THEN Entry(name, "tree", EmptyTree)
  ELSE CHOOSE e \in Named(tree, name) : TRUE

\* The trees on the way down, one for each name of the path.
Spine(tree, path) ==
  LET at[n \in 1..Len(path)] ==
        IF n = 1 THEN tree ELSE Child(at[n - 1], path[n - 1]).oid
  IN  at

\* The trees that replace them, made on the way up.  A child keeps its mode.
Rebuilt(spine, path, leaf) ==
  LET Others(n) == Entries(spine[n]) \ Named(spine[n], path[n])
      new[n \in DOMAIN spine] ==
        TreeOf(Others(n) \cup
               IF n < Len(path)
               THEN {Entry(path[n], Child(spine[n], path[n]).mode, new[n + 1])}
               ELSE IF leaf = Removal THEN {} ELSE {Entry(path[n], leaf.mode, leaf.oid)})
  IN  new

\* modify_tree_entry.  Each new tree is put into the map, as is an empty tree
\* made on the way down; the list handed back has the root first.
ModifyTreeEntry(objects, tree, path, leaf) ==
  LET spine     == Spine(tree, path)
      new       == Rebuilt(spine, path, leaf)
      Absent(n) == Named(spine[n], path[n]) = {}
      Held(n)   == spine[n] \in objects \/ (n > 1 /\ Absent(n - 1))
      made      == {EmptyTree : n \in {n \in DOMAIN spine : n < Len(path) /\ Absent(n)}}
  IN  IF path = <<>> \/ \E n \in DOMAIN spine : ~Held(n) \/ (leaf = Removal /\ Absent(n))
      THEN Failed(objects)
      ELSE [ok      |-> TRUE,
            root    |-> new[1],
            pack    |-> new,
            objects |-> objects \cup made \cup {new[n] : n \in DOMAIN new}]

\* Mistakes: the copy is a file whatever the source is; a source that is not
\* found leaves nothing to do.
MutantFileMode(objects, root, src, dest) ==
  LET found == FindTreeEntry(objects, root, src)
  IN  IF found.answer # "some" THEN Failed(objects)
      ELSE ModifyTreeEntry(objects, root, dest, Leaf("blob", found.oid))
MutantNoSource(objects, root, src, dest) ==
  LET found == FindTreeEntry(objects, root, src)
  IN  IF found.answer # "some"
      THEN [ok |-> TRUE, root |-> root, pack |-> <<>>, objects |-> objects]
      ELSE ModifyTreeEntry(objects, root, dest, Leaf(found.mode, found.oid))

CopyTreeEntry(objects, root, src, dest) ==
  LET found == FindTreeEntry(objects, root, src)
  IN  IF found.answer # "some" THEN Failed(objects)
      ELSE ModifyTreeEntry(objects, root, dest, Leaf(found.mode, found.oid))

RemoveTreeEntry(objects, root, path) ==
  ModifyTreeEntry(objects, root, path, Removal)

-------------------------------------------------------------------------------
\* Objects that need no other: whoever has them has their trees whole.
Closed(objs) == \A x \in objs : \A e \in Entries(x) : e.oid \in objs

\* Entries carry the mode of what they point to, and names are unique.
WellFormed(objs) ==
  \A x \in objs : \A e \in Entries(x) : e.mode = e.oid.kind /\ Named(x, e.name) = {e}
===============================================================================
