------------------------------- MODULE MCHandler -------------------------------
\* A small instance of Handler: a directory d that loses a file or becomes one
\* by the writes of davgit, and a directory e that another client removes.
EXTENDS Handler

LOCAL TLC == INSTANCE TLC

File(name, data) == R!Entry(name, "blob", R!Blob(data))
Dir(name, tree)  == R!Entry(name, "tree", tree)

Less == {File("b", "y"), File(R!Marker, "")}
Kinds == {File("d", "x"), Dir("d", R!TreeOf(Less)), Dir("d", R!TreeOf(Less \cup {File("a", "x")}))}
Last  == Dir("e", R!TreeOf(Less))

MCTree  == {R!TreeOf({d} \cup e) : d \in Kinds, e \in {{}, {Last}}}
MCObj   == MCTree \cup {d.oid : d \in Kinds} \cup {R!Blob(data) : data \in {"", "x", "y"}}
Start   == R!TreeOf({Dir("d", R!TreeOf(Less \cup {File("a", "x")})), Last})
MCOther == {R!TreeOf({File("d", "x")})}
MCEdit  == {R!Put(<<"d">>, "x", ""), R!Delete(<<"d", "a">>)}

MCClosure(tree)     == R!CollectAllOids(MCObj, tree)
MCReach(objs, tree) == R!CollectAllOids(objs, tree)
MCReadFile(objs, tree, r) == R!Get(objs, tree, r.path).body
MCPrecheck(objs, tree, e) ==
  LET status == R!HandlerCheck(objs, tree, e)
  IN  CASE status = R!Proceed -> "go" [] status = 201 -> "acked" [] OTHER -> "refused"
MCEditTree(objs, tree, e) ==
  LET r == R!Edited(objs, tree, e)
  IN  IF r.ok THEN [ok |-> TRUE, root |-> r.root, pack |-> {r.pack[i] : i \in DOMAIN r.pack}]
      ELSE [ok |-> FALSE, root |-> Nothing, pack |-> {}]

GetOf(op, path, etag)  == [op |-> op, path |-> path, etag |-> etag]
Propfind(path, depth)  == [op |-> "propfind", path |-> path, depth |-> depth]

\* No definition tells one task from another.
Symmetry == TLC!Permutations(Task)

MCRequest ==
  {GetOf("get", <<"e", "b">>, R!Blob("y")), Propfind(<<"d">>, ""), Propfind(<<>>, "0"),
   R!Put(<<"d", "a">>, "", "If-Match"), R!Delete(<<"d", R!Marker>>),
   R!Mkcol(<<"d", "c">>, FALSE), R!Mkcol(<<"c">>, TRUE), R!Move(<<"e">>, <<"d">>, FALSE)}
===============================================================================
