------------------------------- MODULE MCGitRepo -------------------------------
\* Small instances of GitRepo: a flat file system of one or two names, with the
\* checks and edits of the program itself (module RepoEdits).
EXTENDS GitRepoPromise

CONSTANTS Names, Data

LOCAL TLC == INSTANCE TLC
E == INSTANCE RepoEdits WITH NoTree <- Nothing

Entries == {E!Entry(n, "blob", E!Blob(d)) : n \in Names, d \in Data}
MCTree  == {E!TreeOf(s) : s \in {s \in SUBSET Entries : \A e, f \in s : e.name = f.name => e = f}}
MCObj   == MCTree \cup {E!Blob(d) : d \in Data}
Full    == E!TreeOf({E!Entry("a", "blob", E!Blob("x"))})

MCClosure(tree)        == E!CollectAllOids(MCObj, tree)
MCReach(objs, tree)    == E!CollectAllOids(objs, tree)
MCReadFile(objs, tree, r) == E!Get(objs, tree, r.path).body
MCPrecheck(objs, tree, e) ==
  LET status == E!HandlerCheck(objs, tree, e)
  IN  CASE status = E!Proceed -> "go" [] status = 201 -> "acked" [] OTHER -> "refused"
MCEditTree(objs, tree, e) ==
  LET r == E!Edited(objs, tree, e)
  IN  IF r.ok THEN [ok |-> TRUE, root |-> r.root, pack |-> {r.pack[i] : i \in DOMAIN r.pack}]
      ELSE [ok |-> FALSE, root |-> Nothing, pack |-> {}]

GetOf(n) == [op |-> "get", path |-> <<n>>]

\* The concurrent runs: edits that touch different names, and a read.
MCRead  == {GetOf("a")}
MCEdit  == {E!Put(<<"b">>, "x", ""), E!Delete(<<"a">>)}

\* No definition tells one request from another.
Symmetry == TLC!Permutations(Task)

\* The sequential runs: edits of one directory that undo each other.
SeqEdit == {E!Put(<<"a">>, "", ""), E!Put(<<"b">>, "x", "If-None-Match"), E!Put(<<"b">>, "", ""),
            E!Delete(<<"a">>)}

\* With moves: a second move of the same file fails.
LateEdit == {E!Put(<<"b">>, "x", "If-None-Match"), E!Put(<<"a">>, "", ""),
             E!Move(<<"a">>, <<"b">>, TRUE), E!Delete(<<"a">>)}

\* Two clients create the same file.
CreateEdit == {E!Put(<<"b">>, d, "If-None-Match") : d \in Data}

\* handler.rs:152: "Handle If-None-Match: * - create only if not exists".  A
\* commit for such a PUT adds its file to a tree that does not have it.
CreateOnly ==
  \A c \in Commit : Made(c) /\ commits[c].edit \in CreateEdit =>
    LET parent == TreeOf(commits[c].parent)
    IN  ~E!Exists(MCClosure(parent), parent, commits[c].edit.path)

MCOthers == {E!TreeOf({E!Entry("a", "blob", E!Blob("y"))})}
===============================================================================
