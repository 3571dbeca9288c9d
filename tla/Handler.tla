------------------------------- MODULE Handler -------------------------------
(***************************************************************************)
(* One request as src/handler.rs serves it, lookup by lookup, while the    *)
(* tasks of GitRepo change the cache.                                      *)
(*                                                                         *)
(* A handler asks repo.rs several things one after the other, and each     *)
(* lookup takes head_oid under one lock and then objects under the other,  *)
(* so that the answers may be about different heads, and one answer about  *)
(* a head whose objects are being replaced.  GitRepo has the checks of a   *)
(* write in one step; this module has all of their steps, and PROPFIND.    *)
(*                                                                         *)
(* A request is an edit of RepoEdits, or a record with op and path and,    *)
(* for GET and HEAD, etag (of the content the client has), for PROPFIND,   *)
(* depth (the header, "" without one).  A restart ends the request.        *)
(***************************************************************************)
EXTENDS GitRepoProperties, Sequences

CONSTANT Request     \* requests to serve

R == INSTANCE RepoEdits WITH NoTree <- Nothing

ASSUME RequestAssumption ==
  /\ "restart" \notin Faults /\ Nothing # "dir"
  /\ \A r \in Request :
       /\ r.op \in {"put", "delete", "mkcol", "copy", "move", "get", "head", "propfind"}
       /\ r.path \in Seq(STRING) /\ (r.op \in {"copy", "move"} => r.dest \in Seq(STRING))

\* What a tree is made of is all that the entries in it point to.
ASSUME ClosureAssumption == \A tree \in Tree : R!Closed(Closure(tree))

VARIABLE web   \* the request: its lookups so far, its answer

Waiting == [pc |-> "idle", req |-> Nothing, head |-> Nothing, facts |-> <<>>,
            calm |-> FALSE, answer |-> Nothing]

-------------------------------------------------------------------------------
\* Answered before any lookup.
Early(r) ==
  \/ r.op = "mkcol" /\ r.body
  \/ r.op # "mkcol" /\ R!IsDavPath(r.path)
  \/ r.op \in {"copy", "move"} /\ R!IsDavPath(r.dest)

\* A mistake: without the header only the resource itself is shown.
MutantDepth(r) == IF r.depth \in {"1", "infinity"} THEN 1 ELSE 0

\* parse_depth, with 1 for no answer.
Depth(r) == IF r.depth = "0" THEN 0 ELSE 1

Ask(what, path, when) == [what |-> what, path |-> path, when |-> when]

\* The lookups a handler makes in their order: is_directory, file_size,
\* read_file or list_dir of a path, when the answers so far ask for it
\* (yes[i]: the i-th found something).
Lookups(r, yes) ==
  LET exists == <<Ask("dir", r.path, TRUE), Ask("file", r.path, ~yes[1])>>
      found  == yes[1] \/ yes[2]
  IN  IF Early(r) THEN <<>>
      ELSE
      CASE r.op = "put" ->
             <<Ask("dir", R!Parent(r.path), TRUE), Ask("file", r.path, TRUE),
               Ask("dir", r.path, ~yes[2])>>
        [] r.op = "delete" -> exists \o <<Ask("dir", r.path, found)>>
        [] r.op = "mkcol"  -> exists \o <<Ask("dir", R!Parent(r.path), ~found)>>
        [] r.op \in {"copy", "move"} ->
             exists \o <<Ask("dir", R!Parent(r.dest), found), Ask("dir", r.dest, yes[3]),
                         Ask("file", r.dest, yes[3] /\ ~yes[4])>>
        [] r.op \in {"get", "head"} ->
             <<Ask("dir", r.path, TRUE), Ask("read", r.path, ~yes[1])>>
        [] r.op = "propfind" ->
             exists \o <<Ask("dir", r.path, found), Ask("file", r.path, found /\ ~yes[3]),
                         Ask("list", r.path, yes[3] /\ Depth(r) >= 1)>>

\* What a lookup finds: "dir", a blob, an answer, rows, or Nothing.
Find(what, objs, tree, path) ==
  CASE what = "dir"  -> IF R!IsDirectory(objs, tree, path) THEN "dir" ELSE Nothing
    [] what = "file" -> IF R!IsFile(objs, tree, path) THEN R!Lookup(objs, tree, path).oid
                        ELSE Nothing
    [] what = "read" -> R!FileContent(objs, tree, path)
    [] what = "list" -> R!ListDir(objs, tree, path)

Yes(facts) == [i \in 1..5 |-> i \in DOMAIN facts /\ facts[i].found # Nothing]

\* The lookups still to be made, and the next of them.
Due ==
  LET script == Lookups(web.req, Yes(web.facts))
  IN  {i \in DOMAIN script : script[i].when /\ \A j \in DOMAIN web.facts : j < i}
NextDue == CHOOSE i \in Due : \A j \in Due : i <= j
Current == Lookups(web.req, Yes(web.facts))[NextDue]

-------------------------------------------------------------------------------
\* handle_get answers 304 for the content the client has; HEAD drops the body.
Conditional(r, answer) ==
  IF answer.status = 200 /\ answer.body = r.etag THEN R!Status(304)
  ELSE IF r.op = "head" THEN R!Status(answer.status) ELSE answer

\* build_multistatus: the resource itself, under the name "", and its children.
Multistatus(self, children) ==
  [status |-> 207, body |-> {self} \cup {c \in children : c.name # R!Marker}]

\* The status of the response, or R!Proceed for a write that is let through.
Answer(r, facts) ==
  LET yes    == Yes(facts)
      found  == yes[1] \/ yes[2]
      len    == IF yes[4] THEN facts[4].found ELSE R!Zero
      list   == IF 5 \in DOMAIN facts THEN facts[5].found ELSE {}
  IN  CASE r.op = "put"    -> R!Status(R!PutAnswer(r, yes[1], yes[2] \/ yes[3]))
        [] r.op = "delete" -> R!Status(R!DeleteAnswer(r, found))
        [] r.op = "mkcol"  -> R!Status(R!MkcolAnswer(r, found, yes[3]))
        [] r.op \in {"copy", "move"} ->
             R!Status(R!CopyMoveAnswer(r, found, yes[3], yes[4] \/ yes[5]))
        [] r.op \in {"get", "head"} ->
             IF 2 \in DOMAIN facts THEN Conditional(r, facts[2].found) ELSE R!Status(404)
        [] r.op = "propfind" ->
             IF found THEN Multistatus(R!Row("", yes[3], len), list) ELSE R!Status(404)

-------------------------------------------------------------------------------
Cached(commit) == commit \in objects /\ Closure(commits[commit].tree) \subseteq objects
CacheWhole     == Cached(head)

Receive ==
  /\ web.pc = "idle"
  /\ \E r \in Request : web' = [web EXCEPT !.pc = "ask", !.req = r, !.calm = CacheWhole]
  /\ UNCHANGED vars

TakeHead ==
  /\ web.pc = "ask" /\ Due # {}
  /\ web' = [web EXCEPT !.pc = "look", !.head = head]
  /\ UNCHANGED vars

\* A mistake: the tree is that of the head of now.
MutantLookUp ==
  /\ web.pc = "look"
  /\ LET found == Find(Current.what, objects \cap Obj, TreeAt(head), Current.path)
         fact  == [ask |-> Current, head |-> web.head, found |-> found]
     IN  web' = [web EXCEPT !.pc = "ask", !.head = Nothing,
                            !.facts = [i \in DOMAIN @ \cup {NextDue} |->
                                         IF i = NextDue THEN fact ELSE @[i]]]
  /\ UNCHANGED vars

LookUp ==
  /\ web.pc = "look"
  /\ LET found == Find(Current.what, objects \cap Obj, TreeAt(web.head), Current.path)
         fact  == [ask |-> Current, head |-> web.head, found |-> found]
     IN  web' = [web EXCEPT !.pc = "ask", !.head = Nothing,
                            !.facts = [i \in DOMAIN @ \cup {NextDue} |->
                                         IF i = NextDue THEN fact ELSE @[i]]]
  /\ UNCHANGED vars

Respond ==
  /\ web.pc = "ask" /\ Due = {}
  /\ web' = [web EXCEPT !.pc = "done", !.answer = Answer(web.req, web.facts)]
  /\ UNCHANGED vars

\* Meanwhile the other requests go on; it is calm while they do no more than
\* push commits made on the cached head.
Others ==
  /\ Next
  /\ web' = [web EXCEPT !.calm = @ /\ (cache' = cache \/ \E t \in Task : Report(t) /\ task[t].base = head)]

HandlerInit == Init /\ web = Waiting
HandlerNext == Receive \/ TakeHead \/ LookUp \/ Respond \/ Others
HandlerSpec == HandlerInit /\ [][HandlerNext]_<<vars, web>>

-------------------------------------------------------------------------------
\* What a lookup finds in the whole tree of a commit.
Whole(ask, commit) ==
  LET tree == commits[commit].tree IN Find(ask.what, Closure(tree), tree, ask.path)

\* Rows with the names and kinds of others, and their lengths or 0.
Shrunk(rows, others) ==
  /\ {<<r.name, r.is_dir>> : r \in rows} = {<<r.name, r.is_dir>> : r \in others}
  /\ \A r \in rows : r.len = R!Zero \/ r \in others

\* What was found is no more than the truth.
Sound(what, found, truth) ==
  CASE what \in {"dir", "file"} -> found # Nothing => found = truth
    [] what = "read" -> found.status = 200 => found = truth
    [] what = "list" -> found = {} \/ Shrunk(found, truth)

\* Whatever becomes of the cache between the two locks of a lookup, it says no
\* more than is so at the head it read: a directory or a file it sees is there
\* with that length and content, and a listing is empty or that of one head,
\* a length 0 in it apart, never a mixture of two.
FactsSound ==
  \A i \in DOMAIN web.facts :
    LET f == web.facts[i] IN Sound(f.ask.what, f.found, Whole(f.ask, f.head))

\* While other requests only push, and fetch nothing, every lookup gives the
\* whole truth of the head it read: a push never takes anything from a reader,
\* and never shows a head before its objects.
PushesDoNotDisturb ==
  web.calm => \A i \in DOMAIN web.facts :
                LET f == web.facts[i] IN f.found = Whole(f.ask, f.head)

\* The answer to a request made of a whole tree at once.
Expected(r, tree) ==
  LET objs  == Closure(tree)
      isDir == R!IsDirectory(objs, tree, r.path)
      self  == R!Row("", isDir, IF isDir THEN R!Zero ELSE R!Lookup(objs, tree, r.path).oid)
  IN  CASE r.op \in {"get", "head"} -> Conditional(r, R!Get(objs, tree, r.path))
        [] r.op = "propfind" ->
             IF R!IsDavPath(r.path) \/ ~R!Exists(objs, tree, r.path) THEN R!Status(404)
             ELSE Multistatus(self, IF isDir /\ r.depth # "0" THEN R!ListDir(objs, tree, r.path)
                                    ELSE {})
        [] OTHER -> R!Status(R!HandlerCheck(objs, tree, r))

\* A request whose lookups all read the same head, with only pushes meanwhile,
\* is answered as from one look at that head's tree: the short cuts between
\* the lookups (handler.rs, && and ||, and the order of the early returns)
\* change nothing.
OneHeadAnswers ==
  web.pc = "done" /\ web.calm =>
    \A c \in Commit :
      (DOMAIN web.facts # {} /\ \A i \in DOMAIN web.facts : web.facts[i].head = c) =>
        web.answer = Expected(web.req, commits[c].tree)

-------------------------------------------------------------------------------
(* Why that is so.                                                          *)

\* The heads that were read are commits.
HeadsKnown ==
  /\ web.pc = "look" => web.head \in Commit /\ Made(web.head)
  /\ \A i \in DOMAIN web.facts :
       web.facts[i].head \in Commit /\ Made(web.facts[i].head)

\* The commit of a push is made of its base's tree and of what is pushed.
PackOnBase(s) ==
  s.pc \in Pushing =>
    /\ s.base \in Commit /\ Made(s.base)
    /\ Closure(TreeOf(s.new)) \subseteq Closure(TreeOf(s.base)) \cup s.buf

\* In the calm the cache has its head and the head of the lookup under way.
CalmInv ==
  web.calm => CacheWhole /\ (web.pc = "look" => Cached(web.head))

\* The lookups made are those the handler makes, each as the earlier ones
\* asked for it, and none of them was left out.
Script == Lookups(web.req, Yes(web.facts))
ScriptInv ==
  /\ web.req \in Request /\ DOMAIN web.facts \subseteq DOMAIN Script
  /\ \A i \in DOMAIN web.facts :
       LET ask == web.facts[i].ask IN ask.what = Script[i].what /\ ask.path = Script[i].path
  /\ \A i \in DOMAIN Script :
       i \in DOMAIN web.facts <=> Script[i].when /\ \E j \in DOMAIN web.facts : i <= j
  /\ web.pc = "look" => Due # {}
  /\ web.pc = "done" => Due = {} /\ web.answer = Answer(web.req, web.facts)

WebIsRecord ==
  /\ web = [pc |-> web.pc, req |-> web.req, head |-> web.head, facts |-> web.facts,
            calm |-> web.calm, answer |-> web.answer]
  /\ web.pc \in {"idle", "ask", "look", "done"} /\ web.calm \in BOOLEAN
PacksOnBase == \A t \in Task : PackOnBase(task[t])

\* The state a request is in at every step: how far its script has come, that
\* the heads it saw are commits, what the calm leaves in the cache, and what is
\* in the packs of the pushes under way.  With IInv it is inductive.
HandlerInv ==
  /\ WebIsRecord /\ IF web.pc = "idle" THEN web = Waiting ELSE ScriptInv
  /\ HeadsKnown /\ CalmInv /\ PacksOnBase
===============================================================================
