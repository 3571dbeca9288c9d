------------------------------- MODULE GitRepo -------------------------------
(***************************************************************************)
(* The repository cache of davgit and its protocol with the remote.        *)
(*                                                                         *)
(* Every HTTP request is a task of the server.  Tasks run concurrently and *)
(* share the two fields of GitRepo, head_oid and objects, each under a     *)
(* mutex of its own (src/git/repo.rs).  A write fetches the branch, edits  *)
(* the tree of the cached head, builds a commit on it and pushes it, with  *)
(* an SSH session of its own for the fetch and for each try of the push    *)
(* (src/git/transport.rs).                                                 *)
(*                                                                         *)
(* The remote (git-upload-pack, git-receive-pack and the branch) is not    *)
(* part of src/; it is modelled from what transport.rs sends and expects.  *)
(*                                                                         *)
(* What an edit does to a tree is a parameter: see EditTree and the module *)
(* RepoEdits, which gives it its value in the model-checking modules.      *)
(***************************************************************************)
EXTENDS Naturals, FiniteSets

CONSTANTS
  Task,          \* HTTP requests being served, one task each
  Commit,        \* ids of commits
  Obj,           \* ids of trees and blobs
  Tree,          \* those of trees that are the root of a commit
  Edit,          \* requests that write: PUT, DELETE, MKCOL, COPY, MOVE
  Read,          \* requests that read a file: GET, HEAD
  Nothing,       \* no commit, no content, no request
  Root,          \* the commit the branch points to at startup
  InitialTree,   \* and its tree
  OtherTree,     \* trees that other git clients push
  MaxOthers,     \* bound: pushes by other git clients
  MaxInFlight,   \* bound: requests served at a time
  MaxAttempts,   \* MAX_RETRIES of repo.rs
  MaxTries,      \* MAX_RETRIES of transport.rs
  DenyNonFastForwards, \* receive.denyNonFastForwards at the remote
  Faults,        \* what may go wrong, a subset of AllFaults
  Closure(_),        \* objects a tree is made of
  Reach(_, _),       \* collect_all_oids: those found in a set of objects
  Precheck(_, _, _), \* the handler's answer before a write, or "go"
  ReadFile(_, _, _), \* content of a file in a set of objects, or Nothing
  EditTree(_, _, _)  \* the edit of a tree: [ok, root, pack]

AllFaults == {"session", "cut", "corrupt", "lost", "late", "unpack", "refuse", "rejected",
              "cancel", "restart"}

CommitOf(parent, tree, edit) == [parent |-> parent, tree |-> tree, edit |-> edit]

ASSUME SetAssumption ==
  /\ Tree \subseteq Obj /\ OtherTree \subseteq Tree /\ InitialTree \in Tree
  /\ Root \in Commit
  /\ Nothing \notin Commit \cup Obj \cup Edit \cup Read
  /\ \A parent \in Commit \cup {Nothing}, tree \in Tree, e \in Edit \cup {Nothing} :
       CommitOf(parent, tree, e) # Nothing
  /\ Commit \cap Obj = {} /\ Edit \cap Read = {}
  /\ Faults \subseteq AllFaults

ASSUME BoundAssumption ==
  /\ MaxOthers \in Nat /\ MaxInFlight \in Nat
  /\ MaxAttempts \in Nat \ {0} /\ MaxTries \in Nat \ {0}
  /\ DenyNonFastForwards \in BOOLEAN

\* A walk finds only objects of the tree, and all of them if none is missing.
ASSUME ReachAssumption ==
  \A tree \in Tree :
    /\ tree \in Closure(tree) /\ Closure(tree) \subseteq Obj
    /\ \A objs \in SUBSET Obj :
         /\ Reach(objs, tree) \subseteq Closure(tree)
         /\ Closure(tree) \subseteq objs => Reach(objs, tree) = Closure(tree)

\* The new tree is made of objects of the old one and of those handed back for
\* the pack, and an edit that finds the objects it needs does what it would do
\* on the whole tree (checked of the code's algorithm by TreeEdits).
ASSUME EditAssumption ==
  \A tree \in Tree, e \in Edit, objs \in SUBSET Obj :
    LET r == EditTree(objs, tree, e)
    IN  r.ok => /\ r.root \in Tree /\ r.pack \subseteq Obj
                /\ Closure(r.root) \subseteq Closure(tree) \cup r.pack
                /\ EditTree(Closure(tree), tree, e) = r

\* Without the head commit nothing is found; content that is found is the
\* file's content in the whole tree.
ASSUME ReadAssumption ==
  \A r \in Read, objs \in SUBSET Obj :
    /\ ReadFile(objs, Nothing, r) = Nothing
    /\ \A tree \in Tree :
         /\ ReadFile(objs, tree, r) \in Obj \cup {Nothing}
         /\ ReadFile(objs, tree, r) \in {Nothing, ReadFile(Closure(tree), tree, r)}

\* The checks let a write through, refuse it, or acknowledge it as it is.
ASSUME PrecheckAssumption ==
  \A tree \in Tree \cup {Nothing}, e \in Edit, objs \in SUBSET Obj :
    Precheck(objs, tree, e) \in {"go", "refused", "acked"}

VARIABLES
  head,     \* GitRepo::head_oid
  objects,  \* GitRepo::objects
  ref,      \* the branch at the remote
  store,    \* the remote's objects
  late,     \* push commands under way that no task waits for any more
  commits,  \* what each commit id stands for, Nothing if it has not been built
  task      \* the state of each request, see NotStarted

cache  == <<head, objects>>
remote == <<ref, store, late>>
vars   == <<head, objects, ref, store, late, commits, task>>

-------------------------------------------------------------------------------
\* Ids a commit with this content can get: one that has not been used, or the
\* one an equal commit has.  The id is a hash of the content, whose timestamp
\* (build_commit) counts seconds, so two equal commits may share an id or not.
Fresh           == {c \in Commit : commits[c] = Nothing}
IdsFor(content) == {c \in Commit : commits[c] = content} \cup
                   (IF Fresh = {} THEN {} ELSE {CHOOSE c \in Fresh : TRUE})

Ancestors(made, commit) ==
  LET anc[c \in Commit] ==
        {c} \cup IF made[c] = Nothing THEN {}
                 ELSE IF made[c].parent = Nothing THEN {} ELSE anc[made[c].parent]
  IN  anc[commit]

NotStarted ==
  [pc      |-> "idle",
   req     |-> Nothing,
   attempt |-> 0,        \* round of the retry loop in repo.rs
   tries   |-> 0,        \* round of the retry loop in transport.rs
   base    |-> Nothing,  \* the head read: have of a fetch, parent of a commit
   adv     |-> Nothing,  \* the old value of the branch in the push command
   new     |-> Nothing,  \* the commit fetched or pushed
   buf     |-> {},       \* objects received, merged, or to push
   report  |-> {},       \* what the server's report contains
   answer  |-> "none",
   body    |-> Nothing]  \* content of the file, for a read

Finished == {"idle", "done"}
InFlight == {t \in Task : task[t].pc \notin Finished} \cup {c.of : c \in late}

\* The request is answered.  The commit stays for a push that succeeded.
Finish(t, answer) ==
  [NotStarted EXCEPT !.pc = "done", !.req = task[t].req, !.answer = answer]

Step(t, state) == task' = [task EXCEPT ![t] = state]

-------------------------------------------------------------------------------
(* Serving a request: the handler's checks, or a read.                      *)

\* Each lookup of repo.rs takes the head first and the objects after it.
Submit(t) ==
  /\ task[t].pc = "idle"
  /\ Cardinality(InFlight) < MaxInFlight
  /\ \E r \in Edit \cup Read :
       Step(t, [NotStarted EXCEPT !.pc = "check", !.req = r, !.base = head])
  /\ UNCHANGED <<cache, remote, commits>>

\* The tree a lookup starts from: none if the head commit is not cached.
TreeAt(commit) == IF commit \in objects THEN commits[commit].tree ELSE Nothing

\* A mistake: the lookup reads the head again after the objects.
MutantCheck(t) ==
  /\ task[t].pc = "check"
  /\ LET r     == task[t].req
         tree  == TreeAt(head)
         check == Precheck(objects \cap Obj, tree, r)
     IN  \/ /\ r \in Read
            /\ Step(t, [Finish(t, "read") EXCEPT
                          !.base = task[t].base,
                          !.body = ReadFile(objects \cap Obj, tree, r)])
         \/ /\ r \in Edit /\ check = "go"
            /\ Step(t, [task[t] EXCEPT !.pc = "fetch", !.attempt = 1, !.base = Nothing])
         \/ /\ r \in Edit /\ check # "go"
            /\ Step(t, Finish(t, check))
  /\ UNCHANGED <<cache, remote, commits>>

Check(t) ==
  /\ task[t].pc = "check"
  /\ LET r     == task[t].req
         tree  == TreeAt(task[t].base)
         check == Precheck(objects \cap Obj, tree, r)
     IN  \/ /\ r \in Read
            /\ Step(t, [Finish(t, "read") EXCEPT
                          !.base = task[t].base,
                          !.body = ReadFile(objects \cap Obj, tree, r)])
         \/ /\ r \in Edit /\ check = "go"
            /\ Step(t, [task[t] EXCEPT !.pc = "fetch", !.attempt = 1, !.base = Nothing])
         \/ /\ r \in Edit /\ check # "go"
            /\ Step(t, Finish(t, check))
  /\ UNCHANGED <<cache, remote, commits>>

-------------------------------------------------------------------------------
(* fetch                                                                    *)

\* A mistake: the edit is made without a fetch before it.
MutantNoFetch(t) ==
  /\ task[t].pc = "fetch"
  /\ Step(t, [task[t] EXCEPT !.pc = "claim"])
  /\ UNCHANGED <<cache, remote, commits>>

StartFetch(t) ==
  /\ task[t].pc = "fetch"
  /\ Step(t, [task[t] EXCEPT !.pc = "upload", !.base = head, !.tries = 1])
  /\ UNCHANGED <<cache, remote, commits>>

\* What upload-pack packs for a client that has a commit and wants another.
NewObjects(have, want) ==
  IF have = want THEN {}
  ELSE {want} \cup (Closure(commits[want].tree) \ Closure(commits[have].tree))

\* No PACK in the answer: the cache is taken to be up to date.
NothingNew(t) == [task[t] EXCEPT !.pc = "claim", !.base = Nothing]

\* A session of git-upload-pack that ends with an answer.  When there is
\* nothing to send the server may send an empty pack or none.  Fault "cut" ends
\* it before its pack: so git's own server answers every fetch that has a base,
\* as try_fetch sends its have before the flush (transport.rs 423-427).
Upload(t) ==
  /\ task[t].pc = "upload"
  /\ \/ Step(t, [task[t] EXCEPT !.pc = "merge", !.new = ref,
                                !.buf = NewObjects(task[t].base, ref)])
     \/ ref = task[t].base /\ Step(t, NothingNew(t))
     \/ "cut" \in Faults /\ Step(t, NothingNew(t))
     \/ "corrupt" \in Faults /\ Step(t, Finish(t, "error"))
  /\ UNCHANGED <<cache, remote, commits>>

\* A mistake: what was received replaces the cache.
MutantMerge(t) ==
  /\ task[t].pc = "merge"
  /\ Step(t, [task[t] EXCEPT !.pc = "setHead"])
  /\ UNCHANGED <<cache, remote, commits>>

\* The objects received are merged into a copy of the cache, which is pruned
\* to what the new head needs.
Merge(t) ==
  /\ task[t].pc = "merge"
  /\ LET merged == objects \cup task[t].buf
         new    == task[t].new
         kept   == {new} \cup Reach(merged \cap Obj, commits[new].tree)
     IN  \/ new \in merged /\ Step(t, [task[t] EXCEPT !.pc = "setHead", !.buf = merged \cap kept])
         \/ new \notin merged /\ Step(t, Finish(t, "error"))
  /\ UNCHANGED <<cache, remote, commits>>

\* The two fields are written under two locks, one after the other.
SetHead(t) ==
  /\ task[t].pc = "setHead"
  /\ head' = task[t].new
  /\ Step(t, [task[t] EXCEPT !.pc = "setObjects"])
  /\ UNCHANGED <<objects, remote, commits>>

SetObjects(t) ==
  /\ task[t].pc = "setObjects"
  /\ objects' = task[t].buf
  /\ Step(t, [task[t] EXCEPT !.pc = "claim", !.base = Nothing, !.new = Nothing, !.buf = {}])
  /\ UNCHANGED <<head, remote, commits>>

-------------------------------------------------------------------------------
(* claim_objects, the tree edit and build_commit                            *)

ClaimHead(t) ==
  /\ task[t].pc = "claim"
  /\ Step(t, [task[t] EXCEPT !.pc = "build", !.base = head])
  /\ UNCHANGED <<cache, remote, commits>>

\* Mistakes: the pack is sent without the new trees, the parent is read again
\* after the tree was edited.
MutantBuild(t, parent, packed(_)) ==
  /\ task[t].pc = "build"
  /\ LET edited  == EditTree(objects \cap Obj, commits[task[t].base].tree, task[t].req)
         content == CommitOf(parent, edited.root, task[t].req)
     IN  \/ /\ task[t].base \in objects /\ edited.ok
            /\ \E c \in IdsFor(content) :
                 /\ commits' = [commits EXCEPT ![c] = content]
                 /\ Step(t, [task[t] EXCEPT !.pc = "push", !.new = c, !.tries = 1,
                                            !.buf = {c} \cup packed(edited)])
         \/ /\ task[t].base \notin objects \/ ~edited.ok
            /\ Step(t, Finish(t, "error"))
            /\ UNCHANGED commits
  /\ UNCHANGED <<cache, remote>>
MutantNoTrees(t)    == MutantBuild(t, task[t].base, LAMBDA r : r.pack \ Tree)
MutantLateParent(t) == MutantBuild(t, head, LAMBDA r : r.pack)

Build(t) ==
  /\ task[t].pc = "build"
  /\ LET base    == task[t].base
         edited  == EditTree(objects \cap Obj, commits[base].tree, task[t].req)
         content == CommitOf(base, edited.root, task[t].req)
     IN  \/ /\ base \in objects /\ edited.ok
            /\ \E c \in IdsFor(content) :
                 /\ commits' = [commits EXCEPT ![c] = content]
                 /\ Step(t, [task[t] EXCEPT !.pc = "push", !.new = c, !.tries = 1,
                                            !.buf = {c} \cup edited.pack])
         \/ /\ base \notin objects \/ ~edited.ok
            /\ Step(t, Finish(t, "error"))
            /\ UNCHANGED commits
  /\ UNCHANGED <<cache, remote>>

-------------------------------------------------------------------------------
(* do_push                                                                  *)

\* The old value in the command is the one the server has just advertised.
Advertise(t) ==
  /\ task[t].pc = "push"
  /\ Step(t, [task[t] EXCEPT !.pc = "command", !.adv = ref])
  /\ UNCHANGED <<cache, remote, commits>>

\* git-receive-pack unpacks first, then updates the branch if it still has the
\* old value of the command and, when so configured, moves forward.
Accepts(command) ==
  /\ command.adv = ref
  /\ DenyNonFastForwards => ref \in Ancestors(commits, command.new)

Unpack(command) == store' = store \cup command.buf

Executed(command) == Accepts(command) /\ Unpack(command) /\ ref' = command.new
Refused(command)  == /\ ~Accepts(command) \/ "refuse" \in Faults
                     /\ Unpack(command) /\ UNCHANGED ref

\* The server has dealt with the command and reports.
Reported(t, lines) == Step(t, [task[t] EXCEPT !.pc = "report", !.report = lines])

ReceivePack(t) ==
  /\ task[t].pc = "command"
  /\ \/ Executed(task[t]) /\ Reported(t, {"unpack ok", "ok"})
     \/ Refused(task[t])  /\ Reported(t, {"unpack ok", "ng"})
     \/ /\ "unpack" \in Faults /\ UNCHANGED <<ref, store>>
        /\ Reported(t, {"ng"})
     \/ /\ "rejected" \in Faults /\ ref # task[t].new /\ UNCHANGED <<ref, store>>
        /\ Reported(t, {"non-fast-forward"})
  /\ UNCHANGED <<cache, commits, late>>

\* How try_push reads the report: a search for substrings in the whole text.
Contains(lines, text) ==
  text \in lines \/ (text = "ok" /\ "unpack ok" \in lines)

\* A mistake: a report that does not refuse is a success.
MutantClassify(lines) == IF "ng" \in lines THEN "failed" ELSE "pushed"

Classify(lines) ==
  IF Contains(lines, "unpack ok") /\ Contains(lines, "ok") THEN "pushed"
  ELSE IF Contains(lines, "non-fast-forward") THEN "rejected"
  ELSE "failed"

\* Mistakes: one round too many, rounds that are not counted, and a failed push
\* that makes the whole write again.
MutantOneMore(t, pc) ==
  IF task[t].tries <= MaxTries
  THEN [task[t] EXCEPT !.pc = pc, !.tries = @ + 1, !.adv = Nothing, !.report = {}]
  ELSE Finish(t, "error")
MutantUncounted(t, pc) == [task[t] EXCEPT !.pc = pc, !.adv = Nothing, !.report = {}]
MutantWriteAgain(t, pc) ==
  IF task[t].attempt < MaxAttempts
  THEN [NotStarted EXCEPT !.pc = "fetch", !.req = task[t].req, !.attempt = task[t].attempt + 1]
  ELSE Finish(t, "error")

\* The next round of the loop in do_push, or its last error.
TryAgain(t, pc) ==
  IF task[t].tries < MaxTries
  THEN [task[t] EXCEPT !.pc = pc, !.tries = @ + 1, !.adv = Nothing, !.report = {}]
  ELSE Finish(t, "error")

\* The next round of the loop around the whole write, or its failure.
AttemptAgain(t) ==
  IF task[t].attempt < MaxAttempts
  THEN [NotStarted EXCEPT !.pc = "fetch", !.req = task[t].req, !.attempt = task[t].attempt + 1]
  ELSE Finish(t, "error")

\* A mistake: the commit is cached before the report is looked at.
MutantReport(t) ==
  /\ task[t].pc = "report"
  /\ objects' = objects \cup task[t].buf
  /\ LET outcome == Classify(task[t].report)
     IN  \/ /\ outcome = "pushed"
            /\ head' = task[t].new
            /\ Step(t, [Finish(t, "ok") EXCEPT !.new = task[t].new])
         \/ outcome = "rejected" /\ Step(t, AttemptAgain(t)) /\ UNCHANGED head
         \/ outcome = "failed" /\ Step(t, TryAgain(t, "push")) /\ UNCHANGED head
  /\ UNCHANGED <<remote, commits>>

\* A mistake: the head is moved and the objects are left for the next fetch.
MutantHeadOnly(t) ==
  /\ task[t].pc = "report" /\ Classify(task[t].report) = "pushed"
  /\ head' = task[t].new
  /\ Step(t, [Finish(t, "ok") EXCEPT !.new = task[t].new])
  /\ UNCHANGED <<objects, remote, commits>>

\* On success the commit is cached under the lock of objects (313-318).
Report(t) ==
  /\ task[t].pc = "report"
  /\ LET outcome == Classify(task[t].report)
     IN  \/ /\ outcome = "pushed"
            /\ objects' = objects \cup task[t].buf
            /\ head' = task[t].new
            /\ Step(t, [Finish(t, "ok") EXCEPT !.new = task[t].new])
         \/ outcome = "rejected" /\ Step(t, AttemptAgain(t)) /\ UNCHANGED cache
         \/ outcome = "failed" /\ Step(t, TryAgain(t, "push")) /\ UNCHANGED cache
  /\ UNCHANGED <<remote, commits>>

-------------------------------------------------------------------------------
(* What goes wrong around a session, and other users of the branch          *)

\* Connecting, the advertisement or the exchange fails: the round is repeated.
SessionFailed(t) ==
  /\ "session" \in Faults
  /\ \/ task[t].pc = "upload" /\ Step(t, TryAgain(t, "upload"))
     \/ task[t].pc \in {"push", "command"} /\ Step(t, TryAgain(t, "push"))
  /\ UNCHANGED <<cache, remote, commits>>

\* The server dealt with the command and the connection ended before its
\* report: read_pkt_line takes the end of the stream for the last packet.
LoseReport(t) ==
  /\ "lost" \in Faults /\ task[t].pc = "report"
  /\ Step(t, [task[t] EXCEPT !.report = {}])
  /\ UNCHANGED <<cache, remote, commits>>

\* The command of a task, as the server has it.
Sent(t) == [of |-> t, adv |-> task[t].adv, new |-> task[t].new, buf |-> task[t].buf]
SentBy(tasks) == {Sent(t) : t \in {t \in tasks : task[t].pc = "command"}}

\* Mistakes: no answer is a success, or the whole write is made again.
MutantTimedOut(t, next) ==
  /\ "late" \in Faults /\ task[t].pc = "command"
  /\ Step(t, next)
  /\ late' = late \cup SentBy({t})
  /\ UNCHANGED <<cache, ref, store, commits>>
MutantNoAnswer(t)     == MutantTimedOut(t, [Finish(t, "ok") EXCEPT !.new = task[t].new])
MutantTimeoutAgain(t) == MutantTimedOut(t, AttemptAgain(t))

\* No answer to a command for 30 seconds (inactivity_timeout) ends the session
\* and the round, though the server may still be at work on the command.
TimedOut(t) ==
  /\ "late" \in Faults /\ task[t].pc = "command"
  /\ Step(t, TryAgain(t, "push"))
  /\ late' = late \cup SentBy({t})
  /\ UNCHANGED <<cache, ref, store, commits>>

\* A task ends where it waits on the network: its HTTP connection is closed,
\* or the process stops.  A command that was sent is still executed.
Cancel(t) ==
  /\ "cancel" \in Faults
  /\ task[t].pc \in {"upload", "push", "command", "report"}
  /\ Step(t, Finish(t, "dropped"))
  /\ late' = late \cup SentBy({t})
  /\ UNCHANGED <<cache, ref, store, commits>>

\* The server gets to a command that nobody waits for, or loses it.
LateCommand ==
  /\ \E c \in late :
       /\ late' = late \ {c}
       /\ Executed(c) \/ Refused(c) \/ UNCHANGED <<ref, store>>
  /\ UNCHANGED <<cache, commits, task>>

\* The process ends and starts again with an empty cache that it fills.
Restart ==
  /\ "restart" \in Faults
  /\ head' = ref
  /\ objects' = {ref} \cup Closure(commits[ref].tree)
  /\ task' = [t \in Task |-> IF task[t].pc \in Finished THEN task[t]
                             ELSE Finish(t, "dropped")]
  /\ late' = late \cup SentBy(Task)
  /\ UNCHANGED <<ref, store, commits>>

ByOthers == {c \in Commit : commits[c] # Nothing /\ c # Root /\ commits[c].edit = Nothing}

\* Another git client pushes a commit on top of the branch.
OtherPush ==
  /\ Cardinality(ByOthers) < MaxOthers /\ Fresh # {}
  /\ \E tree \in OtherTree :
       LET c == CHOOSE c \in Fresh : TRUE
       IN  /\ commits' = [commits EXCEPT ![c] = CommitOf(ref, tree, Nothing)]
           /\ ref' = c
           /\ store' = store \cup {c} \cup Closure(tree)
  /\ UNCHANGED <<cache, late, task>>

-------------------------------------------------------------------------------
\* The server starts with the branch fetched (init_and_fetch).
Init ==
  /\ head = Root /\ objects = {Root} \cup Closure(InitialTree)
  /\ ref = Root /\ store = {Root} \cup Closure(InitialTree) /\ late = {}
  /\ commits = [c \in Commit |-> IF c = Root THEN CommitOf(Nothing, InitialTree, Nothing)
                                 ELSE Nothing]
  /\ task = [t \in Task |-> NotStarted]

\* A step of davgit for one request, and one of the remote.
Serve(t) ==
  \/ Check(t) \/ StartFetch(t) \/ Merge(t) \/ SetHead(t) \/ SetObjects(t)
  \/ ClaimHead(t) \/ Build(t) \/ Report(t)
Remote(t) == Upload(t) \/ Advertise(t) \/ ReceivePack(t)

Fault(t) == SessionFailed(t) \/ LoseReport(t) \/ TimedOut(t) \/ Cancel(t)

\* Every request has been answered.
Quiet == InFlight = {} /\ (\A t \in Task : task[t].pc = "done") /\ UNCHANGED vars

Next ==
  \/ \E t \in Task : Submit(t) \/ Serve(t) \/ Remote(t) \/ Fault(t)
  \/ LateCommand \/ Restart \/ OtherPush \/ Quiet

Spec == Init /\ [][Next]_vars
===============================================================================
