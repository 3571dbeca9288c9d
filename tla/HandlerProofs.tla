----------------------------- MODULE HandlerProofs -----------------------------
(***************************************************************************)
(* Proofs about Handler for any requests, trees and other users.           *)
(***************************************************************************)
EXTENDS Handler, GitRepoProofs, SequenceTheorems

P == INSTANCE ObjectProofs

-------------------------------------------------------------------------------
(* What the other requests leave alone.                                     *)

\* A commit, once made, stays what it is.
LEMMA CommitsStay ==
  ASSUME IInv, Next
  PROVE  \A c \in Commit : Made(c) => commits'[c] = commits[c]
<1>1. CASE UNCHANGED commits
  BY <1>1
<1>2. ASSUME NEW c \in Commit, commits[c] = Nothing \/ commits' = commits,
             NEW content, commits' = [commits EXCEPT ![c] = content]
      PROVE  \A d \in Commit : Made(d) => commits'[d] = commits[d]
  BY <1>2 DEF IInv, TypeOK, Made
<1>3. ASSUME NEW t \in Task, Build(t)
      PROVE  \A d \in Commit : Made(d) => commits'[d] = commits[d]
  <2> DEFINE base    == task[t].base
             edited  == EditTree(objects \cap Obj, commits[base].tree, task[t].req)
             content == CommitOf(base, edited.root, task[t].req)
  <2>1. CASE UNCHANGED commits
    BY <2>1
  <2>2. ASSUME NEW c \in IdsFor(content), commits' = [commits EXCEPT ![c] = content]
        PROVE  \A d \in Commit : Made(d) => commits'[d] = commits[d]
    <3>1. c \in Commit /\ (commits[c] = content \/ commits[c] = Nothing)
      BY <2>2 DEF IdsFor, Fresh
    <3> HIDE DEF content
    <3>2. commits[c] = content => commits' = commits
      BY <2>2, <3>1 DEF IInv, TypeOK
    <3> QED
      BY <1>2, <2>2, <3>1, <3>2
  <2> QED
    BY <1>3, <2>1, <2>2 DEF Build
<1>4. CASE OtherPush
  <2> DEFINE c == CHOOSE c \in Fresh : TRUE
  <2>1. PICK tree \in OtherTree : commits' = [commits EXCEPT ![c] = CommitOf(ref, tree, Nothing)]
    BY <1>4 DEF OtherPush
  <2>2. c \in Commit /\ commits[c] = Nothing
    BY <1>4 DEF OtherPush, Fresh
  <2> HIDE DEF c
  <2> QED
    BY <1>2, <2>1, <2>2
<1>5. ASSUME NEW t \in Task, Submit(t) \/ Serve(t) \/ Remote(t) \/ Fault(t), ~Build(t)
      PROVE  UNCHANGED commits
  BY <1>5
  DEF Submit, Serve, Remote, Fault, Check, StartFetch, Merge, SetHead, SetObjects, ClaimHead,
      Report, Upload, Advertise, ReceivePack, SessionFailed, LoseReport, TimedOut, Cancel
<1>6. LateCommand \/ Restart \/ Quiet => UNCHANGED commits
  BY DEF LateCommand, Restart, Quiet, vars
<1> QED
  BY <1>1, <1>3, <1>4, <1>5, <1>6 DEF Next

\* A task that sends nothing, or goes on sending what it sends.
SendsSame(t, s) ==
  s.pc \in Pushing =>
    task[t].pc \in Pushing /\ s.base = task[t].base /\ s.new = task[t].new /\ s.buf = task[t].buf

LEMMA PackKept ==
  ASSUME IInv, PacksOnBase, Next, NEW u \in Task, SendsSame(u, task'[u])
  PROVE  PackOnBase(task[u])'
<1> DEFINE s == task'[u]
<1>1. CASE s.pc \in Pushing
  <2>1. /\ task[u].pc \in Pushing /\ s.base = task[u].base /\ s.new = task[u].new
        /\ s.buf = task[u].buf
    BY <1>1 DEF SendsSame
  <2>2. PackOnBase(task[u]) /\ PackComplete(task[u])
    BY <2>1, Now DEF PacksOnBase, TaskInv, PushComplete
  <2>3. /\ commits'[s.base] = commits[s.base] /\ commits'[s.new] = commits[s.new]
    BY <2>1, <2>2, CommitsStay DEF PackOnBase, PackComplete, Complete
  <2> QED
    BY <2>1, <2>2, <2>3 DEF PackOnBase, Made, TreeOf
<1>2. CASE s.pc \notin Pushing
  BY <1>2 DEF PackOnBase
<1> QED
  BY <1>1, <1>2

LEMMA StepKeepsPacks ==
  ASSUME IInv, PacksOnBase, Next, NEW t \in Task, NEW s, Step(t, s), SendsSame(t, s)
  PROVE  PacksOnBase'
<1>1. \A u \in Task : task'[u] = IF u = t THEN s ELSE task[u]
  BY DEF Step, IInv, TypeOK
<1>2. \A u \in Task : SendsSame(u, task'[u])
  BY <1>1 DEF SendsSame
<1> QED
  BY <1>2, PackKept DEF PacksOnBase

LEMMA FinishKeepsPacks ==
  ASSUME NEW t, NEW a
  PROVE  /\ SendsSame(t, Finish(t, a))
         /\ \A new : SendsSame(t, [Finish(t, a) EXCEPT !.new = new])
         /\ \A base, body : SendsSame(t, [Finish(t, a) EXCEPT !.base = base, !.body = body])
  BY DEF SendsSame, Finish, NotStarted, Pushing

LEMMA TryKeepsPacks ==
  ASSUME IInv, NEW t \in Task, NEW pc, pc \in Pushing => task[t].pc \in Pushing
  PROVE  SendsSame(t, TryAgain(t, pc))
<1>1. task[t] \in TaskType
  BY Now
<1>2. CASE task[t].tries < MaxTries
  <2> DEFINE s == [task[t] EXCEPT !.pc = pc, !.tries = @ + 1, !.adv = Nothing, !.report = {}]
  <2>1. /\ s.pc = pc /\ s.base = task[t].base /\ s.new = task[t].new /\ s.buf = task[t].buf
    BY <1>1 DEF TaskType
  <2> HIDE DEF s
  <2>2. SendsSame(t, s)
    BY <2>1 DEF SendsSame
  <2> QED
    BY <1>2, <2>2 DEF TryAgain, s
<1>3. CASE ~(task[t].tries < MaxTries)
  BY <1>3, FinishKeepsPacks DEF TryAgain
<1> QED
  BY <1>2, <1>3

LEMMA ServeKeepsPacks ==
  ASSUME IInv, PacksOnBase, Next, NEW t \in Task,
         Submit(t) \/ Check(t) \/ StartFetch(t) \/ Merge(t) \/ SetHead(t) \/ SetObjects(t)
         \/ ClaimHead(t) \/ Upload(t) \/ Advertise(t) \/ LoseReport(t)
  PROVE  PacksOnBase'
<1>1. task[t] \in TaskType
  BY Now
<1> SUFFICES \E s : Step(t, s) /\ SendsSame(t, s)
  BY StepKeepsPacks
<1>2. CASE Submit(t)
  <2>1. \A r : SendsSame(t, [NotStarted EXCEPT !.pc = "check", !.req = r, !.base = head])
    BY DEF SendsSame, NotStarted, Pushing
  <2> QED
    BY <1>2, <2>1 DEF Submit
<1>3. CASE Check(t)
  <2>1. SendsSame(t, [task[t] EXCEPT !.pc = "fetch", !.attempt = 1, !.base = Nothing])
    BY <1>1 DEF SendsSame, TaskType, Pushing
  <2> QED
    BY <1>3, <2>1, FinishKeepsPacks, ZenonT(60) DEF Check
<1>4. CASE StartFetch(t)
  <2>1. SendsSame(t, [task[t] EXCEPT !.pc = "upload", !.base = head, !.tries = 1])
    BY <1>1 DEF SendsSame, TaskType, Pushing
  <2> QED
    BY <1>4, <2>1 DEF StartFetch
<1>5. CASE Merge(t)
  <2>1. \A buf : SendsSame(t, [task[t] EXCEPT !.pc = "setHead", !.buf = buf])
    BY <1>1 DEF SendsSame, TaskType, Pushing
  <2> QED
    BY <1>5, <2>1, FinishKeepsPacks DEF Merge
<1>6. CASE SetHead(t)
  <2>1. SendsSame(t, [task[t] EXCEPT !.pc = "setObjects"])
    BY <1>1 DEF SendsSame, TaskType, Pushing
  <2> QED
    BY <1>6, <2>1 DEF SetHead
<1>7. CASE SetObjects(t)
  <2>1. SendsSame(t, [task[t] EXCEPT !.pc = "claim", !.base = Nothing, !.new = Nothing, !.buf = {}])
    BY <1>1 DEF SendsSame, TaskType, Pushing
  <2> QED
    BY <1>7, <2>1 DEF SetObjects
<1>8. CASE ClaimHead(t)
  <2>1. SendsSame(t, [task[t] EXCEPT !.pc = "build", !.base = head])
    BY <1>1 DEF SendsSame, TaskType, Pushing
  <2> QED
    BY <1>8, <2>1 DEF ClaimHead
<1>9. CASE Upload(t)
  <2>1. \A new, buf : SendsSame(t, [task[t] EXCEPT !.pc = "merge", !.new = new, !.buf = buf])
    BY <1>1 DEF SendsSame, TaskType, Pushing
  <2>2. SendsSame(t, NothingNew(t))
    BY <1>1 DEF SendsSame, NothingNew, TaskType, Pushing
  <2>3. SendsSame(t, Finish(t, "error"))
    BY FinishKeepsPacks
  <2>4. \/ \E new, buf : Step(t, [task[t] EXCEPT !.pc = "merge", !.new = new, !.buf = buf])
        \/ Step(t, NothingNew(t)) \/ Step(t, Finish(t, "error"))
    BY <1>9 DEF Upload
  <2> QED
    BY <2>1, <2>2, <2>3, <2>4
<1>10. CASE Advertise(t)
  <2>1. SendsSame(t, [task[t] EXCEPT !.pc = "command", !.adv = ref])
    BY <1>1, <1>10 DEF Advertise, SendsSame, TaskType, Pushing
  <2> QED
    BY <1>10, <2>1 DEF Advertise
<1>11. CASE LoseReport(t)
  <2>1. SendsSame(t, [task[t] EXCEPT !.report = {}])
    BY <1>1 DEF SendsSame, TaskType, Pushing
  <2> QED
    BY <1>11, <2>1 DEF LoseReport
<1> QED
  BY <1>2, <1>3, <1>4, <1>5, <1>6, <1>7, <1>8, <1>9, <1>10, <1>11

\* The commit that is built has the edited tree of its base.
LEMMA BuildKeepsPacks ==
  ASSUME IInv, PacksOnBase, Next, NEW t \in Task, Build(t)
  PROVE  PacksOnBase'
<1> DEFINE base    == task[t].base
           edited  == EditTree(objects \cap Obj, commits[base].tree, task[t].req)
           content == CommitOf(base, edited.root, task[t].req)
<1>1. task[t] \in TaskType
  BY Now
<1>2. CASE Step(t, Finish(t, "error"))
  BY <1>2, FinishKeepsPacks, StepKeepsPacks
<1>3. ASSUME base \in objects, edited.ok, NEW c \in IdsFor(content),
             commits' = [commits EXCEPT ![c] = content],
             Step(t, [task[t] EXCEPT !.pc = "push", !.new = c, !.tries = 1,
                                     !.buf = {c} \cup edited.pack])
      PROVE  PacksOnBase'
  <2> DEFINE s == [task[t] EXCEPT !.pc = "push", !.new = c, !.tries = 1,
                                  !.buf = {c} \cup edited.pack]
  <2>1. base \in Commit \cap store /\ task[t].req \in Edit
    BY Now, Writing DEF Build, TaskInv, BaseKnown, TaskType
  <2>2. /\ Made(base) /\ TreeOf(base) \in Tree
    BY <2>1, KnownCommit
  <2>3. Closure(edited.root) \subseteq Closure(TreeOf(base)) \cup edited.pack
    <3>1. objects \cap Obj \in SUBSET Obj
      OBVIOUS
    <3> QED
      BY <1>3, <2>1, <2>2, <3>1, EditAssumption DEF TreeOf
  <2>4. c \in Commit /\ content.tree = edited.root
    BY <1>3 DEF IdsFor, Fresh, CommitOf
  <2>5. /\ s.base = base /\ s.new = c /\ s.buf = {c} \cup edited.pack
    <3> HIDE DEF edited
    <3> QED
      BY <1>1 DEF TaskType
  <2> HIDE DEF content, s
  <2>6. commits'[c] = content
    BY <1>3, <2>4 DEF IInv, TypeOK
  <2>7. commits'[base] = commits[base]
    BY <2>1, <2>2, CommitsStay
  <2>8. \A u \in Task : task'[u] = IF u = t THEN s ELSE task[u]
    BY <1>3 DEF Step, IInv, TypeOK, s
  <2>9. PackOnBase(task[t])'
    <3>1. task'[t] = s
      BY <2>8
    <3> HIDE DEF edited, base
    <3> QED
      BY <2>1, <2>2, <2>3, <2>4, <2>5, <2>6, <2>7, <3>1 DEF PackOnBase, Made, TreeOf
  <2>10. ASSUME NEW u \in Task, u # t
         PROVE  PackOnBase(task[u])'
    BY <2>8, <2>10, PackKept DEF SendsSame
  <2> QED
    BY <2>9, <2>10 DEF PacksOnBase
<1> QED
  BY <1>2, <1>3 DEF Build

LEMMA PushKeepsPacks ==
  ASSUME IInv, PacksOnBase, Next, NEW t \in Task,
         Report(t) \/ ReceivePack(t) \/ SessionFailed(t) \/ TimedOut(t) \/ Cancel(t)
  PROVE  PacksOnBase'
<1>1. task[t] \in TaskType
  BY Now
<1> SUFFICES \E s : Step(t, s) /\ SendsSame(t, s)
  BY StepKeepsPacks
<1>2. CASE Report(t)
  <2>1. SendsSame(t, AttemptAgain(t))
    BY FinishKeepsPacks DEF AttemptAgain, SendsSame, NotStarted, Pushing
  <2>2. SendsSame(t, TryAgain(t, "push"))
    BY <1>2, TryKeepsPacks DEF Report, Pushing
  <2> QED
    BY <1>2, <2>1, <2>2, FinishKeepsPacks DEF Report
<1>3. CASE ReceivePack(t)
  <2>1. PICK lines : Reported(t, lines)
    BY <1>3 DEF ReceivePack
  <2>2. SendsSame(t, [task[t] EXCEPT !.pc = "report", !.report = lines])
    BY <1>1, <1>3 DEF ReceivePack, SendsSame, TaskType, Pushing
  <2> QED
    BY <2>1, <2>2 DEF Reported
<1>4. CASE SessionFailed(t)
  <2>1. SendsSame(t, TryAgain(t, "upload"))
    BY TryKeepsPacks DEF Pushing
  <2>2. task[t].pc \in {"push", "command"} => SendsSame(t, TryAgain(t, "push"))
    BY TryKeepsPacks DEF Pushing
  <2> QED
    BY <1>4, <2>1, <2>2 DEF SessionFailed
<1>5. CASE TimedOut(t)
  BY <1>5, TryKeepsPacks DEF TimedOut, Pushing
<1>6. CASE Cancel(t)
  BY <1>6, FinishKeepsPacks DEF Cancel
<1> QED
  BY <1>2, <1>3, <1>4, <1>5, <1>6

LEMMA PacksStayOnBase ==
  ASSUME IInv, PacksOnBase, Next
  PROVE  PacksOnBase'
<1>1. ASSUME NEW t \in Task, Submit(t) \/ Serve(t) \/ Remote(t) \/ Fault(t)
      PROVE  PacksOnBase'
  BY <1>1, ServeKeepsPacks, BuildKeepsPacks, PushKeepsPacks DEF Serve, Remote, Fault
<1>2. CASE UNCHANGED task
  BY <1>2, PackKept DEF PacksOnBase, SendsSame
<1>3. CASE Restart
  <2>1. \A u \in Task : task'[u].pc \notin Pushing
    BY <1>3 DEF Restart, Finished, Finish, NotStarted, Pushing
  <2> QED
    BY <2>1 DEF PacksOnBase, PackOnBase
<1> QED
  BY <1>1, <1>2, <1>3 DEF Next, LateCommand, OtherPush, Quiet, vars

-------------------------------------------------------------------------------
(* What one lookup finds.                                                   *)

\* The operators are the same ones in RepoEdits and in ObjectProofs.
LEMMA SameOperators ==
  /\ \A objs, tree, path :
       R!FindTreeEntry(objs, tree, path) = P!FindTreeEntry(objs, tree, path)
  /\ \A objs : R!Closed(objs) <=> P!Closed(objs)
  BY DEF R!FindTreeEntry, R!Walk, R!Descend, R!Found, R!NotFound, R!Broken, R!Named, R!Entries,
         P!FindTreeEntry, P!Walk, P!Descend, P!Found, P!NotFound, P!Broken, P!Named, P!Entries,
         R!Closed, P!Closed

\* A walk among some objects that comes to an end finds what there is in the
\* whole tree.
LEMMA WalkIsSound ==
  ASSUME NEW tree \in Tree, NEW objs, NEW path, Len(path) \in Nat
  PROVE  LET part == R!FindTreeEntry(objs, tree, path)
             all  == R!FindTreeEntry(Closure(tree), tree, path)
         IN  /\ part.answer # "err" \/ Closure(tree) \subseteq objs => part = all
             /\ all.answer # "err" /\ (all.answer = "some" => all.oid \in Closure(tree))
<1> DEFINE part == P!FindTreeEntry(objs, tree, path)
           all  == P!FindTreeEntry(Closure(tree), tree, path)
           both == P!FindTreeEntry(objs \cup Closure(tree), tree, path)
<1>1. tree \in Closure(tree) /\ P!Closed(Closure(tree))
  BY ReachAssumption, ClosureAssumption, SameOperators
<1>2. all.answer # "err" /\ (all.answer = "some" => all.oid \in Closure(tree))
  BY <1>1, P!FindAmongAll
<1>3. both = all
  BY <1>2, P!FindAmongMore
<1>4. part.answer # "err" => both = part
  BY P!FindAmongMore
<1>5. Closure(tree) \subseteq objs => objs \cup Closure(tree) = objs
  OBVIOUS
<1> QED
  BY <1>2, <1>3, <1>4, <1>5, SameOperators

Kinds == {"dir", "file", "read", "list"}

Rows(held, dir) == {R!Row(f.name, f.mode = "tree", R!Length(held, f)) : f \in R!Entries(dir)}

\* The rows of a listing, made with some of the objects and with all.
LEMMA RowsAreShrunk ==
  ASSUME NEW tree \in Tree, NEW dir \in Closure(tree), NEW objs
  PROVE  /\ Shrunk(Rows(objs, dir), Rows(Closure(tree), dir))
         /\ Closure(tree) \subseteq objs => Rows(objs, dir) = Rows(Closure(tree), dir)
<1>1. \A f \in R!Entries(dir) : f.oid \in Closure(tree)
  BY ClosureAssumption DEF R!Closed
<1>2. ASSUME NEW f \in R!Entries(dir)
      PROVE  /\ R!Length(objs, f) \in {R!Zero, R!Length(Closure(tree), f)}
             /\ Closure(tree) \subseteq objs => R!Length(objs, f) = R!Length(Closure(tree), f)
  BY <1>1, <1>2 DEF R!Length
<1>3. Closure(tree) \subseteq objs => Rows(objs, dir) = Rows(Closure(tree), dir)
  BY <1>2 DEF Rows
<1>4. \A name, isDir, len :
        /\ R!Row(name, isDir, len).name = name /\ R!Row(name, isDir, len).is_dir = isDir
        /\ R!Row(name, isDir, len).len = len
  BY DEF R!Row
<1>5. ASSUME NEW held
      PROVE  {<<r.name, r.is_dir>> : r \in Rows(held, dir)}
               = {<<f.name, f.mode = "tree">> : f \in R!Entries(dir)}
  <2> DEFINE row(f) == R!Row(f.name, f.mode = "tree", R!Length(held, f))
  <2>1. \A f : row(f).name = f.name /\ row(f).is_dir = (f.mode = "tree")
    BY <1>4
  <2>2. Rows(held, dir) = {row(f) : f \in R!Entries(dir)}
    BY DEF Rows
  <2> HIDE DEF row
  <2>3. {<<r.name, r.is_dir>> : r \in Rows(held, dir)}
          = {<<row(f).name, row(f).is_dir>> : f \in R!Entries(dir)}
    BY <2>2
  <2> QED
    BY <2>1, <2>3
<1>6. \A r \in Rows(objs, dir) : r.len = R!Zero \/ r \in Rows(Closure(tree), dir)
  BY <1>2, <1>4 DEF Rows
<1>7. {<<r.name, r.is_dir>> : r \in Rows(objs, dir)}
        = {<<r.name, r.is_dir>> : r \in Rows(Closure(tree), dir)}
  BY <1>5
<1> QED
  BY <1>3, <1>6, <1>7 DEF Shrunk

\* A lookup from the tree or, where its commit is not held, from none.
LEMMA LookupIsSound ==
  ASSUME NEW tree \in Tree, NEW at \in {tree, Nothing}, NEW objs, NEW path, Len(path) \in Nat,
         NEW what \in Kinds
  PROVE  LET found == Find(what, objs, at, path)
             truth == Find(what, Closure(tree), tree, path)
         IN  /\ Sound(what, found, truth)
             /\ at = tree /\ Closure(tree) \subseteq objs => found = truth
<1> DEFINE found == Find(what, objs, at, path)
           truth == Find(what, Closure(tree), tree, path)
           part  == R!FindTreeEntry(objs, tree, path)
           all   == R!FindTreeEntry(Closure(tree), tree, path)
<1>1. tree # Nothing
  BY SetAssumption
<1>2. /\ part.answer # "err" \/ Closure(tree) \subseteq objs => part = all
      /\ all.answer # "err" /\ (all.answer = "some" => all.oid \in Closure(tree))
  BY WalkIsSound
<1>3. /\ R!Lookup(Closure(tree), tree, path) = all
      /\ R!Lookup(objs, at, path) = IF at = tree THEN part ELSE R!Broken
      /\ R!Broken.answer = "err"
  BY <1>1 DEF R!Lookup, R!Broken
<1>4. /\ R!IsDirectory(objs, at, path) => R!IsDirectory(Closure(tree), tree, path)
      /\ at = tree /\ Closure(tree) \subseteq objs =>
           (R!IsDirectory(objs, at, path) <=> R!IsDirectory(Closure(tree), tree, path))
  BY <1>2, <1>3 DEF R!IsDirectory
<1>5. /\ R!IsFile(objs, at, path) => R!IsFile(Closure(tree), tree, path) /\ at = tree /\ part = all
      /\ at = tree /\ Closure(tree) \subseteq objs =>
           (R!IsFile(objs, at, path) <=> R!IsFile(Closure(tree), tree, path))
  BY <1>2, <1>3 DEF R!IsFile
<1> HIDE DEF part, all
<1>6. CASE what = "dir"
  BY <1>4, <1>6 DEF Find, Sound
<1>7. CASE what = "file"
  BY <1>2, <1>3, <1>5, <1>7 DEF Find, Sound
<1>8. CASE what = "read"
  <2>1. /\ R!Status(404).status = 404 /\ R!Status(500).status = 500
        /\ \A x : R!Content(x).status = 200
    BY DEF R!Status, R!Content
  <2>2. /\ found = R!FileContent(objs, at, path)
        /\ truth = R!FileContent(Closure(tree), tree, path)
    BY <1>8 DEF Find
  <2>3. truth = IF R!IsFile(Closure(tree), tree, path) THEN R!Content(all.oid) ELSE R!Status(404)
    BY <1>2, <1>3, <2>2 DEF R!FileContent
  <2>4. ASSUME R!IsFile(objs, at, path)
        PROVE  found = truth
    BY <1>1, <1>2, <1>3, <1>5, <2>2, <2>3, <2>4 DEF R!FileContent
  <2>5. ASSUME ~R!IsFile(objs, at, path)
        PROVE  found.status # 200
    BY <2>1, <2>2, <2>5 DEF R!FileContent
  <2>6. ASSUME at = tree, Closure(tree) \subseteq objs
        PROVE  found = truth
    BY <1>2, <1>3, <1>5, <2>2, <2>3, <2>6 DEF R!FileContent
  <2> QED
    BY <1>8, <2>4, <2>5, <2>6 DEF Sound
<1>9. CASE what = "list"
  <2>1. found = R!ListDir(objs, at, path) /\ truth = R!ListDir(Closure(tree), tree, path)
    BY <1>9 DEF Find
  <2>2. CASE all.answer = "some" /\ all.mode = "tree"
    <3>1. truth = Rows(Closure(tree), all.oid)
      BY <1>2, <1>3, <2>1, <2>2 DEF R!ListDir, Rows
    <3>2. found = {} \/ (found = Rows(objs, all.oid) /\ at = tree)
      BY <1>2, <1>3, <2>1 DEF R!ListDir, Rows
    <3>3. at = tree /\ Closure(tree) \subseteq objs => found = Rows(objs, all.oid)
      BY <1>2, <1>3, <2>1, <2>2 DEF R!ListDir, Rows
    <3>4. /\ Shrunk(Rows(objs, all.oid), Rows(Closure(tree), all.oid))
          /\ Closure(tree) \subseteq objs => Rows(objs, all.oid) = Rows(Closure(tree), all.oid)
      BY <1>2, <2>2, RowsAreShrunk
    <3> QED
      BY <1>9, <3>1, <3>2, <3>3, <3>4 DEF Sound
  <2>3. CASE ~(all.answer = "some" /\ all.mode = "tree")
    <3>1. truth = {} /\ found = {}
      BY <1>2, <1>3, <2>1, <2>3 DEF R!ListDir, Rows
    <3> QED
      BY <1>9, <3>1 DEF Sound
  <2> QED
    BY <2>2, <2>3
<1> QED
  BY <1>6, <1>7, <1>8, <1>9 DEF Kinds

-------------------------------------------------------------------------------
(* The lookups of a request.                                                *)

LEMMA PathsAreSequences ==
  ASSUME NEW r \in Request
  PROVE  /\ Len(r.path) \in Nat /\ Len(R!Parent(r.path)) \in Nat
         /\ r.op \in {"copy", "move"} => Len(r.dest) \in Nat /\ Len(R!Parent(r.dest)) \in Nat
<1>1. ASSUME NEW path \in Seq(STRING)
      PROVE  Len(path) \in Nat /\ Len(R!Parent(path)) \in Nat
  <2>1. Len(path) \in Nat
    OBVIOUS
  <2>2. CASE path = <<>>
    BY <2>2 DEF R!Parent
  <2>3. CASE path # <<>>
    <3>1. 1 \in 1..(Len(path) + 1) /\ Len(path) - 1 \in 0..Len(path)
      BY <2>1, <2>3, EmptySeq
    <3>2. SubSeq(path, 1, Len(path) - 1) \in Seq(STRING)
      BY <2>1, <2>3, EmptySeq, SubSeqProperties
    <3> QED
      BY <2>1, <2>3, <3>2, LenProperties DEF R!Parent
  <2> QED
    BY <2>1, <2>2, <2>3
<1> QED
  BY <1>1, RequestAssumption

LEMMA ThreeLong ==
  ASSUME NEW a, NEW b, NEW c
  PROVE  <<a, b>> \o <<c>> = <<a, b, c>>
<1> DEFINE S == {a, b, c}
<1>1. <<a, b>> \in Seq(S) /\ <<c>> \in Seq(S) /\ <<a, b, c>> \in Seq(S)
  OBVIOUS
<1>2. <<a, b>> \o <<c>> \in Seq(S) /\ Len(<<a, b>> \o <<c>>) = 3
  BY <1>1, ConcatProperties
<1>3. \A i \in 1..3 : (<<a, b>> \o <<c>>)[i] = <<a, b, c>>[i]
  OBVIOUS
<1> QED
  BY <1>1, <1>2, <1>3, SeqEqual, Zenon

LEMMA FiveLong ==
  ASSUME NEW a, NEW b, NEW c, NEW d, NEW e
  PROVE  <<a, b>> \o <<c, d, e>> = <<a, b, c, d, e>>
<1> DEFINE S == {a, b, c, d, e}
<1>1. <<a, b>> \in Seq(S) /\ <<c, d, e>> \in Seq(S) /\ <<a, b, c, d, e>> \in Seq(S)
  OBVIOUS
<1>2. <<a, b>> \o <<c, d, e>> \in Seq(S) /\ Len(<<a, b>> \o <<c, d, e>>) = 5
  BY <1>1, ConcatProperties
<1>3. \A i \in 1..5 : (<<a, b>> \o <<c, d, e>>)[i] = <<a, b, c, d, e>>[i]
  OBVIOUS
<1> QED
  BY <1>1, <1>2, <1>3, SeqEqual, Zenon

\* The lookups of each method, written out.
Is(ask, what, path, when) == ask.what = what /\ ask.path = path /\ (ask.when <=> when)

LEMMA PutLookups ==
  ASSUME NEW r, NEW yes, ~Early(r), r.op = "put"
  PROVE  LET script == Lookups(r, yes)
         IN  /\ DOMAIN script = 1..3
             /\ Is(script[1], "dir", R!Parent(r.path), TRUE)
             /\ Is(script[2], "file", r.path, TRUE)
             /\ Is(script[3], "dir", r.path, ~yes[2])
<1> DEFINE one    == Ask("dir", R!Parent(r.path), TRUE)
           two    == Ask("file", r.path, TRUE)
           three  == Ask("dir", r.path, ~yes[2])
           script == Lookups(r, yes)
<1>1. script = <<one, two, three>>
  BY DEF Lookups
<1>2. Is(one, "dir", R!Parent(r.path), TRUE)
  BY DEF Is, Ask
<1>3. Is(two, "file", r.path, TRUE)
  BY DEF Is, Ask
<1>4. Is(three, "dir", r.path, ~yes[2])
  BY DEF Is, Ask
<1> HIDE DEF one, two, three, script
<1>5. /\ DOMAIN script = 1..3
      /\ script[1] = one
      /\ script[2] = two
      /\ script[3] = three
  BY <1>1
<1> QED
  BY <1>2, <1>3, <1>4, <1>5 DEF script

LEMMA DeleteLookups ==
  ASSUME NEW r, NEW yes, ~Early(r), r.op = "delete"
  PROVE  LET script == Lookups(r, yes)
         IN  /\ DOMAIN script = 1..3
             /\ Is(script[1], "dir", r.path, TRUE)
             /\ Is(script[2], "file", r.path, ~yes[1])
             /\ Is(script[3], "dir", r.path, yes[1] \/ yes[2])
<1> DEFINE one    == Ask("dir", r.path, TRUE)
           two    == Ask("file", r.path, ~yes[1])
           three  == Ask("dir", r.path, yes[1] \/ yes[2])
           script == Lookups(r, yes)
<1>1. script = <<one, two>> \o <<three>>
  BY DEF Lookups
<1>2. Is(one, "dir", r.path, TRUE)
  BY DEF Is, Ask
<1>3. Is(two, "file", r.path, ~yes[1])
  BY DEF Is, Ask
<1>4. Is(three, "dir", r.path, yes[1] \/ yes[2])
  BY DEF Is, Ask
<1> HIDE DEF one, two, three, script
<1>5. <<one, two>> \o <<three>> = <<one, two, three>>
  BY ThreeLong
<1>6. script = <<one, two, three>>
  BY <1>1, <1>5
<1>7. /\ DOMAIN script = 1..3
      /\ script[1] = one
      /\ script[2] = two
      /\ script[3] = three
  BY <1>6
<1> QED
  BY <1>2, <1>3, <1>4, <1>7 DEF script

LEMMA MkcolLookups ==
  ASSUME NEW r, NEW yes, ~Early(r), r.op = "mkcol"
  PROVE  LET script == Lookups(r, yes)
         IN  /\ DOMAIN script = 1..3
             /\ Is(script[1], "dir", r.path, TRUE)
             /\ Is(script[2], "file", r.path, ~yes[1])
             /\ Is(script[3], "dir", R!Parent(r.path), ~(yes[1] \/ yes[2]))
<1> DEFINE one    == Ask("dir", r.path, TRUE)
           two    == Ask("file", r.path, ~yes[1])
           three  == Ask("dir", R!Parent(r.path), ~(yes[1] \/ yes[2]))
           script == Lookups(r, yes)
<1>1. script = <<one, two>> \o <<three>>
  BY DEF Lookups
<1>2. Is(one, "dir", r.path, TRUE)
  BY DEF Is, Ask
<1>3. Is(two, "file", r.path, ~yes[1])
  BY DEF Is, Ask
<1>4. Is(three, "dir", R!Parent(r.path), ~(yes[1] \/ yes[2]))
  BY DEF Is, Ask
<1> HIDE DEF one, two, three, script
<1>5. <<one, two>> \o <<three>> = <<one, two, three>>
  BY ThreeLong
<1>6. script = <<one, two, three>>
  BY <1>1, <1>5
<1>7. /\ DOMAIN script = 1..3
      /\ script[1] = one
      /\ script[2] = two
      /\ script[3] = three
  BY <1>6
<1> QED
  BY <1>2, <1>3, <1>4, <1>7 DEF script

LEMMA CopyMoveLookups ==
  ASSUME NEW r, NEW yes, ~Early(r), r.op \in {"copy", "move"}
  PROVE  LET script == Lookups(r, yes)
         IN  /\ DOMAIN script = 1..5
             /\ Is(script[1], "dir", r.path, TRUE)
             /\ Is(script[2], "file", r.path, ~yes[1])
             /\ Is(script[3], "dir", R!Parent(r.dest), yes[1] \/ yes[2])
             /\ Is(script[4], "dir", r.dest, yes[3])
             /\ Is(script[5], "file", r.dest, yes[3] /\ ~yes[4])
<1> DEFINE one    == Ask("dir", r.path, TRUE)
           two    == Ask("file", r.path, ~yes[1])
           three  == Ask("dir", R!Parent(r.dest), yes[1] \/ yes[2])
           four   == Ask("dir", r.dest, yes[3])
           five   == Ask("file", r.dest, yes[3] /\ ~yes[4])
           script == Lookups(r, yes)
<1>1. script = <<one, two>> \o <<three, four, five>>
  BY DEF Lookups
<1>2. Is(one, "dir", r.path, TRUE)
  BY DEF Is, Ask
<1>3. Is(two, "file", r.path, ~yes[1])
  BY DEF Is, Ask
<1>4. Is(three, "dir", R!Parent(r.dest), yes[1] \/ yes[2])
  BY DEF Is, Ask
<1>5. Is(four, "dir", r.dest, yes[3])
  BY DEF Is, Ask
<1>6. Is(five, "file", r.dest, yes[3] /\ ~yes[4])
  BY DEF Is, Ask
<1> HIDE DEF one, two, three, four, five, script
<1>7. <<one, two>> \o <<three, four, five>> = <<one, two, three, four, five>>
  BY FiveLong
<1>8. script = <<one, two, three, four, five>>
  BY <1>1, <1>7
<1>9. /\ DOMAIN script = 1..5
      /\ script[1] = one
      /\ script[2] = two
      /\ script[3] = three
      /\ script[4] = four
      /\ script[5] = five
  BY <1>8
<1> QED
  BY <1>2, <1>3, <1>4, <1>5, <1>6, <1>9 DEF script

LEMMA GetLookups ==
  ASSUME NEW r, NEW yes, ~Early(r), r.op \in {"get", "head"}
  PROVE  LET script == Lookups(r, yes)
         IN  /\ DOMAIN script = 1..2
             /\ Is(script[1], "dir", r.path, TRUE)
             /\ Is(script[2], "read", r.path, ~yes[1])
<1> DEFINE one    == Ask("dir", r.path, TRUE)
           two    == Ask("read", r.path, ~yes[1])
           script == Lookups(r, yes)
<1>1. script = <<one, two>>
  BY DEF Lookups
<1>2. Is(one, "dir", r.path, TRUE)
  BY DEF Is, Ask
<1>3. Is(two, "read", r.path, ~yes[1])
  BY DEF Is, Ask
<1> HIDE DEF one, two, script
<1>4. /\ DOMAIN script = 1..2
      /\ script[1] = one
      /\ script[2] = two
  BY <1>1
<1> QED
  BY <1>2, <1>3, <1>4 DEF script

LEMMA PropfindLookups ==
  ASSUME NEW r, NEW yes, ~Early(r), r.op = "propfind"
  PROVE  LET script == Lookups(r, yes)
         IN  /\ DOMAIN script = 1..5
             /\ Is(script[1], "dir", r.path, TRUE)
             /\ Is(script[2], "file", r.path, ~yes[1])
             /\ Is(script[3], "dir", r.path, yes[1] \/ yes[2])
             /\ Is(script[4], "file", r.path, (yes[1] \/ yes[2]) /\ ~yes[3])
             /\ Is(script[5], "list", r.path, yes[3] /\ Depth(r) >= 1)
<1> DEFINE one    == Ask("dir", r.path, TRUE)
           two    == Ask("file", r.path, ~yes[1])
           three  == Ask("dir", r.path, yes[1] \/ yes[2])
           four   == Ask("file", r.path, (yes[1] \/ yes[2]) /\ ~yes[3])
           five   == Ask("list", r.path, yes[3] /\ Depth(r) >= 1)
           script == Lookups(r, yes)
<1>1. script = <<one, two>> \o <<three, four, five>>
  BY DEF Lookups
<1>2. Is(one, "dir", r.path, TRUE)
  BY DEF Is, Ask
<1>3. Is(two, "file", r.path, ~yes[1])
  BY DEF Is, Ask
<1>4. Is(three, "dir", r.path, yes[1] \/ yes[2])
  BY DEF Is, Ask
<1>5. Is(four, "file", r.path, (yes[1] \/ yes[2]) /\ ~yes[3])
  BY DEF Is, Ask
<1>6. Is(five, "list", r.path, yes[3] /\ Depth(r) >= 1)
  BY DEF Is, Ask
<1> HIDE DEF one, two, three, four, five, script
<1>7. <<one, two>> \o <<three, four, five>> = <<one, two, three, four, five>>
  BY FiveLong
<1>8. script = <<one, two, three, four, five>>
  BY <1>1, <1>7
<1>9. /\ DOMAIN script = 1..5
      /\ script[1] = one
      /\ script[2] = two
      /\ script[3] = three
      /\ script[4] = four
      /\ script[5] = five
  BY <1>8
<1> QED
  BY <1>2, <1>3, <1>4, <1>5, <1>6, <1>9 DEF script

\* How many lookups a handler may make.
Most(r) ==
  IF Early(r) THEN 0
  ELSE IF r.op \in {"put", "delete", "mkcol"} THEN 3
  ELSE IF r.op \in {"get", "head"} THEN 2 ELSE 5

LEMMA LookupsAre ==
  ASSUME NEW r \in Request, NEW yes
  PROVE  LET script == Lookups(r, yes)
         IN  /\ Most(r) \in 0..5 /\ DOMAIN script = 1..Most(r)
             /\ \A i \in DOMAIN script : script[i].what \in Kinds /\ Len(script[i].path) \in Nat
<1>1. r.op \in {"put", "delete", "mkcol", "copy", "move", "get", "head", "propfind"}
  BY RequestAssumption
<1>2. CASE Early(r)
  BY <1>2 DEF Lookups, Most
<1>3. CASE ~Early(r) /\ r.op = "put"
  BY <1>3, PathsAreSequences, PutLookups DEF Most, Kinds, Is
<1>4. CASE ~Early(r) /\ r.op = "delete"
  BY <1>4, PathsAreSequences, DeleteLookups DEF Most, Kinds, Is
<1>5. CASE ~Early(r) /\ r.op = "mkcol"
  BY <1>5, PathsAreSequences, MkcolLookups DEF Most, Kinds, Is
<1>6. CASE ~Early(r) /\ r.op \in {"copy", "move"}
  <2>1. Most(r) = 5
    BY <1>6 DEF Most
  <2>2. /\ DOMAIN Lookups(r, yes) = 1..5
        /\ Lookups(r, yes)[1].what \in Kinds /\ Len(Lookups(r, yes)[1].path) \in Nat
        /\ Lookups(r, yes)[2].what \in Kinds /\ Len(Lookups(r, yes)[2].path) \in Nat
        /\ Lookups(r, yes)[3].what \in Kinds /\ Len(Lookups(r, yes)[3].path) \in Nat
        /\ Lookups(r, yes)[4].what \in Kinds /\ Len(Lookups(r, yes)[4].path) \in Nat
        /\ Lookups(r, yes)[5].what \in Kinds /\ Len(Lookups(r, yes)[5].path) \in Nat
    BY <1>6, PathsAreSequences, CopyMoveLookups DEF Kinds, Is
  <2>3. \A i \in 1..5 : i = 1 \/ i = 2 \/ i = 3 \/ i = 4 \/ i = 5
    OBVIOUS
  <2> QED
    BY <2>1, <2>2, <2>3
<1>7. CASE ~Early(r) /\ r.op \in {"get", "head"}
  <2>1. Most(r) = 2
    BY <1>7 DEF Most
  <2>2. /\ DOMAIN Lookups(r, yes) = 1..2
        /\ Lookups(r, yes)[1].what \in Kinds /\ Len(Lookups(r, yes)[1].path) \in Nat
        /\ Lookups(r, yes)[2].what \in Kinds /\ Len(Lookups(r, yes)[2].path) \in Nat
    BY <1>7, PathsAreSequences, GetLookups DEF Kinds, Is
  <2>3. \A i \in 1..2 : i = 1 \/ i = 2
    OBVIOUS
  <2> QED
    BY <2>1, <2>2, <2>3
<1>8. CASE ~Early(r) /\ r.op = "propfind"
  <2>1. Most(r) = 5
    BY <1>8 DEF Most
  <2>2. /\ DOMAIN Lookups(r, yes) = 1..5
        /\ Lookups(r, yes)[1].what \in Kinds /\ Len(Lookups(r, yes)[1].path) \in Nat
        /\ Lookups(r, yes)[2].what \in Kinds /\ Len(Lookups(r, yes)[2].path) \in Nat
        /\ Lookups(r, yes)[3].what \in Kinds /\ Len(Lookups(r, yes)[3].path) \in Nat
        /\ Lookups(r, yes)[4].what \in Kinds /\ Len(Lookups(r, yes)[4].path) \in Nat
        /\ Lookups(r, yes)[5].what \in Kinds /\ Len(Lookups(r, yes)[5].path) \in Nat
    BY <1>8, PathsAreSequences, PropfindLookups DEF Kinds, Is
  <2>3. \A i \in 1..5 : i = 1 \/ i = 2 \/ i = 3 \/ i = 4 \/ i = 5
    OBVIOUS
  <2> QED
    BY <2>1, <2>2, <2>3
<1> QED
  BY <1>1, <1>2, <1>3, <1>4, <1>5, <1>6, <1>7, <1>8

\* Whether and what a handler looks up depends on the lookups before only.
SameAsk(one, other) ==
  one.what = other.what /\ one.path = other.path /\ (one.when <=> other.when)

LEMMA LookupsAreCausal ==
  ASSUME NEW r \in Request, NEW yes, NEW more, NEW n \in 1..Most(r),
         \A i \in 1..5 : i < n => yes[i] = more[i]
  PROVE  SameAsk(Lookups(r, yes)[n], Lookups(r, more)[n])
<1>1. r.op \in {"put", "delete", "mkcol", "copy", "move", "get", "head", "propfind"}
  BY RequestAssumption
<1>2. CASE Early(r)
  BY <1>2 DEF Most
<1>3. CASE ~Early(r) /\ r.op = "put"
  BY <1>3, PutLookups DEF Most, Is, SameAsk
<1>4. CASE ~Early(r) /\ r.op = "delete"
  BY <1>4, DeleteLookups DEF Most, Is, SameAsk
<1>5. CASE ~Early(r) /\ r.op = "mkcol"
  BY <1>5, MkcolLookups DEF Most, Is, SameAsk
<1>6. CASE ~Early(r) /\ r.op \in {"copy", "move"}
  BY <1>6, CopyMoveLookups DEF Most, Is, SameAsk
<1>7. CASE ~Early(r) /\ r.op \in {"get", "head"}
  BY <1>7, GetLookups DEF Most, Is, SameAsk
<1>8. CASE ~Early(r) /\ r.op = "propfind"
  BY <1>8, PropfindLookups DEF Most, Is, SameAsk
<1> QED
  BY <1>1, <1>2, <1>3, <1>4, <1>5, <1>6, <1>7, <1>8

-------------------------------------------------------------------------------
(* The invariant.                                                           *)

\* The next lookup is one that is due, and none before it is.
LEMMA NextIsDue ==
  ASSUME web.req \in Request, Due # {}
  PROVE  /\ NextDue \in Due /\ \A i \in Due : NextDue <= i
         /\ NextDue \in 1..Most(web.req) /\ Current = Script[NextDue] /\ Script[NextDue].when
         /\ Current.what \in Kinds /\ Len(Current.path) \in Nat
         /\ \A j \in DOMAIN web.facts : j < NextDue
<1>1. DOMAIN Script = 1..Most(web.req) /\ Most(web.req) \in 0..5
  BY LookupsAre DEF Script
<1>2. Due = {i \in DOMAIN Script : Script[i].when /\ \A j \in DOMAIN web.facts : j < i}
  BY DEF Due, Script
<1>3. Due \subseteq 0..5
  BY <1>1, <1>2
<1>4. \E i \in Due : \A j \in Due : i <= j
  BY <1>3, P!Least
<1>5. NextDue \in Due /\ \A i \in Due : NextDue <= i
  BY <1>4 DEF NextDue
<1>6. Current = Script[NextDue]
  BY DEF Current, Script
<1>7. Current.what \in Kinds /\ Len(Current.path) \in Nat
  BY <1>1, <1>2, <1>5, <1>6, LookupsAre DEF Script
<1> QED
  BY <1>1, <1>2, <1>5, <1>6, <1>7

\* The state of the web after a lookup.
LEMMA AfterLookUp ==
  ASSUME WebIsRecord, LookUp
  PROVE  /\ web'.pc = "ask" /\ web'.req = web.req /\ web'.head = Nothing /\ web'.calm = web.calm
         /\ web'.answer = web.answer /\ WebIsRecord'
         /\ DOMAIN web'.facts = DOMAIN web.facts \cup {NextDue}
         /\ \A i \in DOMAIN web.facts : i # NextDue => web'.facts[i] = web.facts[i]
         /\ web'.facts[NextDue].ask = Current /\ web'.facts[NextDue].head = web.head
         /\ web'.facts[NextDue].found =
              Find(Current.what, objects \cap Obj, TreeAt(web.head), Current.path)
<1> DEFINE found == Find(Current.what, objects \cap Obj, TreeAt(web.head), Current.path)
           fact  == [ask |-> Current, head |-> web.head, found |-> found]
           facts == [i \in DOMAIN web.facts \cup {NextDue} |->
                       IF i = NextDue THEN fact ELSE web.facts[i]]
<1>1. web' = [web EXCEPT !.pc = "ask", !.head = Nothing, !.facts = facts]
  BY DEF LookUp
<1>2. fact.ask = Current /\ fact.head = web.head /\ fact.found = found
  OBVIOUS
<1> HIDE DEF fact
<1>3. /\ DOMAIN facts = DOMAIN web.facts \cup {NextDue} /\ facts[NextDue] = fact
      /\ \A i \in DOMAIN web.facts : i # NextDue => facts[i] = web.facts[i]
  OBVIOUS
<1> HIDE DEF facts
<1>4. web' = [pc |-> "ask", req |-> web.req, head |-> Nothing, facts |-> facts,
              calm |-> web.calm, answer |-> web.answer]
  BY <1>1 DEF WebIsRecord
<1>5. WebIsRecord'
  BY <1>4 DEF WebIsRecord
<1> QED
  BY <1>2, <1>3, <1>4, <1>5

\* A lookup is the next one of the script, and what comes before it stays.
LEMMA LookUpKeepsScript ==
  ASSUME WebIsRecord, ScriptInv, LookUp
  PROVE  ScriptInv'
<1> DEFINE n == NextDue
           D == DOMAIN web.facts
           N == Most(web.req)
<1>1. web.req \in Request /\ Due # {}
  BY DEF ScriptInv, LookUp
<1>2. /\ n \in Due /\ (\A i \in Due : n <= i) /\ n \in 1..N /\ Script[n].when
      /\ Current = Script[n] /\ \A j \in D : j < n
  BY <1>1, NextIsDue
<1>3. DOMAIN Script = 1..N /\ N \in 0..5
  BY <1>1, LookupsAre DEF Script
<1>4. D \subseteq 1..N
  BY <1>3 DEF ScriptInv
<1>5. /\ web'.req = web.req /\ DOMAIN web'.facts = D \cup {n} /\ web'.pc = "ask"
      /\ \A i \in D : web'.facts[i] = web.facts[i]
      /\ web'.facts[n].ask = Current
  BY <1>2, AfterLookUp
<1>6. DOMAIN Script' = 1..N
  BY <1>1, <1>5, LookupsAre DEF Script
<1>7. \A i \in 1..5 : i < n => Yes(web.facts)[i] = Yes(web'.facts)[i]
  BY <1>2, <1>3, <1>4, <1>5 DEF Yes
<1>8. ASSUME NEW i \in 1..N, i <= n
      PROVE  SameAsk(Script[i], Script'[i])
  <2>1. \A j \in 1..5 : j < i => Yes(web.facts)[j] = Yes(web'.facts)[j]
    BY <1>2, <1>7, <1>8
  <2>2. SameAsk(Lookups(web.req, Yes(web.facts))[i], Lookups(web.req, Yes(web'.facts))[i])
    BY <1>1, <1>8, <2>1, LookupsAreCausal
  <2> QED
    BY <1>5, <2>2 DEF Script
<1>9. ASSUME NEW i \in DOMAIN web'.facts
      PROVE  web'.facts[i].ask.what = Script'[i].what /\ web'.facts[i].ask.path = Script'[i].path
  <2>1. i \in 1..N /\ i <= n /\ (i \in D \/ i = n)
    BY <1>2, <1>4, <1>5, <1>9
  <2>2. web'.facts[i].ask.what = Script[i].what /\ web'.facts[i].ask.path = Script[i].path
    BY <1>2, <1>5, <2>1 DEF ScriptInv
  <2> QED
    BY <1>8, <2>1, <2>2 DEF SameAsk
<1>10. ASSUME NEW i \in 1..N
       PROVE  i \in DOMAIN web'.facts <=> Script'[i].when /\ \E j \in DOMAIN web'.facts : i <= j
  <2>1. i \in D <=> Script[i].when /\ \E j \in D : i <= j
    BY <1>3, <1>10 DEF ScriptInv
  <2>2. CASE i > n
    BY <1>2, <1>4, <1>5, <2>2
  <2>3. CASE i <= n
    <3>1. Script'[i].when <=> Script[i].when
      BY <1>8, <1>10, <2>3 DEF SameAsk
    <3>2. \E j \in DOMAIN web'.facts : i <= j
      BY <1>5, <2>3
    <3>3. Script[i].when => i \in D \/ i = n
      <4>1. SUFFICES ASSUME Script[i].when, i \notin D
                     PROVE  i = n
        OBVIOUS
      <4>2. \A j \in D : j < i
        BY <1>4, <1>10, <2>1, <4>1
      <4>3. i \in Due
        BY <1>3, <1>10, <4>1, <4>2 DEF Due, Script
      <4> QED
        BY <1>2, <1>10, <2>3, <4>3
    <3> QED
      BY <1>2, <1>5, <2>1, <3>1, <3>2, <3>3
  <2> QED
    BY <1>2, <1>10, <2>2, <2>3
<1>11. DOMAIN web'.facts \subseteq DOMAIN Script'
  BY <1>2, <1>4, <1>5, <1>6
<1> HIDE DEF n, D, N
<1> QED
  BY <1>1, <1>5, <1>6, <1>9, <1>10, <1>11 DEF ScriptInv

\* A step that leaves the cache and the web but for its calm alone.
LEMMA ScriptStays ==
  ASSUME ScriptInv, web'.req = web.req, web'.facts = web.facts,
         web'.pc = "look" => Due # {},
         web'.pc = "done" => Due = {} /\ web'.answer = Answer(web.req, web.facts)
  PROVE  ScriptInv'
<1>1. Script' = Script /\ Due' = Due
  BY DEF Script, Due
<1>2. DOMAIN web'.facts = DOMAIN web.facts
  OBVIOUS
<1>3. /\ web'.req \in Request /\ DOMAIN web'.facts \subseteq DOMAIN Script'
      /\ \A i \in DOMAIN web'.facts :
           LET ask == web'.facts[i].ask
           IN  ask.what = Script'[i].what /\ ask.path = Script'[i].path
      /\ \A i \in DOMAIN Script' :
           i \in DOMAIN web'.facts <=> Script'[i].when /\ \E j \in DOMAIN web'.facts : i <= j
  BY <1>1 DEF ScriptInv
<1>4. /\ web'.pc = "look" => Due' # {}
      /\ web'.pc = "done" => Due' = {} /\ web'.answer = Answer(web'.req, web'.facts)
  BY <1>1
<1> QED
  BY <1>3, <1>4 DEF ScriptInv

\* A cached commit stays cached while the cache does.
LEMMA CachedStays ==
  ASSUME IInv, Next, NEW c \in Commit, Made(c), Cached(c), objects \subseteq objects'
  PROVE  Cached(c)'
  BY CommitsStay DEF Cached

\* A push of a commit made on the cached head leaves the cache whole.
LEMMA PushKeepsCacheWhole ==
  ASSUME IInv, PacksOnBase, Next, CacheWhole, NEW t \in Task, Report(t), task[t].base = head
  PROVE  CacheWhole' /\ objects \subseteq objects'
<1>1. head \in Commit \cap store /\ Made(head)
  BY Now, KnownCommit
<1>2. CASE UNCHANGED cache
  BY <1>1, <1>2, CachedStays DEF CacheWhole, cache
<1>3. CASE objects' = objects \cup task[t].buf /\ head' = task[t].new
  <2>1. task[t].pc \in Pushing
    BY DEF Report, Pushing
  <2>2. PackOnBase(task[t]) /\ PackComplete(task[t])
    BY <2>1, Now DEF PacksOnBase, TaskInv, PushComplete
  <2>3. task[t].new \in task[t].buf
    BY <2>2 DEF PackComplete
  <2>4. Closure(TreeOf(task[t].new)) \subseteq Closure(TreeOf(head)) \cup task[t].buf
    BY <2>1, <2>2 DEF PackOnBase
  <2>5. commits' = commits
    BY DEF Report
  <2> QED
    BY <1>3, <2>3, <2>4, <2>5 DEF CacheWhole, Cached, TreeOf
<1> QED
  BY <1>2, <1>3 DEF Report

LEMMA CalmStays ==
  ASSUME IInv, PacksOnBase, HeadsKnown, CalmInv, Next, web.calm,
         cache' = cache \/ \E t \in Task : Report(t) /\ task[t].base = head,
         web'.pc = web.pc, web'.head = web.head
  PROVE  CacheWhole' /\ (web'.pc = "look" => Cached(web.head)')
<1>1. head \in Commit \cap store /\ Made(head)
  <2>1. head \in Commit \cap store
    BY DEF IInv, TypeOK, CacheOnRemote
  <2> QED
    BY <2>1, KnownCommit
<1>2. CacheWhole' /\ objects \subseteq objects'
  <2>1. CASE cache' = cache
    BY <1>1, <2>1, CachedStays DEF CacheWhole, CalmInv, cache
  <2>2. ASSUME NEW t \in Task, Report(t), task[t].base = head
        PROVE  CacheWhole' /\ objects \subseteq objects'
    BY <2>2, PushKeepsCacheWhole DEF CalmInv
  <2> QED
    BY <2>1, <2>2
<1>3. ASSUME web'.pc = "look"
      PROVE  Cached(web.head)'
  <2>1. /\ web.head \in Commit /\ Made(web.head) /\ Cached(web.head)
    BY <1>3 DEF HeadsKnown, CalmInv
  <2>2. Closure(commits'[web.head].tree) \subseteq objects' /\ web.head \in objects'
    BY <1>2, <2>1, CommitsStay DEF Cached
  <2> QED
    BY <2>2 DEF Cached
<1> QED
  BY <1>2, <1>3

\* What has been found stays as right as it was while commits stay.
HeadsOfFacts ==
  \A i \in DOMAIN web.facts : web.facts[i].head \in Commit /\ Made(web.facts[i].head)

LEMMA WholeStays ==
  ASSUME NEW ask, NEW c, commits'[c] = commits[c]
  PROVE  Whole(ask, c)' = Whole(ask, c)
  BY DEF Whole

LEMMA FactsStay ==
  ASSUME HeadsKnown, FactsSound, PushesDoNotDisturb,
         \A c \in Commit : Made(c) => commits'[c] = commits[c],
         web'.facts = web.facts, web'.calm => web.calm
  PROVE  FactsSound' /\ PushesDoNotDisturb' /\ HeadsOfFacts'
<1>1. ASSUME NEW i \in DOMAIN web.facts
      PROVE  /\ Whole(web.facts[i].ask, web.facts[i].head)' = Whole(web.facts[i].ask, web.facts[i].head)
             /\ web.facts[i].head \in Commit /\ commits'[web.facts[i].head] # Nothing
  <2>1. web.facts[i].head \in Commit /\ Made(web.facts[i].head)
    BY DEF HeadsKnown
  <2>2. commits'[web.facts[i].head] = commits[web.facts[i].head]
    BY <2>1
  <2> DEFINE ask == web.facts[i].ask
             c   == web.facts[i].head
  <2>3. ask' = ask /\ c' = c
    OBVIOUS
  <2>4. \A x, y : commits'[y] = commits[y] => Whole(x, y)' = Whole(x, y)
    BY WholeStays
  <2>5. Whole(ask, c)' = Whole(ask, c)
    BY <2>2, <2>3, <2>4 DEF Whole
  <2> QED
    BY <2>1, <2>2, <2>5 DEF Made
<1>2. FactsSound'
  BY <1>1 DEF FactsSound
<1>3. PushesDoNotDisturb'
  BY <1>1 DEF PushesDoNotDisturb
<1>4. HeadsOfFacts'
  BY <1>1 DEF HeadsOfFacts, Made
<1> QED
  BY <1>2, <1>3, <1>4

\* A new fact is as right as the cache allows.
LEMMA NewFact ==
  ASSUME IInv, WebIsRecord, HeadsKnown, CalmInv, ScriptInv, LookUp
  PROVE  LET f == web'.facts[NextDue]
         IN  /\ f.head \in Commit /\ Made(f.head)
             /\ Sound(f.ask.what, f.found, Whole(f.ask, f.head))
             /\ web.calm => f.found = Whole(f.ask, f.head)
<1> DEFINE tree == commits[web.head].tree
           at   == TreeAt(web.head)
           objs == objects \cap Obj
           ask  == Current
<1>1. web.head \in Commit /\ Made(web.head)
  BY DEF HeadsKnown, LookUp
<1>2. tree \in Tree
  BY <1>1 DEF IInv, TypeOK, CommitType, Made
<1>3. at \in {tree, Nothing}
  BY DEF TreeAt
<1>4. ask.what \in Kinds /\ Len(ask.path) \in Nat
  BY NextIsDue DEF ScriptInv, LookUp
<1>5. /\ Sound(ask.what, Find(ask.what, objs, at, ask.path), Find(ask.what, Closure(tree), tree, ask.path))
      /\ at = tree /\ Closure(tree) \subseteq objs =>
           Find(ask.what, objs, at, ask.path) = Find(ask.what, Closure(tree), tree, ask.path)
  <2> HIDE DEF tree, at, objs, ask
  <2> QED
    BY <1>2, <1>3, <1>4, LookupIsSound
<1>6. ASSUME web.calm
      PROVE  at = tree /\ Closure(tree) \subseteq objs
  <2>1. Cached(web.head)
    BY <1>6 DEF CalmInv, LookUp
  <2>2. Closure(tree) \subseteq Obj
    BY <1>2, ReachAssumption
  <2> QED
    BY <2>1, <2>2 DEF Cached, TreeAt
<1>7. Whole(ask, web.head) = Find(ask.what, Closure(tree), tree, ask.path)
  BY DEF Whole
<1>8. /\ web'.facts[NextDue].ask = ask /\ web'.facts[NextDue].head = web.head
      /\ web'.facts[NextDue].found = Find(ask.what, objs, at, ask.path)
  BY AfterLookUp
<1> HIDE DEF tree, at, objs, ask
<1> QED
  BY <1>1, <1>5, <1>6, <1>7, <1>8

AllInv == IInv /\ HandlerInv /\ FactsSound /\ PushesDoNotDisturb

LEMMA InitAllInv == HandlerInit => AllInv
<1> SUFFICES ASSUME HandlerInit
             PROVE  AllInv
  OBVIOUS
<1>1. IInv
  BY InitIInv DEF HandlerInit
<1>2. /\ web = Waiting /\ web.pc = "idle" /\ web.facts = <<>> /\ web.calm = FALSE
      /\ DOMAIN web.facts = {}
  BY DEF HandlerInit, Waiting
<1>3. WebIsRecord
  BY <1>2 DEF WebIsRecord, Waiting
<1>4. PacksOnBase
  BY DEF HandlerInit, Init, NotStarted, PacksOnBase, PackOnBase, Pushing
<1>5. HeadsKnown /\ CalmInv /\ FactsSound /\ PushesDoNotDisturb
  BY <1>2 DEF HeadsKnown, CalmInv, FactsSound, PushesDoNotDisturb
<1> QED
  BY <1>1, <1>2, <1>3, <1>4, <1>5 DEF AllInv, HandlerInv

\* The steps of the request itself leave the rest alone.
LEMMA RestStays ==
  ASSUME IInv, PacksOnBase, UNCHANGED vars
  PROVE  /\ IInv' /\ PacksOnBase'
         /\ \A c \in Commit : Made(c) => commits'[c] = commits[c]
<1>1. IInv'
  BY NextIInv
<1>2. PacksOnBase'
  BY DEF vars, PacksOnBase, PackOnBase, Made, TreeOf
<1> QED
  BY <1>1, <1>2 DEF vars

LEMMA ReceiveKeeps ==
  ASSUME AllInv, Receive
  PROVE  AllInv'
<1>1. PICK r \in Request : web' = [web EXCEPT !.pc = "ask", !.req = r, !.calm = CacheWhole]
  BY DEF Receive
<1>2. UNCHANGED vars /\ web.pc = "idle"
  BY DEF Receive
<1>3. web = Waiting
  BY <1>2 DEF AllInv, HandlerInv
<1> DEFINE calm == CacheWhole
<1>4. /\ web' = [pc |-> "ask", req |-> r, head |-> Nothing, facts |-> <<>>,
                 calm |-> calm, answer |-> Nothing]
      /\ DOMAIN web'.facts = {}
  <2> HIDE DEF calm
  <2>1. web' = [web EXCEPT !.pc = "ask", !.req = r, !.calm = calm]
    BY <1>1 DEF calm
  <2>2. web' = [pc |-> "ask", req |-> r, head |-> Nothing, facts |-> <<>>,
                calm |-> calm, answer |-> Nothing]
    BY <1>3, <2>1 DEF Waiting
  <2> QED
    BY <2>2
<1>5. WebIsRecord'
  BY <1>4 DEF WebIsRecord, CacheWhole, Cached
<1>6. ScriptInv'
  BY <1>4 DEF ScriptInv
<1>7. HeadsKnown' /\ FactsSound' /\ PushesDoNotDisturb'
  BY <1>4 DEF HeadsKnown, FactsSound, PushesDoNotDisturb
<1>8. CalmInv'
  BY <1>2, <1>4 DEF CalmInv, CacheWhole, Cached, vars
<1>9. IInv' /\ PacksOnBase'
  BY <1>2, RestStays DEF AllInv, HandlerInv
<1>10. web'.pc # "idle"
  BY <1>4
<1> QED
  BY <1>5, <1>6, <1>7, <1>8, <1>9, <1>10 DEF AllInv, HandlerInv

LEMMA TakeHeadKeeps ==
  ASSUME AllInv, TakeHead
  PROVE  AllInv'
<1>1. UNCHANGED vars /\ web.pc = "ask" /\ WebIsRecord /\ ScriptInv /\ Due # {}
  BY DEF TakeHead, AllInv, HandlerInv
<1>2. /\ web' = [pc |-> "look", req |-> web.req, head |-> head, facts |-> web.facts,
                 calm |-> web.calm, answer |-> web.answer]
  BY <1>1 DEF TakeHead, WebIsRecord
<1>3. WebIsRecord'
  BY <1>1, <1>2 DEF WebIsRecord
<1>4. ScriptInv'
  BY <1>1, <1>2, ScriptStays
<1>5. IInv' /\ PacksOnBase' /\ \A c \in Commit : Made(c) => commits'[c] = commits[c]
  BY <1>1, RestStays DEF AllInv, HandlerInv
<1>6. FactsSound' /\ PushesDoNotDisturb' /\ HeadsOfFacts'
  <2>1. web'.facts = web.facts /\ (web'.calm => web.calm)
    BY <1>2
  <2>2. HeadsKnown /\ FactsSound /\ PushesDoNotDisturb
    BY DEF AllInv, HandlerInv
  <2> QED
    BY <1>5, <2>1, <2>2, FactsStay
<1>7. head \in Commit /\ Made(head)
  <2>1. head \in Commit \cap store
    BY DEF AllInv, IInv, TypeOK, CacheOnRemote
  <2> QED
    BY <2>1, KnownCommit DEF AllInv
<1>8. HeadsKnown'
  <2>1. web'.head = head
    BY <1>2
  <2>2. web'.head \in Commit /\ commits'[web'.head] # Nothing
    BY <1>1, <1>7, <2>1 DEF Made, vars
  <2> QED
    BY <1>6, <2>2 DEF HeadsKnown, HeadsOfFacts, Made
<1>9. CalmInv'
  BY <1>1, <1>2 DEF AllInv, HandlerInv, CalmInv, CacheWhole, Cached, vars
<1>10. web'.pc # "idle"
  BY <1>2
<1> QED
  BY <1>3, <1>4, <1>5, <1>6, <1>8, <1>9, <1>10 DEF AllInv, HandlerInv

LEMMA LookUpKeeps ==
  ASSUME AllInv, LookUp
  PROVE  AllInv'
<1> DEFINE n == NextDue
<1>1. UNCHANGED vars /\ web.pc = "look" /\ WebIsRecord /\ ScriptInv
  BY DEF LookUp, AllInv, HandlerInv
<1>2. /\ web'.pc = "ask" /\ web'.calm = web.calm /\ WebIsRecord'
      /\ DOMAIN web'.facts = DOMAIN web.facts \cup {n}
      /\ \A i \in DOMAIN web.facts : i # n => web'.facts[i] = web.facts[i]
  BY <1>1, AfterLookUp
<1>3. ScriptInv'
  BY <1>1, LookUpKeepsScript
<1>4. IInv' /\ PacksOnBase' /\ \A c \in Commit : Made(c) => commits'[c] = commits[c]
  BY <1>1, RestStays DEF AllInv, HandlerInv
<1>5. LET f == web'.facts[n]
      IN  /\ f.head \in Commit /\ Made(f.head)
          /\ Sound(f.ask.what, f.found, Whole(f.ask, f.head))
          /\ web.calm => f.found = Whole(f.ask, f.head)
  BY <1>1, NewFact DEF AllInv, HandlerInv
<1>6. \A ask, c : Whole(ask, c)' = Whole(ask, c) /\ Made(c)' = Made(c)
  BY <1>1 DEF Whole, Made, vars
<1> HIDE DEF n
<1>7. FactsSound'
  BY <1>2, <1>5, <1>6 DEF FactsSound, AllInv
<1>8. PushesDoNotDisturb'
  BY <1>2, <1>5, <1>6 DEF PushesDoNotDisturb, AllInv
<1>9. HeadsKnown'
  BY <1>2, <1>5, <1>6 DEF HeadsKnown, AllInv, HandlerInv
<1>10. CalmInv'
  BY <1>1, <1>2 DEF AllInv, HandlerInv, CalmInv, CacheWhole, Cached, vars
<1>11. web'.pc # "idle"
  BY <1>2
<1> QED
  BY <1>2, <1>3, <1>4, <1>7, <1>8, <1>9, <1>10, <1>11 DEF AllInv, HandlerInv

LEMMA RespondKeeps ==
  ASSUME AllInv, Respond
  PROVE  AllInv'
<1>1. UNCHANGED vars /\ web.pc = "ask" /\ WebIsRecord /\ ScriptInv /\ Due = {}
  BY DEF Respond, AllInv, HandlerInv
<1>2. web' = [pc |-> "done", req |-> web.req, head |-> web.head, facts |-> web.facts,
              calm |-> web.calm, answer |-> Answer(web.req, web.facts)]
  BY <1>1 DEF Respond, WebIsRecord
<1>3. WebIsRecord'
  BY <1>1, <1>2 DEF WebIsRecord
<1>4. ScriptInv'
  BY <1>1, <1>2, ScriptStays
<1>5. IInv' /\ PacksOnBase' /\ \A c \in Commit : Made(c) => commits'[c] = commits[c]
  BY <1>1, RestStays DEF AllInv, HandlerInv
<1>6. FactsSound' /\ PushesDoNotDisturb' /\ HeadsOfFacts'
  <2>1. web'.facts = web.facts /\ (web'.calm => web.calm)
    BY <1>2
  <2>2. HeadsKnown /\ FactsSound /\ PushesDoNotDisturb
    BY DEF AllInv, HandlerInv
  <2> QED
    BY <1>5, <2>1, <2>2, FactsStay
<1>7. HeadsKnown'
  <2>1. web'.pc # "look"
    BY <1>2
  <2> QED
    BY <1>6, <2>1 DEF HeadsKnown, HeadsOfFacts
<1>8. CalmInv'
  BY <1>1, <1>2 DEF AllInv, HandlerInv, CalmInv, CacheWhole, Cached, vars
<1>9. web'.pc # "idle"
  BY <1>2
<1> QED
  BY <1>3, <1>4, <1>5, <1>6, <1>7, <1>8, <1>9 DEF AllInv, HandlerInv

LEMMA OthersKeepAll ==
  ASSUME AllInv, Others
  PROVE  AllInv'
<1> DEFINE pushed == cache' = cache \/ \E t \in Task : Report(t) /\ task[t].base = head
<1>1. Next /\ WebIsRecord
  BY DEF Others, AllInv, HandlerInv
<1>2. /\ web'.pc = web.pc /\ web'.req = web.req /\ web'.head = web.head /\ web'.facts = web.facts
      /\ web'.answer = web.answer /\ (web'.calm <=> web.calm /\ pushed) /\ WebIsRecord'
  <2>1. web' = [pc |-> web.pc, req |-> web.req, head |-> web.head, facts |-> web.facts,
                calm |-> web.calm /\ pushed, answer |-> web.answer]
    BY <1>1 DEF Others, WebIsRecord
  <2> HIDE DEF pushed
  <2> QED
    BY <1>1, <2>1 DEF WebIsRecord
<1>3. IF web'.pc = "idle" THEN web' = Waiting ELSE ScriptInv'
  <2>1. CASE web.pc = "idle"
    <3>1. web = Waiting
      BY <2>1 DEF AllInv, HandlerInv
    <3>2. web'.calm = FALSE
      BY <1>2, <3>1 DEF Waiting, WebIsRecord
    <3> QED
      BY <1>2, <2>1, <3>1, <3>2 DEF WebIsRecord, Waiting
  <2>2. CASE web.pc # "idle"
    <3>1. ScriptInv
      BY <2>2 DEF AllInv, HandlerInv
    <3>2. ScriptInv'
      BY <1>2, <3>1, ScriptStays DEF ScriptInv
    <3> QED
      BY <1>2, <2>2, <3>2
  <2> QED
    BY <2>1, <2>2
<1>4. IInv' /\ PacksOnBase'
  BY <1>1, NextIInv, PacksStayOnBase DEF AllInv, HandlerInv
<1>5. \A c \in Commit : Made(c) => commits'[c] = commits[c]
  BY <1>1, CommitsStay DEF AllInv
<1>6. FactsSound' /\ PushesDoNotDisturb' /\ HeadsOfFacts'
  <2>1. web'.facts = web.facts /\ (web'.calm => web.calm)
    BY <1>2
  <2>2. HeadsKnown /\ FactsSound /\ PushesDoNotDisturb
    BY DEF AllInv, HandlerInv
  <2> QED
    BY <1>5, <2>1, <2>2, FactsStay
<1>7. HeadsKnown'
  BY <1>2, <1>5, <1>6 DEF HeadsKnown, HeadsOfFacts, Made, AllInv, HandlerInv
<1>8. CalmInv'
  <2>1. SUFFICES ASSUME web.calm, pushed
                 PROVE  CacheWhole' /\ (web'.pc = "look" => Cached(web.head)')
    BY <1>2 DEF CalmInv, Cached
  <2> QED
    BY <1>1, <1>2, <2>1, CalmStays DEF AllInv, HandlerInv
<1> QED
  BY <1>2, <1>3, <1>4, <1>6, <1>7, <1>8 DEF AllInv, HandlerInv

LEMMA NextAllInv == AllInv /\ [HandlerNext]_<<vars, web>> => AllInv'
<1> SUFFICES ASSUME AllInv, [HandlerNext]_<<vars, web>>
             PROVE  AllInv'
  OBVIOUS
<1>1. CASE HandlerNext
  BY <1>1, ReceiveKeeps, TakeHeadKeeps, LookUpKeeps, RespondKeeps, OthersKeepAll DEF HandlerNext
<1>2. CASE UNCHANGED <<vars, web>>
  <2>1. IInv'
    BY <1>2, NextIInv DEF AllInv
  <2>2. HandlerInv'
    BY <1>2 DEF AllInv, HandlerInv, WebIsRecord, Waiting, ScriptInv, Script, Due, HeadsKnown, CalmInv,
                CacheWhole, Cached, PacksOnBase, PackOnBase, Made, TreeOf, vars
  <2>3. FactsSound' /\ PushesDoNotDisturb'
    BY <1>2 DEF AllInv, FactsSound, PushesDoNotDisturb, Whole, vars
  <2> QED
    BY <2>1, <2>2, <2>3 DEF AllInv
<1> QED
  BY <1>1, <1>2

\* The invariant of a request and of the cache around it holds.
THEOREM HandlerInvariant == HandlerSpec => []HandlerInv
<1>1. AllInv => HandlerInv
  BY DEF AllInv
<1> QED
  BY <1>1, InitAllInv, NextAllInv, PTL DEF HandlerSpec

\* No lookup says more than is so at the head it read, whatever becomes of the
\* cache between its two locks (repo.rs takes head_oid, then objects).
THEOREM LookupsAreSound == HandlerSpec => []FactsSound
<1>1. AllInv => FactsSound
  BY DEF AllInv
<1> QED
  BY <1>1, InitAllInv, NextAllInv, PTL DEF HandlerSpec

\* Pushes of commits made on the cached head never take anything from a reader.
THEOREM PushesNeverDisturb == HandlerSpec => []PushesDoNotDisturb
<1>1. AllInv => PushesDoNotDisturb
  BY DEF AllInv
<1> QED
  BY <1>1, InitAllInv, NextAllInv, PTL DEF HandlerSpec

-------------------------------------------------------------------------------
(* The answer of a request whose lookups were all about one head.           *)

\* The facts are those the script asks for, and as they are in the whole tree.
Seen(r, facts, tree) ==
  /\ ~Early(r) /\ DOMAIN facts \subseteq 1..Most(r)
  /\ \A i \in 1..Most(r) :
       LET ask == Lookups(r, Yes(facts))[i]
       IN  /\ i \in DOMAIN facts <=> ask.when
           /\ ask.when => facts[i].found = Find(ask.what, Closure(tree), tree, ask.path)

LEMMA FindsInTree ==
  ASSUME NEW tree \in Tree, NEW path, Len(path) \in Nat
  PROVE  LET objs == Closure(tree)
         IN  /\ Find("dir", objs, tree, path) # Nothing <=> R!IsDirectory(objs, tree, path)
             /\ Find("file", objs, tree, path) # Nothing <=> R!IsFile(objs, tree, path)
             /\ R!IsFile(objs, tree, path) =>
                  Find("file", objs, tree, path) = R!Lookup(objs, tree, path).oid
<1> DEFINE objs == Closure(tree)
<1>1. Find("dir", objs, tree, path) # Nothing <=> R!IsDirectory(objs, tree, path)
  BY RequestAssumption DEF Find
<1>2. R!IsFile(objs, tree, path) => R!Lookup(objs, tree, path).oid \in Obj
  BY ReachAssumption DEF R!IsFile
<1>3. R!IsFile(objs, tree, path) => R!Lookup(objs, tree, path).oid # Nothing
  BY <1>2, SetAssumption
<1>4. Find("file", objs, tree, path) = IF R!IsFile(objs, tree, path) THEN R!Lookup(objs, tree, path).oid
                                       ELSE Nothing
  BY DEF Find
<1> QED
  BY <1>1, <1>3, <1>4

\* What the i-th lookup says is so in the tree, if it was made.
Fits(r, facts, tree, i) ==
  LET ask == Lookups(r, Yes(facts))[i]
  IN  /\ ask.what = "dir" =>
           Yes(facts)[i] = (ask.when /\ R!IsDirectory(Closure(tree), tree, ask.path))
      /\ ask.what = "file" =>
           Yes(facts)[i] = (ask.when /\ R!IsFile(Closure(tree), tree, ask.path))
      /\ i \in DOMAIN facts <=> ask.when
      /\ ask.when => facts[i].found = Find(ask.what, Closure(tree), tree, ask.path)

LEMMA YesIs ==
  ASSUME NEW tree \in Tree, NEW r \in Request, NEW facts, Seen(r, facts, tree),
         NEW i \in 1..Most(r)
  PROVE  Fits(r, facts, tree, i)
<1> DEFINE ask == Lookups(r, Yes(facts))[i]
<1>1. /\ i \in DOMAIN facts <=> ask.when
      /\ ask.when => facts[i].found = Find(ask.what, Closure(tree), tree, ask.path)
  BY DEF Seen
<1>2. Most(r) \in 0..5 /\ Len(ask.path) \in Nat
  BY LookupsAre
<1>3. Yes(facts)[i] = (i \in DOMAIN facts /\ facts[i].found # Nothing)
  BY <1>2 DEF Yes
<1> HIDE DEF ask
<1>4. /\ ask.what = "dir" =>
           Yes(facts)[i] = (ask.when /\ R!IsDirectory(Closure(tree), tree, ask.path))
      /\ ask.what = "file" =>
           Yes(facts)[i] = (ask.when /\ R!IsFile(Closure(tree), tree, ask.path))
  BY <1>1, <1>2, <1>3, FindsInTree
<1> QED
  BY <1>1, <1>4 DEF ask, Fits

\* The first check that fails decides.
Fails(checks, i) == checks[i].when
LEMMA FirstDecides ==
  ASSUME NEW checks, DOMAIN checks \subseteq Nat, NEW i \in DOMAIN checks, Fails(checks, i),
         \A j \in DOMAIN checks : j < i => ~Fails(checks, j)
  PROVE  R!FirstOf(checks) = checks[i].status
<1> USE DEF Fails
<1> DEFINE failing == {j \in DOMAIN checks : checks[j].when}
           first   == CHOOSE j \in failing : \A k \in failing : j <= k
<1>1. i \in failing /\ \A k \in failing : i <= k
  OBVIOUS
<1>2. first \in failing /\ \A k \in failing : first <= k
  <2> HIDE DEF failing
  <2> QED
    BY <1>1
<1>3. first \in Nat /\ i \in Nat /\ first <= i /\ i <= first
  BY <1>1, <1>2
<1> HIDE DEF first
<1>4. first = i
  BY <1>3
<1>5. failing # {}
  BY <1>1
<1> QED
  BY <1>4, <1>5 DEF R!FirstOf, first

LEMMA Truths ==
  ASSUME NEW objs, NEW tree, NEW path
  PROVE  /\ R!IsDirectory(objs, tree, path) \in BOOLEAN /\ R!IsFile(objs, tree, path) \in BOOLEAN
         /\ R!Exists(objs, tree, path) \in BOOLEAN
  BY DEF R!IsDirectory, R!IsFile, R!Exists

LEMMA PutIsAnswered ==
  ASSUME NEW tree \in Tree, NEW r \in Request, NEW facts, Seen(r, facts, tree), r.op = "put"
  PROVE  Answer(r, facts) = Expected(r, tree)
<1> DEFINE yes         == Yes(facts)
           objs        == Closure(tree)
           isDir(path) == R!IsDirectory(objs, tree, path)
           isFile      == R!IsFile(objs, tree, r.path)
<1>1. ~Early(r) /\ Most(r) = 3
  BY DEF Seen, Most
<1>2. /\ Is(Lookups(r, yes)[1], "dir", R!Parent(r.path), TRUE)
      /\ Is(Lookups(r, yes)[2], "file", r.path, TRUE)
      /\ Is(Lookups(r, yes)[3], "dir", r.path, ~yes[2])
  BY <1>1, PutLookups
<1>3. Fits(r, facts, tree, 1) /\ Fits(r, facts, tree, 2) /\ Fits(r, facts, tree, 3)
  BY <1>1, YesIs
<1>4. yes[1] = isDir(R!Parent(r.path))
  BY <1>2, <1>3, Truths DEF Is, Fits
<1>5. yes[2] = isFile
  BY <1>2, <1>3, Truths DEF Is, Fits
<1>6. yes[3] = (~yes[2] /\ isDir(r.path))
  BY <1>2, <1>3, Truths DEF Is, Fits
<1>7. (yes[2] \/ yes[3]) = R!Exists(objs, tree, r.path)
  BY <1>5, <1>6 DEF R!Exists
<1>8. Answer(r, facts) = R!Status(R!PutAnswer(r, yes[1], yes[2] \/ yes[3]))
  BY DEF Answer
<1>9. Expected(r, tree) = R!Status(R!HandlerCheck(objs, tree, r))
  BY DEF Expected
<1>10. R!HandlerCheck(objs, tree, r) =
         R!PutAnswer(r, isDir(R!Parent(r.path)), R!Exists(objs, tree, r.path))
  BY DEF R!HandlerCheck
<1> QED
  BY <1>4, <1>7, <1>8, <1>9, <1>10

LEMMA DeleteIsAnswered ==
  ASSUME NEW tree \in Tree, NEW r \in Request, NEW facts, Seen(r, facts, tree), r.op = "delete"
  PROVE  Answer(r, facts) = Expected(r, tree)
<1> DEFINE yes  == Yes(facts)
           objs == Closure(tree)
<1>1. ~Early(r) /\ Most(r) = 3
  BY DEF Seen, Most
<1>2. /\ Is(Lookups(r, yes)[1], "dir", r.path, TRUE)
      /\ Is(Lookups(r, yes)[2], "file", r.path, ~yes[1])
  BY <1>1, DeleteLookups
<1>3. Fits(r, facts, tree, 1) /\ Fits(r, facts, tree, 2)
  BY <1>1, YesIs
<1>4. yes[1] = R!IsDirectory(objs, tree, r.path)
  BY <1>2, <1>3, Truths DEF Is, Fits
<1>5. yes[2] = (~yes[1] /\ R!IsFile(objs, tree, r.path))
  BY <1>2, <1>3, Truths DEF Is, Fits
<1>6. (yes[1] \/ yes[2]) = R!Exists(objs, tree, r.path)
  BY <1>4, <1>5 DEF R!Exists
<1>7. Answer(r, facts) = R!Status(R!DeleteAnswer(r, yes[1] \/ yes[2]))
  BY DEF Answer
<1>8. Expected(r, tree) = R!Status(R!HandlerCheck(objs, tree, r))
  BY DEF Expected
<1>9. R!HandlerCheck(objs, tree, r) = R!DeleteAnswer(r, R!Exists(objs, tree, r.path))
  BY DEF R!HandlerCheck
<1> QED
  BY <1>6, <1>7, <1>8, <1>9

\* A finding that is so and one that is not, as the lemmas on the answers take them.
Holds(found) == found = TRUE
Lacks(found) == ~Holds(found)

\* What comes later in the checks does not matter once one of them fails.
LEMMA MkcolOfExisting ==
  ASSUME NEW r, ~Early(r), r.op = "mkcol", NEW exists, Holds(exists), NEW parentIsDir
  PROVE  R!MkcolAnswer(r, exists, parentIsDir) = 405
<1> DEFINE checks == << R!Check(r.body, 415), R!Check(exists, 405), R!Check(~parentIsDir, 409) >>
<1>1. DOMAIN checks = 1..3 /\ ~checks[1].when /\ checks[2].when /\ checks[2].status = 405
  BY DEF R!Check, Early, Holds
<1>2. R!MkcolAnswer(r, exists, parentIsDir) = R!FirstOf(checks)
  BY DEF R!MkcolAnswer
<1> HIDE DEF checks
<1>3. DOMAIN checks \subseteq Nat /\ 2 \in DOMAIN checks
  BY <1>1
<1>4. \A j \in DOMAIN checks : j < 2 => ~Fails(checks, j)
  <2>1. \A j \in 1..3 : j < 2 => j = 1
    OBVIOUS
  <2> QED
    BY <1>1, <2>1 DEF Fails
<1>5. Fails(checks, 2) /\ checks[2].status = 405
  BY <1>1 DEF Fails
<1> QED
  BY <1>2, <1>3, <1>4, <1>5, FirstDecides

LEMMA MkcolIsAnswered ==
  ASSUME NEW tree \in Tree, NEW r \in Request, NEW facts, Seen(r, facts, tree), r.op = "mkcol"
  PROVE  Answer(r, facts) = Expected(r, tree)
<1> DEFINE yes    == Yes(facts)
           objs   == Closure(tree)
           found  == yes[1] \/ yes[2]
           parent == R!IsDirectory(objs, tree, R!Parent(r.path))
<1>1. ~Early(r) /\ Most(r) = 3
  BY DEF Seen, Most
<1>2. /\ Is(Lookups(r, yes)[1], "dir", r.path, TRUE)
      /\ Is(Lookups(r, yes)[2], "file", r.path, ~yes[1])
      /\ Is(Lookups(r, yes)[3], "dir", R!Parent(r.path), ~(yes[1] \/ yes[2]))
  BY <1>1, MkcolLookups
<1>3. Fits(r, facts, tree, 1) /\ Fits(r, facts, tree, 2) /\ Fits(r, facts, tree, 3)
  BY <1>1, YesIs
<1>4. yes[1] = R!IsDirectory(objs, tree, r.path)
  BY <1>2, <1>3, Truths DEF Is, Fits
<1>5. yes[2] = (~yes[1] /\ R!IsFile(objs, tree, r.path))
  BY <1>2, <1>3, Truths DEF Is, Fits
<1>6. yes[3] = (~found /\ parent)
  BY <1>2, <1>3, Truths DEF Is, Fits
<1>7. found = R!Exists(objs, tree, r.path)
  BY <1>4, <1>5 DEF R!Exists
<1>8. Answer(r, facts) = R!Status(R!MkcolAnswer(r, found, yes[3]))
  BY DEF Answer
<1>9. Expected(r, tree) = R!Status(R!HandlerCheck(objs, tree, r))
  BY DEF Expected
<1>10. R!HandlerCheck(objs, tree, r) = R!MkcolAnswer(r, R!Exists(objs, tree, r.path), parent)
  BY DEF R!HandlerCheck
<1>11. CASE found
  <2>1. Holds(found)
    BY <1>11 DEF Holds
  <2> HIDE DEF found, parent, objs, yes
  <2>2. R!MkcolAnswer(r, found, yes[3]) = 405 /\ R!MkcolAnswer(r, found, parent) = 405
    BY <1>1, <2>1, MkcolOfExisting
  <2> QED
    BY <1>7, <1>8, <1>9, <1>10, <2>2
<1>12. CASE ~found
  <2>1. yes[3] = parent
    BY <1>6, <1>12, Truths
  <2> QED
    BY <1>7, <1>8, <1>9, <1>10, <2>1
<1> QED
  BY <1>11, <1>12

LEMMA CopyMoveOfNothing ==
  ASSUME NEW r, ~Early(r), r.op \in {"copy", "move"},
         NEW exists, ~exists, NEW parentIsDir, NEW destExists
  PROVE  R!CopyMoveAnswer(r, exists, parentIsDir, destExists) = 404
<1> DEFINE dav    == R!Check(R!IsDavPath(r.path) \/ R!IsDavPath(r.dest), 404)
           source == R!Check(~exists, 404)
           parent == R!Check(~parentIsDir, 409)
           dest   == R!Check(destExists /\ ~r.overwrite, 412)
           checks == <<dav, source, parent, dest>>
<1>1. ~dav.when /\ source.when /\ source.status = 404
  BY DEF R!Check, Early
<1>2. R!CopyMoveAnswer(r, exists, parentIsDir, destExists) = R!FirstOf(checks)
  BY DEF R!CopyMoveAnswer
<1> HIDE DEF dav, source, parent, dest
<1>3. DOMAIN checks = 1..4 /\ ~checks[1].when /\ checks[2].when /\ checks[2].status = 404
  BY <1>1
<1> HIDE DEF checks
<1>4. DOMAIN checks \subseteq Nat /\ 2 \in DOMAIN checks
  BY <1>3
<1>5. \A j \in DOMAIN checks : j < 2 => ~Fails(checks, j)
  <2>1. \A j \in 1..4 : j < 2 => j = 1
    OBVIOUS
  <2> QED
    BY <1>3, <2>1 DEF Fails
<1>6. Fails(checks, 2) /\ checks[2].status = 404
  BY <1>3 DEF Fails
<1> QED
  BY <1>2, <1>4, <1>5, <1>6, FirstDecides

LEMMA CopyMoveToNowhere ==
  ASSUME NEW r, ~Early(r), r.op \in {"copy", "move"},
         NEW exists, Holds(exists), NEW parentIsDir, Lacks(parentIsDir), NEW destExists
  PROVE  R!CopyMoveAnswer(r, exists, parentIsDir, destExists) = 409
<1> DEFINE dav    == R!Check(R!IsDavPath(r.path) \/ R!IsDavPath(r.dest), 404)
           source == R!Check(~exists, 404)
           parent == R!Check(~parentIsDir, 409)
           dest   == R!Check(destExists /\ ~r.overwrite, 412)
           checks == <<dav, source, parent, dest>>
<1>1. ~dav.when /\ ~source.when /\ parent.when /\ parent.status = 409
  BY DEF R!Check, Early, Holds, Lacks
<1>2. R!CopyMoveAnswer(r, exists, parentIsDir, destExists) = R!FirstOf(checks)
  BY DEF R!CopyMoveAnswer
<1> HIDE DEF dav, source, parent, dest
<1>3. /\ DOMAIN checks = 1..4 /\ ~checks[1].when /\ ~checks[2].when
      /\ checks[3].when /\ checks[3].status = 409
  BY <1>1
<1> HIDE DEF checks
<1>4. DOMAIN checks \subseteq Nat /\ 3 \in DOMAIN checks
  BY <1>3
<1>5. \A j \in DOMAIN checks : j < 3 => ~Fails(checks, j)
  <2>1. \A j \in 1..4 : j < 3 => j = 1 \/ j = 2
    OBVIOUS
  <2> QED
    BY <1>3, <2>1 DEF Fails
<1>6. Fails(checks, 3) /\ checks[3].status = 409
  BY <1>3 DEF Fails
<1> QED
  BY <1>2, <1>4, <1>5, <1>6, FirstDecides

LEMMA CopyMoveIsAnswered ==
  ASSUME NEW tree \in Tree, NEW r \in Request, NEW facts, Seen(r, facts, tree),
         r.op \in {"copy", "move"}
  PROVE  Answer(r, facts) = Expected(r, tree)
<1> DEFINE yes    == Yes(facts)
           objs   == Closure(tree)
           found  == yes[1] \/ yes[2]
           parent == R!IsDirectory(objs, tree, R!Parent(r.dest))
           there  == R!Exists(objs, tree, r.dest)
           either == yes[4] \/ yes[5]
<1>1. ~Early(r) /\ Most(r) = 5
  BY DEF Seen, Most
<1>2. /\ Is(Lookups(r, yes)[1], "dir", r.path, TRUE)
      /\ Is(Lookups(r, yes)[2], "file", r.path, ~yes[1])
      /\ Is(Lookups(r, yes)[3], "dir", R!Parent(r.dest), yes[1] \/ yes[2])
      /\ Is(Lookups(r, yes)[4], "dir", r.dest, yes[3])
      /\ Is(Lookups(r, yes)[5], "file", r.dest, yes[3] /\ ~yes[4])
  BY <1>1, CopyMoveLookups
<1>3. /\ Fits(r, facts, tree, 1) /\ Fits(r, facts, tree, 2) /\ Fits(r, facts, tree, 3)
      /\ Fits(r, facts, tree, 4) /\ Fits(r, facts, tree, 5)
  BY <1>1, YesIs
<1>4. yes[1] = R!IsDirectory(objs, tree, r.path)
  BY <1>2, <1>3, Truths DEF Is, Fits
<1>5. yes[2] = (~yes[1] /\ R!IsFile(objs, tree, r.path))
  BY <1>2, <1>3, Truths DEF Is, Fits
<1>6. yes[3] = (found /\ parent)
  BY <1>2, <1>3, Truths DEF Is, Fits
<1>7. yes[4] = (yes[3] /\ R!IsDirectory(objs, tree, r.dest))
  BY <1>2, <1>3, Truths DEF Is, Fits
<1>8. yes[5] = (yes[3] /\ ~yes[4] /\ R!IsFile(objs, tree, r.dest))
  BY <1>2, <1>3, Truths DEF Is, Fits
<1>9. found = R!Exists(objs, tree, r.path)
  BY <1>4, <1>5 DEF R!Exists
<1>10. Answer(r, facts) = R!Status(R!CopyMoveAnswer(r, found, yes[3], either))
  BY DEF Answer
<1>11. Expected(r, tree) = R!Status(R!HandlerCheck(objs, tree, r))
  BY DEF Expected
<1>12. R!HandlerCheck(objs, tree, r) = R!CopyMoveAnswer(r, R!Exists(objs, tree, r.path), parent, there)
  BY DEF R!HandlerCheck
<1>13. CASE found /\ parent
  <2>1. yes[3] = parent /\ either = there
    BY <1>6, <1>7, <1>8, <1>13, Truths DEF R!Exists
  <2> QED
    BY <1>9, <1>10, <1>11, <1>12, <2>1
<1>14. CASE ~found
  <2> HIDE DEF found, parent, there, either, objs, yes
  <2>1. /\ R!CopyMoveAnswer(r, found, yes[3], either) = 404
        /\ R!CopyMoveAnswer(r, found, parent, there) = 404
    BY <1>1, <1>14, CopyMoveOfNothing
  <2> QED
    BY <1>9, <1>10, <1>11, <1>12, <2>1
<1>15. CASE found /\ ~parent
  <2>1. Holds(found) /\ Lacks(yes[3]) /\ Lacks(parent)
    BY <1>6, <1>15 DEF Holds, Lacks
  <2> HIDE DEF found, parent, there, either, objs, yes
  <2>2. R!CopyMoveAnswer(r, found, yes[3], either) = 409
    BY <1>1, <2>1, CopyMoveToNowhere
  <2>3. R!CopyMoveAnswer(r, found, parent, there) = 409
    BY <1>1, <2>1, CopyMoveToNowhere
  <2> QED
    BY <1>9, <1>10, <1>11, <1>12, <2>2, <2>3
<1> QED
  BY <1>13, <1>14, <1>15

LEMMA GetIsAnswered ==
  ASSUME NEW tree \in Tree, NEW r \in Request, NEW facts, Seen(r, facts, tree),
         r.op \in {"get", "head"}
  PROVE  Answer(r, facts) = Expected(r, tree)
<1> DEFINE yes  == Yes(facts)
           objs == Closure(tree)
<1>1. ~Early(r) /\ Most(r) = 2 /\ ~R!IsDavPath(r.path)
  BY DEF Seen, Most, Early
<1>2. /\ Is(Lookups(r, yes)[1], "dir", r.path, TRUE)
      /\ Is(Lookups(r, yes)[2], "read", r.path, ~yes[1])
  BY <1>1, GetLookups
<1>3. Fits(r, facts, tree, 1) /\ Fits(r, facts, tree, 2)
  BY <1>1, YesIs
<1>4. yes[1] = R!IsDirectory(objs, tree, r.path)
  BY <1>2, <1>3, Truths DEF Is, Fits
<1>5. /\ 2 \in DOMAIN facts <=> ~yes[1]
      /\ ~yes[1] => facts[2].found = R!FileContent(objs, tree, r.path)
  BY <1>2, <1>3 DEF Is, Fits, Find
<1>6. Answer(r, facts) = IF 2 \in DOMAIN facts THEN Conditional(r, facts[2].found) ELSE R!Status(404)
  BY DEF Answer
<1>7. Expected(r, tree) = Conditional(r, R!Get(objs, tree, r.path))
  BY DEF Expected
<1>8. R!Get(objs, tree, r.path) = IF yes[1] THEN R!Status(404) ELSE R!FileContent(objs, tree, r.path)
  BY <1>1, <1>4 DEF R!Get
<1>9. Conditional(r, R!Status(404)) = R!Status(404)
  BY DEF Conditional, R!Status
<1> QED
  BY <1>5, <1>6, <1>7, <1>8, <1>9

LEMMA PropfindIsAnswered ==
  ASSUME NEW tree \in Tree, NEW r \in Request, NEW facts, Seen(r, facts, tree),
         r.op = "propfind"
  PROVE  Answer(r, facts) = Expected(r, tree)
<1> DEFINE yes   == Yes(facts)
           objs  == Closure(tree)
           found == yes[1] \/ yes[2]
           isDir == R!IsDirectory(objs, tree, r.path)
           size  == IF yes[4] THEN facts[4].found ELSE R!Zero
           rows  == IF 5 \in DOMAIN facts THEN facts[5].found ELSE {}
           whole == IF isDir THEN R!Zero ELSE R!Lookup(objs, tree, r.path).oid
           list  == IF isDir /\ r.depth # "0" THEN R!ListDir(objs, tree, r.path) ELSE {}
<1>1. ~Early(r) /\ Most(r) = 5 /\ ~R!IsDavPath(r.path)
  BY DEF Seen, Most, Early
<1>2. /\ Is(Lookups(r, yes)[1], "dir", r.path, TRUE)
      /\ Is(Lookups(r, yes)[2], "file", r.path, ~yes[1])
      /\ Is(Lookups(r, yes)[3], "dir", r.path, yes[1] \/ yes[2])
      /\ Is(Lookups(r, yes)[4], "file", r.path, (yes[1] \/ yes[2]) /\ ~yes[3])
      /\ Is(Lookups(r, yes)[5], "list", r.path, yes[3] /\ Depth(r) >= 1)
  BY <1>1, PropfindLookups
<1>3. /\ Fits(r, facts, tree, 1) /\ Fits(r, facts, tree, 2) /\ Fits(r, facts, tree, 3)
      /\ Fits(r, facts, tree, 4) /\ Fits(r, facts, tree, 5)
  BY <1>1, YesIs
<1>4. yes[1] = isDir
  BY <1>2, <1>3, Truths DEF Is, Fits
<1>5. yes[2] = (~yes[1] /\ R!IsFile(objs, tree, r.path))
  BY <1>2, <1>3, Truths DEF Is, Fits
<1>6. yes[3] = (found /\ isDir)
  BY <1>2, <1>3, Truths DEF Is, Fits
<1>7. /\ yes[4] = (found /\ ~yes[3] /\ R!IsFile(objs, tree, r.path))
      /\ yes[4] => facts[4].found = Find("file", objs, tree, r.path)
  BY <1>2, <1>3, Truths DEF Is, Fits
<1>8. /\ 5 \in DOMAIN facts <=> yes[3] /\ Depth(r) >= 1
      /\ 5 \in DOMAIN facts => facts[5].found = R!ListDir(objs, tree, r.path)
  BY <1>2, <1>3 DEF Is, Fits, Find
<1>9. found = R!Exists(objs, tree, r.path)
  BY <1>4, <1>5 DEF R!Exists
<1>10. Answer(r, facts) = IF found THEN Multistatus(R!Row("", yes[3], size), rows) ELSE R!Status(404)
  BY DEF Answer
<1>11. Expected(r, tree) = IF R!IsDavPath(r.path) \/ ~R!Exists(objs, tree, r.path) THEN R!Status(404)
                           ELSE Multistatus(R!Row("", isDir, whole), list)
  BY DEF Expected
<1>12. ASSUME found
       PROVE  yes[3] = isDir /\ size = whole /\ rows = list
  <2>1. yes[3] = isDir
    BY <1>6, <1>12, Truths
  <2>2. size = whole
    <3>1. CASE isDir
      BY <1>7, <2>1, <3>1
    <3>2. CASE ~isDir
      <4>1. R!IsFile(objs, tree, r.path) /\ yes[4]
        BY <1>4, <1>5, <1>7, <1>12, <2>1, <3>2
      <4> QED
        BY <1>7, <3>2, <4>1 DEF Find
    <3> QED
      BY <3>1, <3>2
  <2>3. Depth(r) >= 1 <=> r.depth # "0"
    BY DEF Depth
  <2> QED
    BY <1>8, <2>1, <2>2, <2>3
<1> HIDE DEF yes, objs, size, whole, rows, list, isDir, found
<1>13. CASE found
  BY <1>1, <1>9, <1>10, <1>11, <1>12, <1>13
<1>14. CASE ~found
  BY <1>9, <1>10, <1>11, <1>14
<1> QED
  BY <1>13, <1>14

\* The facts of a request that is done are those its script asks for.
LEMMA DoneHasSeen ==
  ASSUME AllInv, web.pc = "done", web.calm, DOMAIN web.facts # {},
         NEW c \in Commit, \A i \in DOMAIN web.facts : web.facts[i].head = c
  PROVE  commits[c].tree \in Tree /\ Seen(web.req, web.facts, commits[c].tree)
<1> DEFINE D == DOMAIN web.facts
           N == Most(web.req)
           tree == commits[c].tree
<1>1. ScriptInv /\ Due = {}
  BY DEF AllInv, HandlerInv, ScriptInv
<1>2. DOMAIN Script = 1..N /\ N \in 0..5 /\ D \subseteq 1..N
  BY <1>1, LookupsAre DEF ScriptInv, Script
<1>3. ~Early(web.req)
  BY <1>2 DEF Most
<1>4. tree \in Tree
  <2>1. Made(c)
    BY DEF AllInv, HandlerInv, HeadsKnown
  <2> QED
    BY <2>1 DEF Made, AllInv, IInv, TypeOK, CommitType
<1>5. ASSUME NEW i \in 1..N
      PROVE  /\ i \in D <=> Script[i].when
             /\ i \in D => web.facts[i].found = Find(Script[i].what, Closure(tree), tree, Script[i].path)
  <2>1. i \in D <=> Script[i].when /\ \E j \in D : i <= j
    BY <1>1, <1>2 DEF ScriptInv
  <2>2. Script[i].when => \E j \in D : i <= j
    <3>1. Script[i].when => \E j \in D : ~(j < i)
      BY <1>1, <1>2 DEF Due, Script
    <3> QED
      BY <1>2, <3>1
  <2>3. ASSUME i \in D
        PROVE  web.facts[i].found = Find(Script[i].what, Closure(tree), tree, Script[i].path)
    <3>1. web.facts[i].found = Whole(web.facts[i].ask, c)
      BY <2>3 DEF AllInv, PushesDoNotDisturb
    <3>2. web.facts[i].ask.what = Script[i].what /\ web.facts[i].ask.path = Script[i].path
      BY <1>1, <2>3 DEF ScriptInv
    <3> QED
      BY <3>1, <3>2 DEF Whole
  <2> QED
    BY <2>1, <2>2, <2>3
<1> QED
  BY <1>2, <1>3, <1>4, <1>5 DEF Seen, Script

LEMMA AnswersAreThoseOfOneHead == AllInv => OneHeadAnswers
<1> SUFFICES ASSUME AllInv, web.pc = "done", web.calm, DOMAIN web.facts # {},
                    NEW c \in Commit, \A i \in DOMAIN web.facts : web.facts[i].head = c
             PROVE  web.answer = Expected(web.req, commits[c].tree)
  BY DEF OneHeadAnswers
<1> DEFINE r    == web.req
           tree == commits[c].tree
<1>1. r \in Request /\ web.answer = Answer(r, web.facts)
  BY DEF AllInv, HandlerInv, ScriptInv
<1>2. tree \in Tree /\ Seen(r, web.facts, tree)
  BY DoneHasSeen
<1>3. r.op \in {"put", "delete", "mkcol", "copy", "move", "get", "head", "propfind"}
  BY <1>1, RequestAssumption
<1> HIDE DEF r, tree
<1>4. Answer(r, web.facts) = Expected(r, tree)
  BY <1>1, <1>2, <1>3, PutIsAnswered, DeleteIsAnswered, MkcolIsAnswered, CopyMoveIsAnswered,
     GetIsAnswered, PropfindIsAnswered
<1> QED
  BY <1>1, <1>4 DEF r, tree

\* A request whose lookups all read one head, while others only push, is
\* answered as from one look at that head's whole tree.
THEOREM RequestsSeeOneHead == HandlerSpec => []OneHeadAnswers
  BY InitAllInv, NextAllInv, AnswersAreThoseOfOneHead, PTL DEF HandlerSpec
================================================================================
