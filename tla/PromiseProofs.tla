----------------------------- MODULE PromiseProofs -----------------------------
(***************************************************************************)
(* GitRepo implements module Branch when its clients take turns, for any   *)
(* number of requests, commits and objects: each step of GitRepo is a step *)
(* of one request in Branch, or none.  The branch of Branch changes with   *)
(* the step in which the server executes a push command, whether davgit    *)
(* still waits for its report or not.                                      *)
(***************************************************************************)
EXTENDS GitRepoPromise, OneClientProofs

-------------------------------------------------------------------------------
(* Statuses.                                                                *)

\* A step that changes the status of one request only, as Branch allows, and
\* the branch only by its edit.
LEMMA OneMoves ==
  ASSUME NEW t \in Task, Asked(t)' = Asked(t),
         \A u \in Task : u # t => Status(u)' = Status(u) /\ Asked(u)' = Asked(u),
         \/ UNCHANGED TreeOf(ref) /\ Status(t)' = Status(t)
         \/ UNCHANGED TreeOf(ref) /\ Status(t) \in {"open", "applied"}
                                  /\ Status(t)' \in {"closed", "abandoned"}
         \/ UNCHANGED TreeOf(ref) /\ Status(t) = "applied" /\ Status(t)' = "succeeded"
         \/ UNCHANGED TreeOf(ref) /\ Status(t) = "abandoned" /\ Status(t)' = "closed"
         \/ /\ \/ Status(t) = "open" /\ Status(t)' = "applied"
               \/ Status(t) = "abandoned" /\ Status(t)' = "closed"
            /\ TreeOf(ref)' = EditTree(Closure(TreeOf(ref)), TreeOf(ref), Asked(t)).root
  PROVE  [Promise!Next]_(Promise!vars)
<1> DEFINE status == [u \in Task |-> Status(u)]
           edit   == [u \in Task |-> Asked(u)]
<1>1. edit' = edit /\ edit[t] = Asked(t)
  OBVIOUS
<1>2. status' = [status EXCEPT ![t] = Status(t)'] /\ status[t] = Status(t)
  OBVIOUS
<1>3. Status(t)' = Status(t) => status' = status
  BY <1>2
<1> HIDE DEF status, edit
<1>4. CASE UNCHANGED TreeOf(ref) /\ Status(t)' = Status(t)
  BY <1>1, <1>3, <1>4 DEF Promise!vars, status, edit
<1>5. CASE /\ UNCHANGED TreeOf(ref)
           /\ Status(t) \in {"open", "applied"} /\ Status(t)' \in {"closed", "abandoned"}
  <2>1. Promise!GiveUp(t) \/ Promise!Abandon(t)
    BY <1>1, <1>2, <1>5 DEF Promise!GiveUp, Promise!Abandon, Promise!Becomes, status, edit
  <2> QED
    BY <2>1 DEF Promise!Next
<1>6. CASE UNCHANGED TreeOf(ref) /\ Status(t) = "applied" /\ Status(t)' = "succeeded"
  <2>1. Promise!Succeed(t)
    BY <1>1, <1>2, <1>6 DEF Promise!Succeed, Promise!Becomes, status, edit
  <2> QED
    BY <2>1 DEF Promise!Next
<1>7. CASE UNCHANGED TreeOf(ref) /\ Status(t) = "abandoned" /\ Status(t)' = "closed"
  <2>1. Promise!Expire(t)
    BY <1>1, <1>2, <1>7 DEF Promise!Expire, Promise!Becomes, status, edit
  <2> QED
    BY <2>1 DEF Promise!Next
<1>8. CASE /\ \/ Status(t) = "open" /\ Status(t)' = "applied"
              \/ Status(t) = "abandoned" /\ Status(t)' = "closed"
           /\ TreeOf(ref)' = EditTree(Closure(TreeOf(ref)), TreeOf(ref), Asked(t)).root
  <2>1. Promise!TakeEffect(t)
    BY <1>1, <1>2, <1>8 DEF Promise!TakeEffect, Promise!Becomes, status, edit
  <2> QED
    BY <2>1 DEF Promise!Next
<1> QED
  BY <1>4, <1>5, <1>6, <1>7, <1>8

\* A step of one request that leaves the branch alone, and at most adds a
\* command of its own to those under way, is no step of another.
LEMMA OthersStay ==
  ASSUME NEW t \in Task, UNCHANGED <<ref, commits>>,
         late \subseteq late', \A c \in late' : c \in late \/ c.of = t,
         \A u \in Task : u # t => task'[u] = task[u]
  PROVE  /\ UNCHANGED TreeOf(ref)
         /\ \A u \in Task : u # t => Status(u)' = Status(u) /\ Asked(u)' = Asked(u)
<1>1. \A c : OnBranch(c)' = OnBranch(c)
  BY DEF OnBranch
<1>2. ASSUME NEW u \in Task, u # t
      PROVE  Status(u)' = Status(u) /\ Asked(u)' = Asked(u)
  <2>1. Pending(u)' = Pending(u)
    BY <1>1, <1>2 DEF Pending
  <2>2. Ended(u)' = Ended(u)
    BY <1>2, <2>1 DEF Ended
  <2> QED
    BY <1>1, <1>2, <2>2 DEF Status, Asked
<1> QED
  BY <1>2 DEF TreeOf

\* A step of one request, and what of it Branch sees.
LEMMA OneSteps ==
  ASSUME IInv, NEW t \in Task, NEW s, Step(t, s), UNCHANGED <<ref, commits>>,
         late' = late \/ late' = late \cup SentBy({t})
  PROVE  /\ task'[t] = s /\ UNCHANGED TreeOf(ref)
         /\ \A u \in Task : u # t => Status(u)' = Status(u) /\ Asked(u)' = Asked(u)
<1>1. task'[t] = s /\ \A u \in Task : u # t => task'[u] = task[u]
  BY DEF Step, IInv, TypeOK
<1>2. late \subseteq late' /\ \A c \in late' : c \in late \/ c.of = t
  BY DEF SentBy, Sent
<1> QED
  BY <1>1, <1>2, OthersStay

\* The request goes on, before its push or with the same commit.
LEMMA GoesOn ==
  ASSUME IInv, NEW t \in Task, NEW s, Step(t, s), UNCHANGED <<ref, commits>>,
         late' = late \/ late' = late \cup SentBy({t}),
         task[t].pc \notin Finished, s.pc \notin Finished, s.req = task[t].req,
         \/ task[t].pc \in Pushing /\ s.pc \in Pushing /\ s.new = task[t].new
         \/ s.pc \notin Pushing /\ (task[t].pc \in Pushing => ~OnBranch(task[t].new))
  PROVE  [Promise!Next]_(Promise!vars)
<1>1. /\ task'[t] = s /\ UNCHANGED TreeOf(ref)
      /\ \A u \in Task : u # t => Status(u)' = Status(u) /\ Asked(u)' = Asked(u)
  BY OneSteps
<1>2. OnBranch(task[t].new)' = (s.new # Nothing /\ s.new \in Ancestors(commits, ref))
  BY <1>1 DEF OnBranch
<1>3. Status(t)' = Status(t) /\ Asked(t)' = Asked(t)
  BY <1>1, <1>2 DEF Status, Asked, OnBranch, Finished
<1> QED
  BY <1>1, <1>3, OneMoves

\* It ends without success.
LEMMA Ends ==
  ASSUME IInv, NEW t \in Task, NEW s, Step(t, s), UNCHANGED <<ref, commits>>,
         late' = late \/ late' = late \cup SentBy({t}),
         task[t].pc \notin Finished, s.pc = "done", s.req = task[t].req, s.answer # "ok"
  PROVE  [Promise!Next]_(Promise!vars)
<1>1. /\ task'[t] = s /\ UNCHANGED TreeOf(ref)
      /\ \A u \in Task : u # t => Status(u)' = Status(u) /\ Asked(u)' = Asked(u)
  BY OneSteps
<1>2. Asked(t)' = Asked(t)
  BY <1>1 DEF Asked
<1>3. CASE task[t].req \notin Edit
  BY <1>1, <1>2, <1>3, OneMoves DEF Status
<1>4. CASE task[t].req \in Edit
  <2>1. Status(t) \in {"open", "applied"}
    BY <1>4 DEF Status, Finished
  <2>2. Status(t)' \in {"closed", "abandoned"}
    BY <1>1, <1>4 DEF Status, Ended, Pushing
  <2> QED
    BY <1>1, <1>2, <2>1, <2>2, OneMoves
<1> QED
  BY <1>3, <1>4

LEMMA FinishEnds ==
  ASSUME IInv, NEW t \in Task, NEW a, a # "ok", Step(t, Finish(t, a)), UNCHANGED <<ref, commits>>,
         late' = late \/ late' = late \cup SentBy({t}), task[t].pc \notin Finished
  PROVE  [Promise!Next]_(Promise!vars)
<1>1. /\ Finish(t, a).pc = "done" /\ Finish(t, a).req = task[t].req /\ Finish(t, a).answer = a
  BY DEF Finish, NotStarted
<1> QED
  BY <1>1, Ends

\* The next round of either retry loop of a session.
LEMMA TriesAgain ==
  ASSUME IInv, NEW t \in Task, NEW pc, Step(t, TryAgain(t, pc)), UNCHANGED <<ref, commits>>,
         late' = late \/ late' = late \cup SentBy({t}),
         \/ task[t].pc = "upload" /\ pc = "upload"
         \/ task[t].pc \in Pushing /\ pc = "push"
  PROVE  [Promise!Next]_(Promise!vars)
<1>1. task[t] \in TaskType /\ task[t].pc \notin Finished
  BY Now DEF Finished, Pushing
<1>2. CASE task[t].tries < MaxTries
  <2> DEFINE s == [task[t] EXCEPT !.pc = pc, !.tries = @ + 1, !.adv = Nothing, !.report = {}]
  <2>1. Step(t, s)
    BY <1>2 DEF TryAgain
  <2>2. s.pc = pc /\ s.req = task[t].req /\ s.new = task[t].new
    BY <1>1 DEF TaskType
  <2> HIDE DEF s
  <2> QED
    BY <1>1, <2>1, <2>2, GoesOn DEF Finished, Pushing
<1>3. CASE ~(task[t].tries < MaxTries)
  <2>1. Step(t, Finish(t, "error"))
    BY <1>3 DEF TryAgain
  <2> QED
    BY <1>1, <2>1, FinishEnds
<1> QED
  BY <1>2, <1>3

-------------------------------------------------------------------------------
(* The steps of a request that leave the branch alone.                      *)

LEMMA SubmitOpens ==
  ASSUME IInv, TurnInv, NEW t \in Task, Submit(t)
  PROVE  [Promise!Next]_(Promise!vars)
<1>1. PICK r \in Edit \cup Read :
        Step(t, [NotStarted EXCEPT !.pc = "check", !.req = r, !.base = head])
  BY DEF Submit
<1> DEFINE s == [NotStarted EXCEPT !.pc = "check", !.req = r, !.base = head]
<1>2. task[t].req = Nothing
  BY DEF Submit, TurnInv, FetchInv, NotStarted
<1>3. s.pc = "check" /\ s.req = r
  BY DEF NotStarted
<1>4. /\ task'[t] = s /\ UNCHANGED TreeOf(ref)
      /\ \A u \in Task : u # t => Status(u)' = Status(u) /\ Asked(u)' = Asked(u)
  BY <1>1, OneSteps DEF Submit, remote
<1> HIDE DEF s
<1>5. Status(t) = "new" /\ Asked(t) = Nothing
  BY <1>2, SetAssumption DEF Status, Asked
<1>6. CASE r \in Read
  <2>1. Status(t)' = "new" /\ Asked(t)' = Nothing
    BY <1>3, <1>4, <1>6, SetAssumption DEF Status, Asked
  <2> QED
    BY <1>4, <1>5, <2>1, OneMoves
<1>7. CASE r \in Edit
  <2> DEFINE status == [u \in Task |-> Status(u)]
             edit   == [u \in Task |-> Asked(u)]
  <2>1. Status(t)' = "open" /\ Asked(t)' = r
    BY <1>3, <1>4, <1>7 DEF Status, Asked, Pushing
  <2>2. status' = [status EXCEPT ![t] = "open"] /\ edit' = [edit EXCEPT ![t] = r]
    BY <1>4, <2>1
  <2>3. status[t] = "new"
    BY <1>5
  <2> HIDE DEF status, edit
  <2>4. Promise!Open(t)
    BY <1>4, <1>7, <2>2, <2>3 DEF Promise!Open, Promise!Becomes, status, edit
  <2> QED
    BY <2>4 DEF Promise!Next
<1> QED
  BY <1>6, <1>7

LEMMA CheckOpens ==
  ASSUME IInv, NEW t \in Task, Check(t)
  PROVE  [Promise!Next]_(Promise!vars)
<1> DEFINE r     == task[t].req
           base  == task[t].base
           held  == objects \cap Obj
           tree  == TreeAt(base)
           check == Precheck(held, tree, r)
<1>1. /\ task[t] \in TaskType /\ task[t].pc = "check" /\ TaskInv(task[t])
      /\ UNCHANGED <<ref, commits>> /\ late' = late
  BY Now DEF Check, remote
<1>2. task[t].pc \notin Finished \cup Pushing
  BY <1>1 DEF Finished, Pushing
<1>3. CASE Step(t, [Finish(t, "read") EXCEPT !.base = base, !.body = ReadFile(held, tree, r)])
  <2> DEFINE s == [Finish(t, "read") EXCEPT !.base = base, !.body = ReadFile(held, tree, r)]
  <2>1. s.pc = "done" /\ s.req = r /\ s.answer = "read"
    BY DEF Finish, NotStarted
  <2>2. Step(t, s)
    BY <1>3
  <2> HIDE DEF s
  <2> QED
    BY <1>1, <1>2, <2>1, <2>2, Ends
<1>4. CASE Step(t, [task[t] EXCEPT !.pc = "fetch", !.attempt = 1, !.base = Nothing])
  <2> DEFINE s == [task[t] EXCEPT !.pc = "fetch", !.attempt = 1, !.base = Nothing]
  <2>1. s.pc \notin Finished \cup Pushing /\ s.req = r
    BY <1>1 DEF TaskType, Finished, Pushing
  <2> QED
    BY <1>1, <1>2, <1>4, <2>1, GoesOn
<1>5. CASE r \in Edit /\ check # "go" /\ Step(t, Finish(t, check))
  <2>1. base \in Commit \cap store
    BY <1>1 DEF TaskInv, BaseKnown, TaskType
  <2>2. check # "ok"
    BY <1>5, <2>1, KnownCommit, PrecheckAssumption DEF TreeAt, TreeOf
  <2> QED
    BY <1>1, <1>2, <1>5, <2>2, FinishEnds
<1> QED
  BY <1>3, <1>4, <1>5 DEF Check

\* Fetch and the choice of the parent.
LEMMA FetchOpens ==
  ASSUME IInv, NEW t \in Task,
         \/ StartFetch(t) \/ Upload(t) \/ Merge(t) \/ SetHead(t) \/ SetObjects(t) \/ ClaimHead(t)
  PROVE  [Promise!Next]_(Promise!vars)
<1>1. /\ task[t] \in TaskType /\ task[t].pc \notin Finished \cup Pushing
      /\ UNCHANGED <<ref, commits>> /\ late' = late
  BY Now DEF StartFetch, Upload, Merge, SetHead, SetObjects, ClaimHead, remote, Finished, Pushing
<1>2. ASSUME NEW s, Step(t, s), s.pc \notin Finished \cup Pushing, s.req = task[t].req
      PROVE  [Promise!Next]_(Promise!vars)
  BY <1>1, <1>2, GoesOn
<1>3. ASSUME Step(t, Finish(t, "error"))
      PROVE  [Promise!Next]_(Promise!vars)
  BY <1>1, <1>3, FinishEnds
<1>4. CASE StartFetch(t)
  <2> DEFINE s == [task[t] EXCEPT !.pc = "upload", !.base = head, !.tries = 1]
  <2>1. s.pc \notin Finished \cup Pushing /\ s.req = task[t].req
    BY <1>1 DEF TaskType, Finished, Pushing
  <2> QED
    BY <1>2, <1>4, <2>1 DEF StartFetch
<1>5. CASE Upload(t)
  <2> DEFINE s == [task[t] EXCEPT !.pc = "merge", !.new = ref,
                                  !.buf = NewObjects(task[t].base, ref)]
  <2>1. /\ s.pc \notin Finished \cup Pushing /\ s.req = task[t].req
        /\ NothingNew(t).pc \notin Finished \cup Pushing /\ NothingNew(t).req = task[t].req
    BY <1>1 DEF TaskType, NothingNew, Finished, Pushing
  <2>2. Step(t, s) \/ Step(t, NothingNew(t)) \/ Step(t, Finish(t, "error"))
    BY <1>5 DEF Upload
  <2> HIDE DEF s
  <2> QED
    BY <1>2, <1>3, <2>1, <2>2
<1>6. CASE Merge(t)
  <2> DEFINE s(buf) == [task[t] EXCEPT !.pc = "setHead", !.buf = buf]
  <2>1. (\E buf : Step(t, s(buf))) \/ Step(t, Finish(t, "error"))
    BY <1>6 DEF Merge
  <2>2. \A buf : s(buf).pc \notin Finished \cup Pushing /\ s(buf).req = task[t].req
    BY <1>1 DEF TaskType, Finished, Pushing
  <2> HIDE DEF s
  <2> QED
    BY <1>2, <1>3, <2>1, <2>2
<1>7. CASE SetHead(t)
  <2> DEFINE s == [task[t] EXCEPT !.pc = "setObjects"]
  <2>1. s.pc \notin Finished \cup Pushing /\ s.req = task[t].req
    BY <1>1 DEF TaskType, Finished, Pushing
  <2> QED
    BY <1>2, <1>7, <2>1 DEF SetHead
<1>8. CASE SetObjects(t)
  <2> DEFINE s == [task[t] EXCEPT !.pc = "claim", !.base = Nothing, !.new = Nothing, !.buf = {}]
  <2>1. s.pc \notin Finished \cup Pushing /\ s.req = task[t].req
    BY <1>1 DEF TaskType, Finished, Pushing
  <2> QED
    BY <1>2, <1>8, <2>1 DEF SetObjects
<1>9. CASE ClaimHead(t)
  <2> DEFINE s == [task[t] EXCEPT !.pc = "build", !.base = head]
  <2>1. s.pc \notin Finished \cup Pushing /\ s.req = task[t].req
    BY <1>1 DEF TaskType, Finished, Pushing
  <2> QED
    BY <1>2, <1>9, <2>1 DEF ClaimHead
<1> QED
  BY <1>4, <1>5, <1>6, <1>7, <1>8, <1>9

\* A commit that has just been built is not on the branch, not even when it has
\* the id of an equal one built before.
LEMMA BuildOpens ==
  ASSUME IInv, TurnInv, NEW t \in Task, Build(t)
  PROVE  [Promise!Next]_(Promise!vars)
<1> DEFINE base    == task[t].base
           edit    == task[t].req
           edited  == EditTree(objects \cap Obj, commits[base].tree, edit)
           content == CommitOf(base, edited.root, edit)
<1>1. /\ task[t] \in TaskType /\ task[t].pc = "build" /\ FetchInv(task[t])
      /\ ref' = ref /\ late' = late /\ head \in Commit \cap store
  BY Now DEF Build, TurnInv, remote
<1>2. /\ task[t].pc \notin Finished \cup Pushing
      /\ base = ref /\ base \in Commit \cap store /\ edit \in Edit
  BY <1>1, Writing DEF Finished, Pushing, FetchInv
<1>3. late = {} /\ \A u \in Task : u # t => task[u].pc \in Finished
  BY <1>2, Alone, NoneLate
<1>4. CASE Step(t, Finish(t, "error")) /\ UNCHANGED commits
  BY <1>1, <1>2, <1>4, FinishEnds
<1>5. ASSUME NEW c \in IdsFor(content), edited.ok,
             commits' = [commits EXCEPT ![c] = content],
             Step(t, [task[t] EXCEPT !.pc = "push", !.new = c, !.tries = 1,
                                     !.buf = {c} \cup edited.pack])
      PROVE  [Promise!Next]_(Promise!vars)
  <2> DEFINE s == [task[t] EXCEPT !.pc = "push", !.new = c, !.tries = 1,
                                  !.buf = {c} \cup edited.pack]
  <2>1. s.pc = "push" /\ s.req = edit /\ s.new = c
    BY <1>1 DEF TaskType
  <2>2. /\ task'[t] = s /\ \A u \in Task : u # t => task'[u] = task[u]
    BY <1>5 DEF Step, IInv, TypeOK
  <2>3. Made(base) /\ TreeOf(base) \in Tree
    BY <1>2, KnownCommit
  <2>4. edited.root \in Tree
    BY <1>2, <1>5, <2>3, EditAssumption DEF TreeOf
  <2> HIDE DEF s, edited, edit, base
  <2>5. /\ commits'[c].parent = base /\ commits'[base] = commits[base]
        /\ c \in Commit /\ History(commits') /\ commits'[c].edit = edit
        /\ commits' \in [Commit -> CommitType \cup {Nothing}]
        /\ commits' = [commits EXCEPT ![c] = content]
    <3>1. /\ c \in IdsFor(CommitOf(base, edited.root, edit))
          /\ commits' = [commits EXCEPT ![c] = CommitOf(base, edited.root, edit)]
      BY <1>5
    <3> QED
      BY <1>2, <2>3, <2>4, <3>1, CommitAdded
  <2>6. commits'[c] # Nothing
    BY <1>2, <2>4, <2>5, SetAssumption DEF IInv, TypeOK
  <2>7. c \notin Ancestors(commits', base)
    <3>1. commits'[c].parent # Nothing
      BY <1>2, <2>5, SetAssumption
    <3> QED
      BY <2>5, <2>6, <3>1, NotAboveParent
  <2>8. UNCHANGED TreeOf(ref)
    BY <1>1, <1>2, <2>5 DEF TreeOf
  <2>9. ASSUME NEW u \in Task, u # t
        PROVE  Status(u)' = Status(u) /\ Asked(u)' = Asked(u)
    <3>1. task'[u] = task[u] /\ task[u].pc \in {"idle", "done"}
      BY <1>3, <2>2, <2>9 DEF Finished
    <3>2. ~Pending(u) /\ ~Pending(u)'
      BY <1>1, <1>3 DEF Pending
    <3> QED
      BY <3>1, <3>2 DEF Status, Asked, Ended, Pushing
  <2>10. Status(t) = "open" /\ Asked(t)' = Asked(t)
    BY <1>1, <1>2, <2>1, <2>2 DEF Status, Asked, edit
  <2>11. Status(t)' = "open"
    BY <1>1, <1>2, <2>1, <2>2, <2>7 DEF Status, OnBranch, Pushing, edit
  <2> QED
    BY <2>8, <2>9, <2>10, <2>11, OneMoves
<1> QED
  BY <1>4, <1>5 DEF Build

\* A push that goes on with the same commit, or is given up.
LEMMA PushGoesOn ==
  ASSUME IInv, NEW t \in Task,
         Advertise(t) \/ LoseReport(t) \/ SessionFailed(t) \/ TimedOut(t) \/ Cancel(t)
  PROVE  [Promise!Next]_(Promise!vars)
<1>1. /\ task[t] \in TaskType /\ task[t].pc \notin Finished /\ UNCHANGED <<ref, commits>>
      /\ late' = late \/ late' = late \cup SentBy({t})
  BY Now DEF Advertise, LoseReport, SessionFailed, TimedOut, Cancel, remote, Finished
<1>2. CASE Advertise(t)
  <2> DEFINE s == [task[t] EXCEPT !.pc = "command", !.adv = ref]
  <2>1. s.pc = "command" /\ s.req = task[t].req /\ s.new = task[t].new
    BY <1>1 DEF TaskType
  <2>2. Step(t, s) /\ task[t].pc \in Pushing
    BY <1>2 DEF Advertise, Pushing
  <2> HIDE DEF s
  <2> QED
    BY <1>1, <2>1, <2>2, GoesOn DEF Finished, Pushing
<1>3. CASE LoseReport(t)
  <2> DEFINE s == [task[t] EXCEPT !.report = {}]
  <2>1. s.pc = "report" /\ s.req = task[t].req /\ s.new = task[t].new
    BY <1>1, <1>3 DEF TaskType, LoseReport
  <2>2. Step(t, s) /\ task[t].pc \in Pushing
    BY <1>3 DEF LoseReport, Pushing
  <2> HIDE DEF s
  <2> QED
    BY <1>1, <2>1, <2>2, GoesOn DEF Finished, Pushing
<1>4. CASE SessionFailed(t) \/ TimedOut(t)
  BY <1>1, <1>4, TriesAgain DEF SessionFailed, TimedOut, Pushing
<1>5. CASE Cancel(t)
  BY <1>1, <1>5, FinishEnds DEF Cancel
<1> QED
  BY <1>2, <1>3, <1>4, <1>5

\* Success is told of an edit that has taken effect, and the whole write is made
\* again only if its edit has not.
LEMMA ReportTells ==
  ASSUME IInv, TurnInv, NEW t \in Task, Report(t)
  PROVE  [Promise!Next]_(Promise!vars)
<1>1. /\ task[t] \in TaskType /\ task[t].pc = "report" /\ PushInv(task[t])
      /\ UNCHANGED <<ref, commits>> /\ late' = late /\ task[t].req \in Edit
  BY Now, Writing DEF Report, TurnInv, remote
<1>2. /\ task[t].pc \notin Finished /\ task[t].pc \in Pushing /\ task[t].new \in Pushed
  BY <1>1 DEF Finished, Pushing, Pushed
<1>3. CASE /\ Classify(task[t].report) = "pushed"
           /\ Step(t, [Finish(t, "ok") EXCEPT !.new = task[t].new])
  <2> DEFINE s == [Finish(t, "ok") EXCEPT !.new = task[t].new]
  <2>1. s.pc = "done" /\ s.answer = "ok" /\ s.req = task[t].req
    BY DEF Finish, NotStarted
  <2>2. /\ task'[t] = s /\ UNCHANGED TreeOf(ref)
        /\ \A u \in Task : u # t => Status(u)' = Status(u) /\ Asked(u)' = Asked(u)
    BY <1>1, <1>3, OneSteps
  <2> HIDE DEF s
  <2>3. OnBranch(task[t].new)
    <3>1. ref = task[t].new
      BY <1>1, <1>3 DEF Classify, Contains, PushInv, Pushing
    <3> QED
      BY <3>1, SelfIn, SetAssumption DEF IInv, TypeOK, OnBranch
  <2>4. Status(t) = "applied"
    BY <1>1, <2>3 DEF Status, Pushing
  <2>5. Status(t)' = "succeeded" /\ Asked(t)' = Asked(t)
    BY <1>1, <2>1, <2>2 DEF Status, Ended, Asked, Pushing
  <2> QED
    BY <2>2, <2>4, <2>5, OneMoves
<1>4. CASE Classify(task[t].report) = "rejected" /\ Step(t, AttemptAgain(t))
  <2>1. ~OnBranch(task[t].new)
    <3>1. ref = commits[task[t].new].parent
      BY <1>1, <1>4 DEF Classify, Contains, PushInv, Pushing, UnderWay
    <3> QED
      BY <1>2, <3>1, PushedChild DEF OnBranch
  <2>2. CASE task[t].attempt < MaxAttempts
    <3> DEFINE s == [NotStarted EXCEPT !.pc = "fetch", !.req = task[t].req,
                                       !.attempt = task[t].attempt + 1]
    <3>1. Step(t, s)
      BY <1>4, <2>2 DEF AttemptAgain
    <3>2. s.pc = "fetch" /\ s.req = task[t].req
      BY DEF NotStarted
    <3> HIDE DEF s
    <3> QED
      BY <1>1, <1>2, <2>1, <3>1, <3>2, GoesOn DEF Finished, Pushing
  <2>3. CASE ~(task[t].attempt < MaxAttempts)
    <3>1. Step(t, Finish(t, "error"))
      BY <1>4, <2>3 DEF AttemptAgain
    <3> QED
      BY <1>1, <1>2, <3>1, FinishEnds
  <2> QED
    BY <2>2, <2>3
<1>5. CASE Step(t, TryAgain(t, "push"))
  BY <1>1, <1>2, <1>5, TriesAgain
<1> QED
  BY <1>3, <1>4, <1>5 DEF Report

-------------------------------------------------------------------------------
(* The steps of the remote.                                                 *)

\* The branch moves to the commit of a push: the edit of its request takes
\* effect, on the tree the branch had, and for the first time.
LEMMA TakesEffect ==
  ASSUME IInv, TurnInv, NEW t \in Task, NEW x \in Pushed, commits[x].edit = task[t].req,
         ref = commits[x].parent, ref' = x, UNCHANGED commits, late' \subseteq late,
         \A c \in late : c.of = t /\ c.new = x,
         \A u \in Task : u # t => task'[u] = task[u] /\ task[u].pc \in Finished,
         task'[t].req = task[t].req,
         \/ /\ task[t].pc \in Pushing /\ task'[t].pc \in Pushing
            /\ task[t].new = x /\ task'[t].new = x
         \/ /\ task[t].pc = "done" /\ task'[t] = task[t] /\ task[t].answer # "ok" /\ late # {}
  PROVE  [Promise!Next]_(Promise!vars)
<1>1. /\ x \in Commit /\ Made(x) /\ commits[x].edit # Nothing
      /\ x \notin Ancestors(commits, commits[x].parent)
      /\ commits \in [Commit -> CommitType \cup {Nothing}] /\ x # Nothing
  BY PushedChild, SetAssumption DEF IInv, TypeOK
<1>2. task[t].req \in Edit /\ task[t].req = commits[x].edit
  BY <1>1, SetAssumption DEF CommitType, Made
<1>3. ~OnBranch(x) /\ OnBranch(x)'
  <2>1. x \in Ancestors(commits, x)
    BY <1>1, SelfIn
  <2> QED
    BY <1>1, <2>1 DEF OnBranch
<1>4. TreeOf(ref)' = EditTree(Closure(TreeOf(ref)), TreeOf(ref), Asked(t)).root
  <2>1. TreeOf(x) = EditTree(Closure(TreeOf(ref)), TreeOf(ref), commits[x].edit).root
    BY <1>1 DEF IInv, HistoryIsFaithful
  <2>2. TreeOf(ref)' = TreeOf(x)
    BY DEF TreeOf
  <2> QED
    BY <1>2, <2>1, <2>2 DEF Asked
<1>5. Asked(t)' = Asked(t)
  BY DEF Asked
<1>6. ASSUME NEW u \in Task, u # t
      PROVE  Status(u)' = Status(u) /\ Asked(u)' = Asked(u)
  <2>1. ~Pending(u) /\ ~Pending(u)'
    BY <1>6 DEF Pending
  <2> QED
    BY <1>6, <2>1 DEF Status, Asked, Ended, Finished, Pushing
<1>7. CASE task[t].pc \in Pushing
  <2>1. Status(t) = "open"
    BY <1>2, <1>3, <1>7 DEF Status, Pushing
  <2>2. Status(t)' = "applied"
    BY <1>2, <1>3, <1>7 DEF Status, Pushing
  <2> QED
    BY <1>4, <1>5, <1>6, <2>1, <2>2, OneMoves
<1>8. CASE task[t].pc = "done"
  <2>1. Pending(t) /\ ~Pending(t)'
    BY <1>3, <1>8 DEF Pending, Pushing
  <2>2. Status(t) = "abandoned" /\ Status(t)' = "closed"
    BY <1>2, <1>8, <2>1 DEF Status, Ended, Pushing
  <2> QED
    BY <1>4, <1>5, <1>6, <2>2, OneMoves
<1> QED
  BY <1>7, <1>8

LEMMA ReceivePackOpens ==
  ASSUME IInv, TurnInv, NEW t \in Task, ReceivePack(t)
  PROVE  [Promise!Next]_(Promise!vars)
<1> DEFINE x == task[t].new
<1>1. /\ task[t] \in TaskType /\ task[t].pc = "command" /\ PushInv(task[t])
      /\ UNCHANGED commits /\ late' = late
  BY Now DEF ReceivePack, TurnInv
<1>2. /\ task[t].pc \notin Finished /\ task[t].pc \in Pushing /\ x \in Pushed
  BY <1>1 DEF Finished, Pushing, Pushed
<1>3. /\ ref \in {commits[x].parent, x} /\ ref' \in {ref, x} /\ commits[x].edit = task[t].req
  BY <1>1 DEF PushInv, Pushing, UnderWay, ReceivePack, Executed, Refused
<1>4. PICK lines : Reported(t, lines)
  BY DEF ReceivePack
<1> DEFINE s == [task[t] EXCEPT !.pc = "report", !.report = lines]
<1>5. Step(t, s) /\ s.pc = "report" /\ s.req = task[t].req /\ s.new = x
  BY <1>1, <1>4 DEF Reported, TaskType
<1> HIDE DEF s
<1>6. CASE ref' = ref
  BY <1>1, <1>2, <1>5, <1>6, GoesOn DEF Finished, Pushing
<1>7. CASE ref' # ref
  <2>1. ref = commits[x].parent /\ ref' = x
    BY <1>3, <1>7
  <2>2. /\ \A u \in Task : u # t => task[u].pc \in Finished
        /\ \A c \in late : c.of = t
    BY <1>2, Alone
  <2>3. \A c \in late : c.new = x
    BY <1>2 DEF TurnInv, Pushed
  <2>4. task'[t] = s /\ \A u \in Task : u # t => task'[u] = task[u]
    BY <1>5 DEF Step, IInv, TypeOK
  <2>5. task'[t].pc \in Pushing
    BY <1>5, <2>4 DEF Pushing
  <2> QED
    BY <1>1, <1>2, <1>3, <1>5, <2>1, <2>2, <2>3, <2>4, <2>5, TakesEffect
<1> QED
  BY <1>6, <1>7

\* A command nobody waits for is executed, found to be out of date, or lost.
LEMMA LateCommandOpens ==
  ASSUME IInv, TurnInv, LateCommand
  PROVE  [Promise!Next]_(Promise!vars)
<1>1. PICK c \in late :
        /\ late' = late \ {c}
        /\ Executed(c) \/ Refused(c) \/ UNCHANGED <<ref, store>>
  BY DEF LateCommand
<1> DEFINE t == c.of
           x == c.new
<1>2. t \in Task /\ task' = task /\ UNCHANGED commits /\ x \in Pushed /\ LateInv(c)
  BY DEF LateCommand, IInv, TypeOK, CommandType, Pushed, TurnInv
<1>3. /\ ref \in {commits[x].parent, x} /\ ref' \in {ref, x} /\ commits[x].edit = task[t].req
      /\ task[t].pc = "done" \/ task[t].pc \in Pushing
      /\ task[t].answer = "ok" => ref = x
  BY <1>1, <1>2 DEF LateInv, UnderWay, Executed, Refused
<1>4. \A d \in late : d.of = t /\ d.new = x
  BY DEF TurnInv, InFlight, Pushed
<1>5. ASSUME NEW u \in Task, u # t PROVE task[u].pc \in Finished
  BY <1>5 DEF TurnInv, InFlight
<1>6. task[t].pc \in Pushing => task[t].new = x
  BY <1>2 DEF TurnInv, Pushed
<1> HIDE DEF t, x
<1>7. CASE ref' = ref
  <2>1. \A d : OnBranch(d)' = OnBranch(d)
    BY <1>2, <1>7 DEF OnBranch
  <2>2. ASSUME NEW u \in Task, u # t
        PROVE  Status(u)' = Status(u) /\ Asked(u)' = Asked(u)
    <3>1. ~Pending(u) /\ ~Pending(u)'
      BY <1>1, <1>4, <2>2 DEF Pending
    <3> QED
      BY <1>2, <2>1, <3>1 DEF Status, Asked, Ended
  <2>3. UNCHANGED TreeOf(ref) /\ Asked(t)' = Asked(t)
    BY <1>2, <1>7 DEF TreeOf, Asked
  <2>4. Pending(t)' => Pending(t)
    BY <1>1, <2>1, <1>2 DEF Pending
  <2>5. Status(t)' = Status(t) \/ (Status(t) = "abandoned" /\ Status(t)' = "closed")
    BY <1>2, <2>1, <2>4 DEF Status, Ended, Pushing
  <2> QED
    BY <1>2, <2>2, <2>3, <2>5, OneMoves
<1>8. CASE ref' # ref
  <2>1. ref = commits[x].parent /\ ref' = x /\ task[t].answer # "ok"
    BY <1>3, <1>8
  <2>2. late' \subseteq late /\ late # {}
    BY <1>1
  <2>3. \A u \in Task : u # t => task'[u] = task[u] /\ task[u].pc \in Finished
    BY <1>2, <1>5
  <2> QED
    BY <1>2, <1>3, <1>4, <1>6, <2>1, <2>2, <2>3, TakesEffect
<1> QED
  BY <1>7, <1>8

LEMMA RestartEnds ==
  ASSUME IInv, TurnInv, Restart
  PROVE  [Promise!Next]_(Promise!vars)
<1>1. /\ UNCHANGED <<ref, commits>> /\ late' = late \cup SentBy(Task)
      /\ \A u \in Task : task'[u] = IF task[u].pc \in Finished THEN task[u]
                                    ELSE Finish(u, "dropped")
  BY DEF Restart
<1>2. CASE \A u \in Task : task[u].pc \in Finished
  <2>1. late' = late
    BY <1>1, <1>2 DEF SentBy, Finished
  <2>2. UNCHANGED TreeOf(ref)
    BY <1>1 DEF TreeOf
  <2>3. ASSUME NEW u \in Task
        PROVE  Status(u)' = Status(u) /\ Asked(u)' = Asked(u)
    <3>1. Pending(u)' = Pending(u)
      BY <1>1, <2>1 DEF Pending, OnBranch
    <3> QED
      BY <1>1, <1>2, <3>1 DEF Status, Asked, Ended, OnBranch
  <2>4. UNCHANGED <<[u \in Task |-> Asked(u)], [u \in Task |-> Status(u)]>>
    BY <2>3
  <2> QED
    BY <2>2, <2>4 DEF Promise!vars
<1>3. ASSUME NEW t \in Task, task[t].pc \notin Finished
      PROVE  [Promise!Next]_(Promise!vars)
  <2>1. \A u \in Task : u # t => task[u].pc \in Finished
    BY <1>3, Alone
  <2>2. late \subseteq late' /\ \A c \in late' : c \in late \/ c.of = t
    BY <1>1, <2>1 DEF SentBy, Sent, Finished
  <2>3. \A u \in Task : u # t => task'[u] = task[u]
    BY <1>1, <2>1
  <2>4. /\ UNCHANGED TreeOf(ref)
        /\ \A u \in Task : u # t => Status(u)' = Status(u) /\ Asked(u)' = Asked(u)
    BY <1>1, <2>2, <2>3, OthersStay
  <2>5. task'[t].pc = "done" /\ task'[t].answer = "dropped" /\ task'[t].req = task[t].req
    BY <1>1, <1>3, ZenonT(60) DEF Finish, NotStarted
  <2>6. Asked(t)' = Asked(t)
    BY <2>5 DEF Asked
  <2>7. CASE task[t].req \notin Edit
    <3>1. Status(t)' = Status(t)
      BY <2>5, <2>7 DEF Status
    <3> QED
      BY <2>4, <2>6, <3>1, OneMoves
  <2>8. CASE task[t].req \in Edit
    <3>1. Status(t) \in {"open", "applied"}
      BY <1>3, <2>8 DEF Status, Finished
    <3>2. Status(t)' \in {"closed", "abandoned"}
      BY <2>5, <2>8 DEF Status, Ended, Pushing
    <3> QED
      BY <2>4, <2>6, <3>1, <3>2, OneMoves
  <2> QED
    BY <2>7, <2>8
<1> QED
  BY <1>2, <1>3

-------------------------------------------------------------------------------
(* The theorem.                                                             *)

LEMMA InitPromise == Init => Promise!Init
<1> SUFFICES ASSUME Init PROVE Promise!Init
  OBVIOUS
<1>1. TreeOf(ref) = InitialTree
  BY SetAssumption DEF Init, TreeOf, CommitOf
<1>2. ASSUME NEW t \in Task
      PROVE  Asked(t) = Nothing /\ Status(t) = "new"
  BY SetAssumption DEF Init, NotStarted, Asked, Status
<1> QED
  BY <1>1, <1>2 DEF Promise!Init

LEMMA NextPromise == OneClient /\ IInv /\ TurnInv /\ [Next]_vars => [Promise!Next]_(Promise!vars)
<1> SUFFICES ASSUME OneClient, IInv, TurnInv, [Next]_vars
             PROVE  [Promise!Next]_(Promise!vars)
  OBVIOUS
<1>1. ASSUME NEW t \in Task, Submit(t)
      PROVE  [Promise!Next]_(Promise!vars)
  BY <1>1, SubmitOpens
<1>2. ASSUME NEW t \in Task, Serve(t)
      PROVE  [Promise!Next]_(Promise!vars)
  BY <1>2, CheckOpens, FetchOpens, BuildOpens, ReportTells DEF Serve
<1>3. ASSUME NEW t \in Task, Remote(t)
      PROVE  [Promise!Next]_(Promise!vars)
  BY <1>3, FetchOpens, PushGoesOn, ReceivePackOpens DEF Remote
<1>4. ASSUME NEW t \in Task, Fault(t)
      PROVE  [Promise!Next]_(Promise!vars)
  BY <1>4, PushGoesOn DEF Fault
<1>5. CASE LateCommand
  BY <1>5, LateCommandOpens
<1>6. CASE Restart
  BY <1>6, RestartEnds
<1>7. CASE OtherPush
  <2>1. FALSE
    BY <1>7, FS_EmptySet DEF OneClient, OtherPush, TurnInv, OwnHistory
  <2> QED
    BY <2>1
<1>8. CASE UNCHANGED vars
  <2>1. \A t \in Task : Status(t)' = Status(t) /\ Asked(t)' = Asked(t)
    BY <1>8 DEF vars, Status, Asked, Ended, Pending, OnBranch
  <2>2. UNCHANGED <<[t \in Task |-> Asked(t)], [t \in Task |-> Status(t)]>>
    BY <2>1
  <2>3. UNCHANGED TreeOf(ref)
    BY <1>8 DEF vars, TreeOf
  <2> QED
    BY <2>2, <2>3 DEF Promise!vars
<1> QED
  BY <1>1, <1>2, <1>3, <1>4, <1>5, <1>6, <1>7, <1>8 DEF Next, Quiet

\* GitRepo implements Branch: a client that waits for each answer sees every
\* edit of its own take effect at most once, whole and on the tree it had
\* before, by the time it is told of success, although a push whose report was
\* lost or late is sent again (repo.rs 190-198, transport.rs 456-490).
THEOREM KeepsPromise == ASSUME OneClient PROVE Spec => ImplementsBranch
<1>1. IInv /\ TurnInv /\ [Next]_vars => [Promise!Next]_(Promise!vars)
  BY NextPromise
<1> QED
  BY <1>1, InitPromise, InvariantHolds, TurnsHold, PTL DEF Spec, ImplementsBranch, Promise!Spec
===============================================================================
