---------------------------- MODULE OneClientProofs ----------------------------
(***************************************************************************)
(* Proofs about GitRepo when its clients take turns (OneClient), for any   *)
(* number of requests, commits and objects, any bound on the retries, and  *)
(* every other fault: failed sessions, lost reports, late commands,        *)
(* cancelled requests and restarts.                                        *)
(*                                                                         *)
(* TurnInv (module GitRepoProperties) is inductive given IInv.  With one   *)
(* request at a time a step of it changes little of what TurnInv says of   *)
(* the others (LocalTurn); the steps left are those that make a commit or  *)
(* move the branch, the start of a request and the restart.                *)
(***************************************************************************)
EXTENDS GitRepoProofs, FiniteSetTheorems

-------------------------------------------------------------------------------
(* Ancestors, for the histories of one client.                              *)

\* The types of a history, in which no line of parents is circular or endless.
History(made) ==
  /\ made \in [Commit -> CommitType \cup {Nothing}]
  /\ \A c \in Commit : made[c] # Nothing /\ made[c].parent # Nothing =>
       made[made[c].parent] # Nothing
  /\ \A some \in SUBSET {c \in Commit : made[c] # Nothing} :
       some # {} => \E c \in some : made[c].parent \notin some

\* A commit and the ancestors of its parent: the recursion that defines
\* Ancestors has a solution, the smallest sets closed under parents.
LEMMA AncestorsOf ==
  ASSUME NEW made \in [Commit -> CommitType \cup {Nothing}], NEW c \in Commit
  PROVE  Ancestors(made, c) =
           {c} \cup IF made[c] = Nothing THEN {}
                    ELSE IF made[c].parent = Nothing THEN {}
                    ELSE Ancestors(made, made[c].parent)
<1> DEFINE Above(f, d) == {d} \cup IF made[d] = Nothing THEN {}
                                   ELSE IF made[d].parent = Nothing THEN {}
                                   ELSE f[made[d].parent]
           Solves(f)  == f = [d \in Commit |-> Above(f, d)]
           Closed(S)  == \A d \in S : made[d] # Nothing /\ made[d].parent # Nothing =>
                                        made[d].parent \in S
           line       == [d \in Commit |->
                           {a \in Commit : \A S \in SUBSET Commit :
                                             d \in S /\ Closed(S) => a \in S}]
<1>1. \A d \in Commit : made[d] # Nothing => made[d].parent \in Commit \cup {Nothing}
  BY DEF CommitType
<1>2. Solves(line)
  <2>1. ASSUME NEW d \in Commit
        PROVE  line[d] = Above(line, d)
    <3>1. d \in line[d] /\ line[d] \subseteq Commit
      OBVIOUS
    <3>2. CASE made[d] = Nothing \/ made[d].parent = Nothing
      <4>1. {d} \in SUBSET Commit /\ Closed({d})
        BY <3>2
      <4>2. line[d] = {d}
        BY <3>1, <4>1
      <4> QED
        BY <3>2, <4>2
    <3>3. CASE made[d] # Nothing /\ made[d].parent # Nothing
      <4> DEFINE p == made[d].parent
      <4>1. p \in Commit
        BY <1>1, <3>3
      <4>2. line[p] \subseteq line[d]
        BY <3>3, <4>1
      <4>3. Closed(line[p]) /\ p \in line[p]
        BY <1>1, <4>1
      <4>4. {d} \cup line[p] \in SUBSET Commit /\ Closed({d} \cup line[p])
        BY <4>1, <4>3
      <4>5. line[d] \subseteq {d} \cup line[p]
        BY <4>4
      <4> QED
        BY <3>1, <3>3, <4>2, <4>5
    <3> QED
      BY <3>2, <3>3
  <2> HIDE DEF Above
  <2> QED
    BY <2>1
<1> DEFINE anc == CHOOSE f : Solves(f)
<1>3. Solves(anc)
  <2> HIDE DEF Solves, line
  <2> QED
    BY <1>2
<1>4. \A d \in Commit : Ancestors(made, d) = anc[d]
  BY DEF Ancestors
<1> HIDE DEF anc
<1>5. anc[c] = Above(anc, c)
  BY <1>3
<1> QED
  BY <1>1, <1>4, <1>5

\* A commit with a parent: itself and the line of its parent.
LEMMA ChildOf ==
  ASSUME NEW made \in [Commit -> CommitType \cup {Nothing}], NEW c \in Commit,
         made[c] # Nothing, made[c].parent # Nothing
  PROVE  /\ made[c].parent \in Commit
         /\ Ancestors(made, c) = {c} \cup Ancestors(made, made[c].parent)
<1>1. made[c].parent \in Commit
  BY DEF CommitType
<1> QED
  BY <1>1, AncestorsOf

LEMMA SelfIn ==
  ASSUME NEW made \in [Commit -> CommitType \cup {Nothing}], NEW c \in Commit
  PROVE  c \in Ancestors(made, c)
  BY AncestorsOf

\* New commits change the line of no commit made before.
LEMMA LineKept ==
  ASSUME NEW made, History(made), NEW more \in [Commit -> CommitType \cup {Nothing}],
         \A d \in Commit : made[d] # Nothing => more[d] = made[d],
         NEW c \in Commit, made[c] # Nothing
  PROVE  Ancestors(more, c) = Ancestors(made, c)
<1> DEFINE moved == {d \in Commit : made[d] # Nothing /\ Ancestors(more, d) # Ancestors(made, d)}
<1>1. made \in [Commit -> CommitType \cup {Nothing}]
  BY DEF History
<1>2. SUFFICES ASSUME moved # {} PROVE FALSE
  OBVIOUS
<1>3. PICK d \in moved : made[d].parent \notin moved
  BY <1>2 DEF History
<1>4. CASE made[d].parent = Nothing
  BY <1>1, <1>3, <1>4, AncestorsOf
<1>5. CASE made[d].parent # Nothing
  <2> DEFINE p == made[d].parent
  <2>1. p \in Commit /\ made[p] # Nothing /\ more[d] = made[d] /\ made[d] # Nothing
    BY <1>1, <1>3, <1>5, ChildOf DEF History
  <2>2. Ancestors(more, p) = Ancestors(made, p)
    BY <1>3, <2>1
  <2>3. /\ Ancestors(more, d) = {d} \cup Ancestors(more, p)
        /\ Ancestors(made, d) = {d} \cup Ancestors(made, p)
    BY <1>1, <1>5, <2>1, ChildOf
  <2> QED
    BY <1>3, <2>2, <2>3
<1> QED
  BY <1>4, <1>5

\* No commit is an ancestor of its parent.
LEMMA NotAboveParent ==
  ASSUME NEW made, History(made), NEW c \in Commit,
         made[c] # Nothing, made[c].parent # Nothing
  PROVE  c \notin Ancestors(made, made[c].parent)
<1> DEFINE p     == made[c].parent
           below == {d \in Commit : made[d] # Nothing /\ c \in Ancestors(made, d)}
<1>1. made \in [Commit -> CommitType \cup {Nothing}]
  BY DEF History
<1>2. p \in Commit /\ made[p] # Nothing
  BY <1>1, ChildOf DEF History
<1>3. SUFFICES ASSUME c \in Ancestors(made, p) PROVE FALSE
  OBVIOUS
<1>4. p \in below
  BY <1>2, <1>3
<1>5. PICK d \in below : made[d].parent \notin below
  BY <1>4 DEF History
<1>6. d # c
  BY <1>4, <1>5
<1>7. CASE made[d].parent = Nothing
  BY <1>1, <1>5, <1>6, <1>7, AncestorsOf
<1>8. CASE made[d].parent # Nothing
  <2>1. made[d].parent \in Commit /\ made[made[d].parent] # Nothing
    BY <1>1, <1>5, <1>8, ChildOf DEF History
  <2>2. c \in Ancestors(made, made[d].parent)
    BY <1>1, <1>5, <1>6, <1>8, ChildOf
  <2> QED
    BY <1>5, <2>1, <2>2
<1> QED
  BY <1>7, <1>8

\* What one client's requests make is such a history.
LEMMA CommitsAreHistory ==
  ASSUME IInv, OwnHistory
  PROVE  History(commits)
<1>1. commits \in [Commit -> CommitType \cup {Nothing}] /\ Root \in Commit
  BY SetAssumption DEF IInv, TypeOK
<1>2. commits[Root].parent = Nothing
  BY DEF OwnHistory, CommitOf
<1>3. ASSUME NEW c \in Commit, commits[c] # Nothing, commits[c].parent # Nothing
      PROVE  commits[commits[c].parent] # Nothing
  <2>1. commits[c].edit # Nothing
    BY <1>2, <1>3 DEF OwnHistory, ByOthers
  <2> QED
    BY <1>3, <2>1 DEF IInv, HistoryIsFaithful, Made
<1> QED
  BY <1>1, <1>3 DEF History, OwnHistory, Made
-------------------------------------------------------------------------------
(* One request at a time.                                                   *)

\* While a request is served no other is, and each late command is its own.
LEMMA Alone ==
  ASSUME IInv, TurnInv, NEW t \in Task, task[t].pc \notin Finished
  PROVE  /\ \A u \in Task : u # t => task[u].pc \in Finished
         /\ \A c \in late : c.of = t
  BY DEF TurnInv, InFlight

\* Before it pushes there is none.
LEMMA NoneLate ==
  ASSUME IInv, TurnInv, NEW t \in Task, task[t].pc \notin Finished \cup Pushing
  PROVE  late = {}
  BY Alone DEF TurnInv, LateInv, Finished

\* A step of the request being served that leaves the branch and the commits
\* alone, and may leave a command to the remote.
LEMMA LocalTurn ==
  ASSUME IInv, TurnInv, NEW t \in Task, NEW s, task[t].pc \notin Finished,
         Step(t, s), UNCHANGED <<ref, commits>>,
         late' = late \/ (late' = late \cup SentBy({t}) /\ ("late" \in Faults \/ s.pc = "done")),
         head' \in {head, ref}, CacheComplete',
         FetchInv(task[t])', PushInv(task[t])',
         s.req = task[t].req,
         s.pc \in Pushing => task[t].pc \in Pushing /\ s.new = task[t].new,
         late' = {} \/ s.pc \in Pushing \cup {"done"},
         s.answer = "ok" => s.new = ref /\ head' = ref /\ \A c \in late' : c.new = ref
  PROVE  TurnInv'
<1>1. task' = [task EXCEPT ![t] = s] /\ task \in [Task -> TaskType]
  BY DEF Step, IInv, TypeOK
<1>2. task'[t] = s /\ \A u \in Task : u # t => task'[u] = task[u]
  BY <1>1
<1>3. /\ \A u \in Task : u # t => task[u].pc \in Finished
      /\ \A c \in late : c.of = t
  BY Alone
<1>4. \A c \in late' : c \in late \/ (task[t].pc = "command" /\ c = Sent(t))
  BY DEF SentBy
<1>5. \A c \in late' : c.of = t
  BY <1>3, <1>4 DEF Sent
<1>6. (\A u, v \in InFlight : u = v)'
  BY <1>2, <1>3, <1>5 DEF InFlight
<1>7. Pushed' \subseteq Pushed
  <2>1. \A c \in late' : c.new \in Pushed
    BY <1>4 DEF Pushed, Sent, Pushing
  <2>2. ASSUME NEW u \in Task, task'[u].pc \in Pushing
        PROVE  task'[u].new \in Pushed
    BY <1>2, <2>2 DEF Pushed
  <2> QED
    BY <2>1, <2>2 DEF Pushed
<1>8. (\A c, d \in Pushed : c = d)'
  BY <1>7 DEF TurnInv
<1>9. ASSUME NEW c \in late'
      PROVE  LateInv(c)'
  <2>1. UnderWay(c) /\ commits[c.new].edit = task[t].req
    <3>1. CASE c \in late
      BY <1>3, <3>1 DEF TurnInv, LateInv
    <3>2. CASE task[t].pc = "command" /\ c = Sent(t)
      BY <3>2 DEF TurnInv, PushInv, Pushing, UnderWay, Sent
    <3> QED
      BY <1>4, <3>1, <3>2
  <2>2. s.pc = "done" \/ ("late" \in Faults /\ s.pc \in Pushing)
    <3>1. CASE c \in late
      BY <1>3, <3>1 DEF TurnInv, LateInv, Finished
    <3>2. CASE c \notin late
      BY <1>2, <1>4, <3>2 DEF Pushing
    <3> QED
      BY <3>1, <3>2
  <2> QED
    BY <1>2, <1>5, <2>1, <2>2 DEF LateInv, UnderWay
<1>10. (\A u \in Task : FetchInv(task[u]) /\ PushInv(task[u]))'
  <2>1. ASSUME NEW u \in Task, u # t
        PROVE  FetchInv(task[u])' /\ PushInv(task[u])'
    <3>1. task'[u] = task[u] /\ task[u].pc \in {"idle", "done"} /\ FetchInv(task[u])
      BY <1>2, <1>3, <2>1 DEF TurnInv, Finished
    <3> QED
      BY <3>1 DEF FetchInv, PushInv, Pushing
  <2> QED
    BY <2>1
<1>11. OwnHistory'
  BY DEF TurnInv, OwnHistory, ByOthers, Made
<1>12. AckedDurable'
  <2>1. ref \in Ancestors(commits, ref)
    BY SelfIn DEF IInv, TypeOK
  <2>2. \A u \in Task : task[u].answer = "ok" =>
          task[u].new \in Ancestors(commits, ref) \cap Ancestors(commits, head')
    BY DEF TurnInv, AckedDurable
  <2>3. ASSUME NEW u \in Task, task'[u].answer = "ok"
        PROVE  task'[u].new \in Ancestors(commits, ref) \cap Ancestors(commits, head')
    <3>1. CASE u = t
      BY <1>2, <2>1, <2>2, <2>3, <3>1
    <3>2. CASE u # t
      BY <1>2, <2>2, <2>3, <3>2
    <3> QED
      BY <3>1, <3>2
  <2> QED
    BY <2>3 DEF AckedDurable
<1> QED
  BY <1>6, <1>8, <1>9, <1>10, <1>11, <1>12 DEF TurnInv

\* Outside the two writes of fetch the cache has its head, and keeps it.
LEMMA CacheStays ==
  ASSUME IInv, TurnInv, NEW t \in Task, task[t].pc \notin Finished \cup {"setObjects"}
  PROVE  /\ head \in objects /\ Closure(TreeOf(head)) \subseteq objects
         /\ UNCHANGED <<cache, commits>> => CacheComplete'
<1>1. \A u \in Task : task[u].pc # "setObjects"
  BY Alone DEF Finished
<1> QED
  BY <1>1 DEF TurnInv, CacheComplete, TreeOf, cache

LEMMA FinishTurn ==
  ASSUME IInv, TurnInv, NEW t \in Task, NEW a \in Answers, a # "ok",
         task[t].pc \notin Finished \cup {"setObjects"},
         Step(t, Finish(t, a)), UNCHANGED <<cache, ref, commits>>,
         late' = late \/ late' = late \cup SentBy({t})
  PROVE  TurnInv'
<1>1. /\ Finish(t, a).pc = "done" /\ Finish(t, a).answer = a /\ Finish(t, a).req = task[t].req
  BY DEF Finish, NotStarted
<1>2. task'[t] = Finish(t, a)
  BY DEF Step, IInv, TypeOK
<1>3. FetchInv(task[t])' /\ PushInv(task[t])'
  BY <1>1, <1>2 DEF FetchInv, PushInv, Pushing
<1> QED
  BY <1>1, <1>3, CacheStays, LocalTurn DEF cache, Pushing

\* A step of the request before its push, that leaves the cache alone.
LEMMA FetchTurn ==
  ASSUME IInv, TurnInv, NEW t \in Task, NEW s,
         task[t].pc \notin Finished \cup Pushing \cup {"setObjects"},
         Step(t, s), UNCHANGED <<cache, remote, commits>>,
         s.req = task[t].req, s.pc \notin Pushing, s.answer # "ok", FetchInv(s)
  PROVE  TurnInv'
<1>1. task'[t] = s
  BY DEF Step, IInv, TypeOK
<1>2. late = {} /\ UNCHANGED <<head, objects, ref, late, commits>>
  BY NoneLate DEF cache, remote
<1>3. FetchInv(task[t])'
  BY <1>1, <1>2 DEF FetchInv, NewObjects, TreeOf
<1>4. PushInv(task[t])'
  BY <1>1 DEF PushInv
<1> QED
  BY <1>1, <1>2, <1>3, <1>4, CacheStays, LocalTurn

LEMMA CheckTurn ==
  ASSUME IInv, TurnInv, NEW t \in Task, Check(t)
  PROVE  TurnInv'
<1> DEFINE r     == task[t].req
           base  == task[t].base
           held  == objects \cap Obj
           tree  == TreeAt(base)
           check == Precheck(held, tree, r)
<1>1. /\ task[t] \in TaskType /\ task[t].pc = "check" /\ TaskInv(task[t]) /\ FetchInv(task[t])
  BY Now DEF Check, TurnInv
<1>2. task[t].pc \notin Finished \cup Pushing \cup {"setObjects"}
  BY <1>1 DEF Finished, Pushing
<1>3. CASE r \in Read /\ Step(t, [Finish(t, "read") EXCEPT !.base = base,
                                                           !.body = ReadFile(held, tree, r)])
  <2> DEFINE s == [Finish(t, "read") EXCEPT !.base = base, !.body = ReadFile(held, tree, r)]
  <2>1. s.pc = "done" /\ s.req = r /\ s.answer = "read"
    BY DEF Finish, NotStarted
  <2>2. FetchInv(s) /\ s.pc \notin Pushing
    BY <2>1 DEF FetchInv, Pushing
  <2> QED
    BY <1>2, <1>3, <2>1, <2>2, FetchTurn DEF Check
<1>4. CASE r \in Edit /\ Step(t, [task[t] EXCEPT !.pc = "fetch", !.attempt = 1, !.base = Nothing])
  <2> DEFINE s == [task[t] EXCEPT !.pc = "fetch", !.attempt = 1, !.base = Nothing]
  <2>1. s.pc = "fetch" /\ s.req = r /\ s.answer = task[t].answer /\ s.answer # "ok"
    BY <1>1 DEF TaskType, FetchInv
  <2>2. FetchInv(s) /\ s.pc \notin Pushing
    BY <2>1 DEF FetchInv, Pushing
  <2> QED
    BY <1>2, <1>4, <2>1, <2>2, FetchTurn DEF Check
<1>5. CASE r \in Edit /\ check # "go" /\ Step(t, Finish(t, check))
  <2>1. tree \in Tree \cup {Nothing}
    <3>1. base \in Commit \cap store
      BY <1>1 DEF TaskInv, BaseKnown, TaskType
    <3> QED
      BY <3>1, KnownCommit DEF TreeAt, TreeOf
  <2>2. check \in Answers /\ check # "ok"
    BY <1>5, <2>1, PrecheckAssumption DEF Answers
  <2> QED
    BY <1>2, <1>5, <2>2, FinishTurn DEF Check, cache, remote
<1> QED
  BY <1>3, <1>4, <1>5 DEF Check

LEMMA StartFetchTurn ==
  ASSUME IInv, TurnInv, NEW t \in Task, StartFetch(t)
  PROVE  TurnInv'
<1> DEFINE s == [task[t] EXCEPT !.pc = "upload", !.base = head, !.tries = 1]
<1>1. task[t] \in TaskType /\ task[t].pc = "fetch" /\ FetchInv(task[t])
  BY Now DEF StartFetch, TurnInv
<1>2. task[t].pc \notin Finished \cup Pushing \cup {"setObjects"}
  BY <1>1 DEF Finished, Pushing
<1>3. s.pc = "upload" /\ s.req = task[t].req /\ s.answer # "ok" /\ s.base = head
  BY <1>1 DEF TaskType, FetchInv
<1>4. FetchInv(s) /\ s.pc \notin Pushing
  BY <1>3 DEF FetchInv, Pushing
<1> QED
  BY <1>2, <1>3, <1>4, FetchTurn DEF StartFetch

LEMMA UploadTurn ==
  ASSUME OneClient, IInv, TurnInv, NEW t \in Task, Upload(t)
  PROVE  TurnInv'
<1>1. task[t] \in TaskType /\ task[t].pc = "upload" /\ FetchInv(task[t])
  BY Now DEF Upload, TurnInv
<1>2. task[t].pc \notin Finished \cup Pushing \cup {"setObjects"}
  BY <1>1 DEF Finished, Pushing
<1>3. task[t].base = head /\ task[t].answer # "ok"
  BY <1>1 DEF FetchInv
<1>4. CASE Step(t, [task[t] EXCEPT !.pc = "merge", !.new = ref,
                                   !.buf = NewObjects(task[t].base, ref)])
  <2> DEFINE s == [task[t] EXCEPT !.pc = "merge", !.new = ref,
                                  !.buf = NewObjects(task[t].base, ref)]
  <2>1. /\ s.pc = "merge" /\ s.req = task[t].req /\ s.answer # "ok" /\ s.new = ref
        /\ s.buf = NewObjects(head, ref)
    BY <1>1, <1>3 DEF TaskType
  <2>2. FetchInv(s) /\ s.pc \notin Pushing
    BY <2>1 DEF FetchInv, Pushing
  <2> QED
    BY <1>2, <1>4, <2>1, <2>2, FetchTurn DEF Upload
<1>5. CASE ref = task[t].base /\ Step(t, NothingNew(t))
  <2> DEFINE s == NothingNew(t)
  <2>1. s.pc = "claim" /\ s.req = task[t].req /\ s.answer # "ok" /\ head = ref
    BY <1>1, <1>3, <1>5 DEF NothingNew, TaskType
  <2>2. FetchInv(s) /\ s.pc \notin Pushing
    BY <2>1 DEF FetchInv, Pushing
  <2> QED
    BY <1>2, <1>5, <2>1, <2>2, FetchTurn DEF Upload
<1>6. CASE Step(t, Finish(t, "error"))
  BY <1>2, <1>6, FinishTurn DEF Upload, Answers, cache, remote
<1>7. "cut" \notin Faults
  BY DEF OneClient
<1> QED
  BY <1>4, <1>5, <1>6, <1>7 DEF Upload

\* The objects of the cached head and those received are those of the branch.
LEMMA MergeTurn ==
  ASSUME IInv, TurnInv, NEW t \in Task, Merge(t)
  PROVE  TurnInv'
<1> DEFINE merged == objects \cup task[t].buf
           new    == task[t].new
           kept   == {new} \cup Reach(merged \cap Obj, commits[new].tree)
           s      == [task[t] EXCEPT !.pc = "setHead", !.buf = merged \cap kept]
<1>1. task[t] \in TaskType /\ task[t].pc = "merge" /\ FetchInv(task[t])
  BY Now DEF Merge, TurnInv
<1>2. task[t].pc \notin Finished \cup Pushing \cup {"setObjects"}
  BY <1>1 DEF Finished, Pushing
<1>3. new = ref /\ task[t].buf = NewObjects(head, ref) /\ task[t].answer # "ok"
  BY <1>1 DEF FetchInv
<1>4. CASE Step(t, s)
  <2>1. ref \in Commit \cap store /\ TreeOf(ref) \in Tree
    BY Now, KnownCommit
  <2>2. head \in objects /\ Closure(TreeOf(head)) \subseteq objects
    BY <1>2, CacheStays
  <2>3. {ref} \cup Closure(TreeOf(ref)) \subseteq merged
    BY <1>3, <2>2 DEF NewObjects, TreeOf
  <2>4. merged \cap kept = {ref} \cup Closure(TreeOf(ref))
    <3>1. Closure(TreeOf(ref)) \subseteq merged \cap Obj /\ merged \cap Obj \in SUBSET Obj
      BY <2>1, <2>3, ReachAssumption
    <3>2. Reach(merged \cap Obj, TreeOf(ref)) = Closure(TreeOf(ref))
      BY <2>1, <3>1, ReachAssumption
    <3> QED
      BY <1>3, <2>3, <3>2 DEF TreeOf
  <2>5. /\ s.pc = "setHead" /\ s.req = task[t].req /\ s.answer # "ok" /\ s.new = ref
        /\ s.buf = merged \cap kept
    BY <1>1, <1>3 DEF TaskType
  <2> HIDE DEF s
  <2>6. FetchInv(s) /\ s.pc \notin Pushing
    BY <2>4, <2>5 DEF FetchInv, Pushing
  <2> QED
    BY <1>2, <1>4, <2>5, <2>6, FetchTurn DEF Merge
<1>5. CASE Step(t, Finish(t, "error"))
  BY <1>2, <1>5, FinishTurn DEF Merge, Answers, cache, remote
<1> QED
  BY <1>4, <1>5 DEF Merge

LEMMA SetHeadTurn ==
  ASSUME IInv, TurnInv, NEW t \in Task, SetHead(t)
  PROVE  TurnInv'
<1> DEFINE s == [task[t] EXCEPT !.pc = "setObjects"]
<1>1. task[t] \in TaskType /\ task[t].pc = "setHead" /\ FetchInv(task[t]) /\ Step(t, s)
  BY Now DEF SetHead, TurnInv
<1>2. task[t].pc \notin Finished \cup Pushing
  BY <1>1 DEF Finished, Pushing
<1>3. /\ s.pc = "setObjects" /\ s.req = task[t].req /\ s.answer # "ok" /\ s.new = ref
      /\ s.buf = {ref} \cup Closure(TreeOf(ref))
  BY <1>1 DEF TaskType, FetchInv
<1>4. task'[t] = s
  BY <1>1 DEF Step, IInv, TypeOK
<1>5. late = {} /\ head' = ref /\ UNCHANGED <<ref, late, commits>>
  BY <1>1, <1>2, NoneLate DEF SetHead, remote, FetchInv
<1> HIDE DEF s
<1>6. FetchInv(task[t])' /\ PushInv(task[t])'
  BY <1>3, <1>4, <1>5 DEF FetchInv, PushInv, Pushing, TreeOf
<1>7. CacheComplete'
  BY <1>3, <1>4 DEF CacheComplete
<1> QED
  BY <1>1, <1>2, <1>3, <1>5, <1>6, <1>7, LocalTurn DEF Pushing

LEMMA SetObjectsTurn ==
  ASSUME IInv, TurnInv, NEW t \in Task, SetObjects(t)
  PROVE  TurnInv'
<1> DEFINE s == [task[t] EXCEPT !.pc = "claim", !.base = Nothing, !.new = Nothing, !.buf = {}]
<1>1. task[t] \in TaskType /\ task[t].pc = "setObjects" /\ FetchInv(task[t]) /\ Step(t, s)
  BY Now DEF SetObjects, TurnInv
<1>2. task[t].pc \notin Finished \cup Pushing
  BY <1>1 DEF Finished, Pushing
<1>3. s.pc = "claim" /\ s.req = task[t].req /\ s.answer # "ok" /\ head = ref
  BY <1>1 DEF TaskType, FetchInv
<1>4. task'[t] = s
  BY <1>1 DEF Step, IInv, TypeOK
<1>5. /\ late = {} /\ UNCHANGED <<head, ref, late, commits>>
      /\ objects' = {ref} \cup Closure(TreeOf(ref))
  BY <1>1, <1>2, NoneLate DEF SetObjects, remote, FetchInv
<1> HIDE DEF s
<1>6. FetchInv(task[t])' /\ PushInv(task[t])'
  BY <1>3, <1>4, <1>5 DEF FetchInv, PushInv, Pushing
<1>7. CacheComplete'
  BY <1>3, <1>5 DEF CacheComplete, TreeOf
<1> QED
  BY <1>1, <1>2, <1>3, <1>5, <1>6, <1>7, LocalTurn DEF Pushing

LEMMA ClaimHeadTurn ==
  ASSUME IInv, TurnInv, NEW t \in Task, ClaimHead(t)
  PROVE  TurnInv'
<1> DEFINE s == [task[t] EXCEPT !.pc = "build", !.base = head]
<1>1. task[t] \in TaskType /\ task[t].pc = "claim" /\ FetchInv(task[t])
  BY Now DEF ClaimHead, TurnInv
<1>2. task[t].pc \notin Finished \cup Pushing \cup {"setObjects"}
  BY <1>1 DEF Finished, Pushing
<1>3. /\ s.pc = "build" /\ s.req = task[t].req /\ s.answer # "ok" /\ s.base = head
      /\ head = ref
  BY <1>1 DEF TaskType, FetchInv
<1>4. FetchInv(s) /\ s.pc \notin Pushing
  BY <1>3 DEF FetchInv, Pushing
<1> QED
  BY <1>2, <1>3, <1>4, FetchTurn DEF ClaimHead

-------------------------------------------------------------------------------
\* A step of the push that sends the same commit.
LEMMA SamePush ==
  ASSUME IInv, TurnInv, NEW t \in Task, NEW s, task[t].pc \in Pushing,
         Step(t, s), UNCHANGED <<cache, ref, commits>>,
         late' = late \/ (late' = late \cup SentBy({t}) /\ "late" \in Faults),
         s.pc \in Pushing, s.req = task[t].req, s.new = task[t].new, s.buf = task[t].buf,
         s.answer = task[t].answer, PushInv(s)
  PROVE  TurnInv'
<1>1. task'[t] = s
  BY DEF Step, IInv, TypeOK
<1>2. task[t].pc \notin Finished \cup {"setObjects"} /\ UNCHANGED <<head, objects>>
  BY DEF Pushing, Finished, cache
<1>3. s.answer # "ok"
  BY <1>2 DEF TurnInv, FetchInv, Finished
<1>4. FetchInv(task[t])'
  BY <1>1, <1>3 DEF FetchInv, Pushing
<1>5. PushInv(task[t])'
  BY <1>1, <1>2 DEF PushInv, UnderWay, TreeOf
<1> QED
  BY <1>2, <1>3, <1>4, <1>5, CacheStays, LocalTurn

LEMMA AdvertiseTurn ==
  ASSUME IInv, TurnInv, NEW t \in Task, Advertise(t)
  PROVE  TurnInv'
<1> DEFINE s == [task[t] EXCEPT !.pc = "command", !.adv = ref]
<1>1. /\ task[t] \in TaskType /\ task[t].pc = "push" /\ PushInv(task[t])
      /\ ref \in Commit
  BY Now DEF Advertise, TurnInv
<1>2. /\ s.pc = "command" /\ s.req = task[t].req /\ s.new = task[t].new
      /\ s.buf = task[t].buf /\ s.answer = task[t].answer /\ s.adv = ref
  BY <1>1 DEF TaskType
<1>3. PushInv(s) /\ s.pc \in Pushing /\ task[t].pc \in Pushing
  BY <1>1, <1>2, SetAssumption DEF PushInv, Pushing, UnderWay
<1>4. Step(t, s) /\ UNCHANGED <<cache, ref, commits>> /\ late' = late
  BY DEF Advertise, remote
<1> HIDE DEF s
<1> QED
  BY <1>2, <1>3, <1>4, SamePush

\* The next round of the push loop, or the end of the request.
LEMMA TryAgainTurn ==
  ASSUME IInv, TurnInv, NEW t \in Task, task[t].pc \in Pushing,
         Step(t, TryAgain(t, "push")), UNCHANGED <<cache, ref, commits>>,
         late' = late \/ (late' = late \cup SentBy({t}) /\ "late" \in Faults)
  PROVE  TurnInv'
<1>1. task[t] \in TaskType /\ PushInv(task[t])
  BY Now DEF TurnInv
<1>2. task[t].pc \notin Finished \cup {"setObjects"}
  BY DEF Pushing, Finished
<1>3. CASE task[t].tries < MaxTries
  <2> DEFINE s == [task[t] EXCEPT !.pc = "push", !.tries = @ + 1, !.adv = Nothing, !.report = {}]
  <2>1. /\ s.pc = "push" /\ s.req = task[t].req /\ s.new = task[t].new
        /\ s.buf = task[t].buf /\ s.answer = task[t].answer /\ s.adv = Nothing
    BY <1>1 DEF TaskType
  <2>2. PushInv(s) /\ s.pc \in Pushing
    BY <1>1, <2>1 DEF PushInv, Pushing, UnderWay
  <2>3. Step(t, s)
    BY <1>3 DEF TryAgain
  <2> HIDE DEF s
  <2> QED
    BY <2>1, <2>2, <2>3, SamePush
<1>4. CASE ~(task[t].tries < MaxTries)
  BY <1>2, <1>4, FinishTurn DEF TryAgain, Answers
<1> QED
  BY <1>3, <1>4

-------------------------------------------------------------------------------
(* The branch moves.                                                        *)

\* The commit of a command is a child of another and no ancestor of that one.
LEMMA PushedChild ==
  ASSUME IInv, TurnInv, NEW x \in Pushed
  PROVE  /\ x \in Commit /\ Made(x) /\ commits[x].parent \in Commit \cap store
         /\ commits[x].edit # Nothing
         /\ Ancestors(commits, x) = {x} \cup Ancestors(commits, commits[x].parent)
         /\ x \notin Ancestors(commits, commits[x].parent)
<1>1. /\ x \in Commit /\ commits[x] # Nothing /\ commits[x].parent \in store
  <2>1. CASE x \in {c.new : c \in late}
    <3>1. PICK c \in late : x = c.new
      BY <2>1
    <3>2. PackComplete(c)
      BY <3>1 DEF IInv
    <3> QED
      BY <3>1, <3>2 DEF PackComplete, Complete, Made
  <2>2. CASE x \notin {c.new : c \in late}
    <3>1. PICK t \in Task : task[t].pc \in Pushing /\ x = task[t].new
      BY <2>2 DEF Pushed
    <3>2. PackComplete(task[t])
      BY <3>1 DEF IInv, TaskInv, PushComplete
    <3> QED
      BY <3>1, <3>2 DEF PackComplete, Complete, Made
  <2> QED
    BY <2>1, <2>2
<1>2. commits \in [Commit -> CommitType \cup {Nothing}] /\ store \subseteq Commit \cup Obj
  BY DEF IInv, TypeOK
<1>3. commits[x].parent # Nothing
  BY <1>1, <1>2, SetAssumption
<1>4. /\ commits[x].parent \in Commit
      /\ Ancestors(commits, x) = {x} \cup Ancestors(commits, commits[x].parent)
  BY <1>1, <1>2, <1>3, ChildOf
<1>5. History(commits)
  BY CommitsAreHistory DEF TurnInv
<1>6. x \notin Ancestors(commits, commits[x].parent)
  BY <1>1, <1>3, <1>5, NotAboveParent
<1>7. commits[x].edit # Nothing
  BY <1>1, <1>3 DEF TurnInv, OwnHistory, CommitOf, ByOthers
<1> QED
  BY <1>1, <1>4, <1>6, <1>7 DEF Made

\* The server deals with a command, of the request being served or of the last
\* one: the branch stays or moves to its commit.
LEMMA BranchTurn ==
  ASSUME IInv, TurnInv, NEW x \in Pushed, ref' \in {ref, x}, UNCHANGED <<cache, commits>>,
         ref \in {commits[x].parent, x}, late' \subseteq late,
         \A u \in Task :
           \/ /\ task'[u] = task[u]
              /\ task[u].pc = "report" => "non-fast-forward" \notin task[u].report
           \/ /\ task[u].pc = "command" /\ task'[u].pc = "report"
              /\ task'[u].req = task[u].req /\ task'[u].answer = task[u].answer
              /\ task'[u].adv = task[u].adv /\ task'[u].new = task[u].new
              /\ task'[u].buf = task[u].buf
              /\ "unpack ok" \in task'[u].report => ref' = x
              /\ "non-fast-forward" \in task'[u].report => "rejected" \in Faults /\ ref' # x
  PROVE  TurnInv'
<1>1. /\ UNCHANGED <<head, objects>> /\ Ancestors(commits, ref) \subseteq Ancestors(commits, ref')
      /\ \A c, d \in Pushed : c = d
  <2>1. Ancestors(commits, x) = {x} \cup Ancestors(commits, commits[x].parent)
    BY PushedChild
  <2>2. CASE ref' = ref
    BY <2>2 DEF cache, TurnInv
  <2>3. CASE ref' = x
    BY <2>1, <2>3 DEF cache, TurnInv
  <2> QED
    BY <2>2, <2>3
<1>2. \A u \in Task : /\ task'[u].pc \in Finished <=> task[u].pc \in Finished
                      /\ task'[u].pc \in Pushing <=> task[u].pc \in Pushing
                      /\ task'[u].req = task[u].req /\ task'[u].answer = task[u].answer
                      /\ task'[u].new = task[u].new /\ task'[u].adv = task[u].adv
                      /\ task'[u].buf = task[u].buf
                      /\ task'[u].pc # task[u].pc => task[u].pc \in Pushing
  BY DEF Finished, Pushing
<1>3. (\A t, u \in InFlight : t = u)'
  <2>1. InFlight' \subseteq InFlight
    BY <1>2 DEF InFlight
  <2> QED
    BY <2>1 DEF TurnInv
<1>4. (\A c, d \in Pushed : c = d)'
  <2>1. ASSUME NEW y \in Pushed'
        PROVE  y \in Pushed
    <3>1. CASE \E c \in late' : y = c.new
      BY <3>1, ZenonT(60) DEF Pushed
    <3>2. CASE \E u \in Task : task'[u].pc \in Pushing /\ y = task'[u].new
      <4>1. PICK u \in Task : task'[u].pc \in Pushing /\ y = task'[u].new
        BY <3>2
      <4>2. task[u].pc \in Pushing /\ y = task[u].new
        BY <1>2, <4>1
      <4> QED
        BY <4>2 DEF Pushed
    <3> QED
      BY <3>1, <3>2 DEF Pushed
  <2> QED
    BY <1>1, <2>1
<1>5. ASSUME NEW c, c.new = x, UnderWay(c)
      PROVE  UnderWay(c)'
  BY <1>5 DEF UnderWay
<1>6. ASSUME NEW c \in late
      PROVE  LateInv(c)'
  <2>1. c.new = x /\ LateInv(c) /\ c.of \in Task
    BY <1>1 DEF Pushed, TurnInv, IInv, TypeOK, CommandType
  <2>2. UnderWay(c)'
    BY <1>5, <2>1 DEF LateInv
  <2>3. task[c.of].answer = "ok" => ref' = c.new
    BY <2>1 DEF LateInv
  <2>4. task'[c.of].pc = "done" \/ ("late" \in Faults /\ task'[c.of].pc \in Pushing)
    BY <1>2, <2>1 DEF LateInv, Finished, Pushing
  <2> QED
    BY <1>2, <2>1, <2>2, <2>3, <2>4 DEF LateInv
<1>7. ASSUME NEW u \in Task
      PROVE  FetchInv(task[u])' /\ PushInv(task[u])'
  <2>1. CASE task[u].pc \in Pushing
    <3>1. task[u].new = x /\ task'[u].pc \in Pushing
      BY <1>1, <1>2, <2>1 DEF Pushed
    <3>2. PushInv(task[u])
      BY DEF TurnInv
    <3>3. task[u].pc # "push" => UnderWay(task[u])'
      BY <1>2, <1>5, <2>1, <3>1, <3>2 DEF PushInv, UnderWay
    <3>4. task[u].answer # "ok"
      BY <2>1 DEF TurnInv, FetchInv, Pushing
    <3>5. FetchInv(task[u])'
      BY <1>2, <3>1, <3>4 DEF FetchInv, Pushing
    <3>6. /\ task'[u].pc = "report" /\ "unpack ok" \in task'[u].report => ref' = x
          /\ task'[u].pc = "report" /\ "non-fast-forward" \in task'[u].report =>
               "rejected" \in Faults /\ ref' # x
      BY <2>1, <3>1, <3>2 DEF PushInv
    <3> QED
      BY <1>1, <1>2, <2>1, <3>1, <3>2, <3>3, <3>5, <3>6 DEF PushInv, TreeOf
  <2>2. CASE task[u].pc \notin Pushing
    <3>1. task'[u] = task[u] /\ FetchInv(task[u])
      BY <2>2 DEF Pushing, TurnInv
    <3>2. CASE task[u].pc \in {"upload", "merge", "setHead", "setObjects", "claim", "build"}
      <4>1. task[u].pc \notin Finished \cup Pushing
        BY <3>2 DEF Finished, Pushing
      <4>2. \A v \in Task : v # u => task[v].pc \in Finished
        BY <4>1, Alone
      <4>3. late = {} /\ Pushed = {}
        BY <4>1, <4>2, NoneLate DEF Pushed, Finished, Pushing
      <4> QED
        BY <4>3
    <3>3. CASE task[u].pc \notin {"upload", "merge", "setHead", "setObjects", "claim", "build"}
      BY <2>2, <3>1, <3>3 DEF FetchInv, PushInv
    <3> QED
      BY <3>2, <3>3
  <2> QED
    BY <2>1, <2>2
<1>8. OwnHistory'
  BY DEF TurnInv, OwnHistory, ByOthers, Made
<1>9. CacheComplete'
  <2>1. \A u \in Task : task'[u].pc # "setObjects" => task[u].pc # "setObjects"
    BY <1>2 DEF Pushing
  <2> QED
    BY <1>1, <2>1 DEF TurnInv, CacheComplete, TreeOf
<1>10. AckedDurable'
  BY <1>1, <1>2 DEF TurnInv, AckedDurable
<1> QED
  BY <1>3, <1>4, <1>6, <1>7, <1>8, <1>9, <1>10 DEF TurnInv

\* A command is refused only if an earlier round of the same push was executed.
LEMMA ReceivePackTurn ==
  ASSUME OneClient, IInv, TurnInv, NEW t \in Task, ReceivePack(t)
  PROVE  TurnInv'
<1> DEFINE x == task[t].new
           p == commits[x].parent
<1>1. task[t] \in TaskType /\ task[t].pc = "command" /\ PushInv(task[t])
  BY Now DEF ReceivePack, TurnInv
<1>2. ref \in {p, x} /\ task[t].adv \in {p, ref}
  BY <1>1 DEF PushInv, Pushing, UnderWay
<1>3. x \in Pushed /\ UNCHANGED <<cache, commits, late>>
  BY <1>1 DEF Pushed, Pushing, ReceivePack
<1>4. ASSUME NEW lines \in SUBSET Lines, Reported(t, lines), ref' \in {ref, x},
             "unpack ok" \in lines => ref' = x,
             "non-fast-forward" \in lines => "rejected" \in Faults /\ ref' # x
      PROVE  TurnInv'
  <2> DEFINE s == [task[t] EXCEPT !.pc = "report", !.report = lines]
  <2>1. /\ s.pc = "report" /\ s.req = task[t].req /\ s.answer = task[t].answer
        /\ s.adv = task[t].adv /\ s.new = task[t].new /\ s.buf = task[t].buf /\ s.report = lines
    BY <1>1 DEF TaskType
  <2>2. task'[t] = s /\ \A u \in Task : u # t => task'[u] = task[u]
    BY <1>4 DEF Reported, Step, IInv, TypeOK
  <2>3. \A u \in Task : u # t => task[u].pc \in Finished
    BY <1>1, Alone DEF Finished
  <2> HIDE DEF s
  <2>4. ASSUME NEW u \in Task
        PROVE  \/ /\ task'[u] = task[u]
                  /\ task[u].pc = "report" => "non-fast-forward" \notin task[u].report
               \/ /\ task[u].pc = "command" /\ task'[u].pc = "report"
                  /\ task'[u].req = task[u].req /\ task'[u].answer = task[u].answer
                  /\ task'[u].adv = task[u].adv /\ task'[u].new = task[u].new
                  /\ task'[u].buf = task[u].buf
                  /\ "unpack ok" \in task'[u].report => ref' = x
                  /\ "non-fast-forward" \in task'[u].report => "rejected" \in Faults /\ ref' # x
    <3>1. CASE u = t
      BY <1>1, <1>4, <2>1, <2>2, <3>1
    <3>2. CASE u # t
      BY <2>2, <2>3, <3>2 DEF Finished
    <3> QED
      BY <3>1, <3>2
  <2> QED
    BY <1>2, <1>3, <1>4, <2>4, BranchTurn
<1>5. CASE Executed(task[t]) /\ Reported(t, {"unpack ok", "ok"})
  BY <1>4, <1>5 DEF Executed, Lines
<1>6. CASE Refused(task[t]) /\ Reported(t, {"unpack ok", "ng"})
  <2>1. "refuse" \notin Faults /\ UNCHANGED ref /\ ~Accepts(task[t])
    BY <1>6 DEF OneClient, Refused
  <2>2. p \in Ancestors(commits, x) /\ x \in Ancestors(commits, x)
    <3>1. /\ x \in Commit /\ p \in Commit
          /\ Ancestors(commits, x) = {x} \cup Ancestors(commits, p)
      BY <1>3, PushedChild
    <3>2. p \in Ancestors(commits, p)
      BY <3>1, SelfIn DEF IInv, TypeOK
    <3> QED
      BY <3>1, <3>2
  <2>3. ref = x
    BY <1>2, <2>1, <2>2 DEF Accepts
  <2> QED
    BY <1>4, <1>6, <2>1, <2>3 DEF Lines
<1>7. CASE UNCHANGED ref /\ Reported(t, {"ng"})
  BY <1>4, <1>7 DEF Lines
<1>8. CASE /\ "rejected" \in Faults /\ ref # task[t].new /\ UNCHANGED ref
           /\ Reported(t, {"non-fast-forward"})
  BY <1>4, <1>8 DEF Lines
<1> QED
  BY <1>5, <1>6, <1>7, <1>8 DEF ReceivePack

LEMMA LateCommandTurn ==
  ASSUME OneClient, IInv, TurnInv, LateCommand
  PROVE  TurnInv'
<1>1. PICK c \in late :
        /\ late' = late \ {c}
        /\ Executed(c) \/ Refused(c) \/ UNCHANGED <<ref, store>>
  BY DEF LateCommand
<1>2. c.new \in Pushed /\ ref' \in {ref, c.new} /\ ref \in {commits[c.new].parent, c.new}
  BY <1>1 DEF Pushed, Executed, Refused, TurnInv, LateInv, UnderWay
<1>3. UNCHANGED <<cache, commits>> /\ task' = task /\ late' \subseteq late
  BY <1>1 DEF LateCommand
<1>4. ASSUME NEW u \in Task, task[u].pc = "report"
      PROVE  "non-fast-forward" \notin task[u].report
  <2>1. c.of = u /\ LateInv(c)
    BY <1>4, Alone DEF TurnInv, Finished
  <2>2. "late" \in Faults
    BY <1>4, <2>1 DEF LateInv
  <2> QED
    BY <1>4, <2>2 DEF OneClient, TurnInv, PushInv, Pushing
<1> QED
  BY <1>2, <1>3, <1>4, BranchTurn

-------------------------------------------------------------------------------
\* Success is reported of the commit the branch points to.
LEMMA ReportTurn ==
  ASSUME OneClient, IInv, TurnInv, NEW t \in Task, Report(t)
  PROVE  TurnInv'
<1>1. /\ task[t] \in TaskType /\ task[t].pc = "report" /\ PushInv(task[t])
      /\ PackComplete(task[t])
  BY Now DEF Report, TurnInv, TaskInv, PushComplete, Pushing
<1>2. task[t].pc \notin Finished \cup {"setObjects"} /\ task[t].pc \in Pushing
  BY <1>1 DEF Finished, Pushing
<1>3. UNCHANGED <<ref, store, late, commits>>
  BY DEF Report, remote
<1>4. CASE /\ Classify(task[t].report) = "pushed"
           /\ objects' = objects \cup task[t].buf /\ head' = task[t].new
           /\ Step(t, [Finish(t, "ok") EXCEPT !.new = task[t].new])
  <2> DEFINE s == [Finish(t, "ok") EXCEPT !.new = task[t].new]
  <2>1. s.pc = "done" /\ s.answer = "ok" /\ s.req = task[t].req /\ s.new = task[t].new
    BY DEF Finish, NotStarted
  <2>2. Step(t, s) /\ task'[t] = s
    BY <1>4 DEF Step, IInv, TypeOK
  <2>3. ref = task[t].new
    BY <1>1, <1>4 DEF Classify, Contains, PushInv, Pushing
  <2>4. \A c \in late : c.new = ref
    BY <1>2, <2>3 DEF TurnInv, Pushed
  <2> HIDE DEF s
  <2>5. FetchInv(task[t])' /\ PushInv(task[t])'
    BY <2>1, <2>2 DEF FetchInv, PushInv, Pushing
  <2>6. CacheComplete'
    <3>1. head' \in objects' /\ Closure(TreeOf(head')) \subseteq objects'
      BY <1>1, <1>2, <1>4 DEF PushInv, PackComplete
    <3> QED
      BY <1>3, <3>1 DEF CacheComplete, TreeOf
  <2> QED
    BY <1>2, <1>3, <1>4, <2>1, <2>2, <2>3, <2>4, <2>5, <2>6, LocalTurn DEF Pushing
<1>5. CASE /\ Classify(task[t].report) = "rejected"
           /\ Step(t, AttemptAgain(t)) /\ UNCHANGED cache
  <2>1. "late" \notin Faults
    BY <1>1, <1>5 DEF Classify, Contains, PushInv, Pushing, OneClient
  <2>2. late = {}
    BY <1>1, <1>2, <2>1, Alone DEF TurnInv, LateInv
  <2>3. CASE task[t].attempt < MaxAttempts
    <3> DEFINE s == [NotStarted EXCEPT !.pc = "fetch", !.req = task[t].req,
                                       !.attempt = task[t].attempt + 1]
    <3>1. Step(t, s)
      BY <1>5, <2>3 DEF AttemptAgain
    <3>2. s.pc = "fetch" /\ s.req = task[t].req /\ s.answer # "ok"
      BY DEF NotStarted
    <3>3. task'[t] = s
      BY <3>1 DEF Step, IInv, TypeOK
    <3> HIDE DEF s
    <3>4. FetchInv(task[t])' /\ PushInv(task[t])'
      BY <3>2, <3>3 DEF FetchInv, PushInv, Pushing
    <3> QED
      BY <1>2, <1>3, <1>5, <2>2, <3>1, <3>2, <3>4, CacheStays, LocalTurn DEF Pushing, cache
  <2>4. CASE ~(task[t].attempt < MaxAttempts)
    BY <1>2, <1>3, <1>5, <2>4, FinishTurn DEF AttemptAgain, Answers
  <2> QED
    BY <2>3, <2>4
<1>6. CASE Step(t, TryAgain(t, "push")) /\ UNCHANGED cache
  BY <1>2, <1>3, <1>6, TryAgainTurn
<1> QED
  BY <1>4, <1>5, <1>6 DEF Report

LEMMA SessionFailedTurn ==
  ASSUME IInv, TurnInv, NEW t \in Task, SessionFailed(t)
  PROVE  TurnInv'
<1>1. CASE task[t].pc = "upload" /\ Step(t, TryAgain(t, "upload"))
  <2>1. task[t] \in TaskType /\ FetchInv(task[t])
    BY Now DEF TurnInv
  <2>2. task[t].pc \notin Finished \cup Pushing \cup {"setObjects"}
    BY <1>1 DEF Finished, Pushing
  <2>3. CASE task[t].tries < MaxTries
    <3> DEFINE s == [task[t] EXCEPT !.pc = "upload", !.tries = @ + 1, !.adv = Nothing,
                                    !.report = {}]
    <3>1. Step(t, s)
      BY <1>1, <2>3 DEF TryAgain
    <3>2. s.pc = "upload" /\ s.req = task[t].req /\ s.answer # "ok" /\ s.base = head
      BY <1>1, <2>1 DEF TaskType, FetchInv
    <3>3. FetchInv(s) /\ s.pc \notin Pushing
      BY <3>2 DEF FetchInv, Pushing
    <3> QED
      BY <2>2, <3>1, <3>2, <3>3, FetchTurn DEF SessionFailed
  <2>4. CASE ~(task[t].tries < MaxTries)
    BY <1>1, <2>2, <2>4, FinishTurn DEF TryAgain, Answers, SessionFailed, cache, remote
  <2> QED
    BY <2>3, <2>4
<1>2. CASE task[t].pc \in {"push", "command"} /\ Step(t, TryAgain(t, "push"))
  <2>1. task[t].pc \in Pushing /\ UNCHANGED <<cache, ref, commits>> /\ late' = late
    BY <1>2 DEF Pushing, SessionFailed, remote
  <2> QED
    BY <1>2, <2>1, TryAgainTurn
<1> QED
  BY <1>1, <1>2 DEF SessionFailed

LEMMA LoseReportTurn ==
  ASSUME IInv, TurnInv, NEW t \in Task, LoseReport(t)
  PROVE  TurnInv'
<1> DEFINE s == [task[t] EXCEPT !.report = {}]
<1>1. task[t] \in TaskType /\ task[t].pc = "report" /\ PushInv(task[t])
  BY Now DEF LoseReport, TurnInv
<1>2. /\ s.pc = "report" /\ s.req = task[t].req /\ s.new = task[t].new /\ s.adv = task[t].adv
      /\ s.buf = task[t].buf /\ s.answer = task[t].answer /\ s.report = {}
  BY <1>1 DEF TaskType
<1>3. PushInv(s) /\ s.pc \in Pushing /\ task[t].pc \in Pushing
  BY <1>1, <1>2 DEF PushInv, Pushing, UnderWay
<1>4. Step(t, s) /\ UNCHANGED <<cache, ref, commits>> /\ late' = late
  BY DEF LoseReport, remote
<1> HIDE DEF s
<1> QED
  BY <1>2, <1>3, <1>4, SamePush

LEMMA TimedOutTurn ==
  ASSUME IInv, TurnInv, NEW t \in Task, TimedOut(t)
  PROVE  TurnInv'
<1>1. task[t].pc \in Pushing /\ UNCHANGED <<cache, ref, commits>>
  BY DEF TimedOut, Pushing
<1> QED
  BY <1>1, TryAgainTurn DEF TimedOut

LEMMA CancelTurn ==
  ASSUME IInv, TurnInv, NEW t \in Task, Cancel(t)
  PROVE  TurnInv'
<1>1. task[t].pc \notin Finished \cup {"setObjects"}
  BY DEF Cancel, Finished
<1> QED
  BY <1>1, FinishTurn DEF Cancel, Answers

-------------------------------------------------------------------------------
(* A request starts, builds its commit, and the server restarts.            *)

LEMMA SubmitTurn ==
  ASSUME OneClient, IInv, TurnInv, NEW t \in Task, Submit(t)
  PROVE  TurnInv'
<1>1. PICK r \in Edit \cup Read :
        Step(t, [NotStarted EXCEPT !.pc = "check", !.req = r, !.base = head])
  BY DEF Submit
<1> DEFINE s == [NotStarted EXCEPT !.pc = "check", !.req = r, !.base = head]
<1>2. InFlight = {}
  <2>1. SUFFICES ASSUME NEW x \in InFlight PROVE FALSE
    OBVIOUS
  <2>2. InFlight = {x}
    BY DEF TurnInv
  <2>3. Cardinality(InFlight) = 1
    BY <2>2, FS_Singleton
  <2> QED
    BY <2>3 DEF Submit, OneClient
<1>3. late = {} /\ \A u \in Task : task[u].pc \in Finished
  BY <1>2 DEF InFlight
<1>4. UNCHANGED <<head, objects, ref, late, commits>>
  BY DEF Submit, cache, remote
<1>5. s.pc = "check" /\ s.answer = "none"
  BY DEF NotStarted
<1>6. task'[t] = s /\ \A u \in Task : u # t => task'[u] = task[u]
  BY <1>1 DEF Step, IInv, TypeOK
<1> HIDE DEF s
<1>7. (\A u, v \in InFlight : u = v)'
  BY <1>3, <1>4, <1>6 DEF InFlight
<1>8. Pushed' = {}
  <2>1. \A u \in Task : task'[u].pc \notin Pushing
    BY <1>3, <1>5, <1>6 DEF Finished, Pushing
  <2> QED
    BY <1>3, <1>4, <2>1 DEF Pushed
<1>9. (\A u \in Task : FetchInv(task[u]) /\ PushInv(task[u]))'
  <2>1. ASSUME NEW u \in Task
        PROVE  FetchInv(task[u])' /\ PushInv(task[u])'
    <3>1. CASE u = t
      BY <1>5, <1>6, <3>1 DEF FetchInv, PushInv, Pushing
    <3>2. CASE u # t
      BY <1>3, <1>6, <3>2 DEF TurnInv, FetchInv, PushInv, Pushing, Finished
    <3> QED
      BY <3>1, <3>2
  <2> QED
    BY <2>1
<1>10. OwnHistory' /\ CacheComplete'
  <2>1. \A u \in Task : task[u].pc # "setObjects"
    BY <1>3 DEF Finished
  <2> QED
    BY <1>4, <2>1 DEF TurnInv, OwnHistory, ByOthers, Made, CacheComplete, TreeOf
<1>11. AckedDurable'
  BY <1>4, <1>5, <1>6 DEF TurnInv, AckedDurable
<1> QED
  BY <1>3, <1>4, <1>7, <1>8, <1>9, <1>10, <1>11 DEF TurnInv

\* A commit that is built adds to the history, and is a child of the branch.
LEMMA CommitAdded ==
  ASSUME IInv, TurnInv, NEW base \in Commit \cap store, NEW tree \in Tree, NEW edit \in Edit,
         NEW c \in IdsFor(CommitOf(base, tree, edit)),
         commits' = [commits EXCEPT ![c] = CommitOf(base, tree, edit)]
  PROVE  /\ commits' \in [Commit -> CommitType \cup {Nothing}]
         /\ commits'[c].parent = base /\ commits'[c].tree = tree /\ commits'[c].edit = edit
         /\ \A d \in Commit : Made(d) => commits'[d] = commits[d]
         /\ c \in Commit /\ OwnHistory' /\ History(commits')
<1> DEFINE content == CommitOf(base, tree, edit)
<1>1. /\ content \in CommitType /\ content # Nothing
      /\ content.parent = base /\ content.tree = tree /\ content.edit = edit
  BY SetAssumption DEF CommitOf, CommitType
<1>2. c \in Commit /\ commits[c] \in {content, Nothing}
  BY DEF IdsFor, Fresh
<1> HIDE DEF content
<1>3. /\ commits \in [Commit -> CommitType \cup {Nothing}]
      /\ commits' = [commits EXCEPT ![c] = content]
  BY DEF content, IInv, TypeOK
<1>4. /\ commits' \in [Commit -> CommitType \cup {Nothing}] /\ commits'[c] = content
      /\ \A d \in Commit : d # c => commits'[d] = commits[d]
  BY <1>1, <1>2, <1>3
<1>5. \A d \in Commit : Made(d) => commits'[d] = commits[d]
  BY <1>2, <1>4 DEF Made
<1>6. Made(base) /\ History(commits)
  BY KnownCommit, CommitsAreHistory DEF TurnInv
<1>7. commits'[Root] = CommitOf(Nothing, InitialTree, Nothing)
  BY <1>5, SetAssumption DEF TurnInv, OwnHistory, Made
<1>8. ByOthers' = {}
  <2>1. \A d \in Commit : commits'[d] # Nothing /\ d # Root => commits'[d].edit # Nothing
    BY <1>1, <1>4, SetAssumption DEF TurnInv, OwnHistory, ByOthers
  <2> QED
    BY <2>1 DEF ByOthers
<1>9. ASSUME NEW some \in SUBSET {d \in Commit : commits'[d] # Nothing}, some # {}
      PROVE  \E d \in some : commits'[d].parent \notin some
  <2>1. CASE commits[c] = content
    <3>1. commits' = commits
      BY <1>2, <1>3, <2>1
    <3> QED
      BY <1>6, <1>9, <3>1 DEF History
  <2>2. CASE commits[c] = Nothing
    <3>1. base # c
      BY <1>6, <2>2 DEF Made
    <3>2. CASE some = {c}
      BY <1>1, <1>4, <3>1, <3>2
    <3>3. CASE some # {c}
      <4> DEFINE old == some \ {c}
      <4>1. old \in SUBSET {d \in Commit : commits[d] # Nothing} /\ old # {}
        BY <1>4, <1>9, <3>3
      <4>2. PICK d \in old : commits[d].parent \notin old
        BY <1>6, <4>1 DEF History
      <4>3. commits[d].parent # c
        <5>1. commits[d].parent # Nothing => commits[commits[d].parent] # Nothing
          BY <1>6, <4>1, <4>2 DEF History
        <5> QED
          BY <1>2, <2>2, <5>1, SetAssumption
      <4>4. commits'[d] = commits[d]
        BY <1>4, <1>9, <4>2
      <4> QED
        BY <4>2, <4>3, <4>4
    <3> QED
      BY <3>2, <3>3
  <2> QED
    BY <1>2, <2>1, <2>2
<1>10. OwnHistory'
  BY <1>7, <1>8, <1>9 DEF OwnHistory, Made
<1>11. History(commits')
  <2>1. ASSUME NEW d \in Commit, commits'[d] # Nothing, commits'[d].parent # Nothing
        PROVE  commits'[commits'[d].parent] # Nothing
    <3>1. CASE d = c
      BY <1>1, <1>4, <1>5, <1>6, <3>1 DEF Made
    <3>2. CASE d # c
      <4>1. commits'[d] = commits[d] /\ commits[commits[d].parent] # Nothing
        BY <1>4, <1>6, <2>1, <3>2 DEF History
      <4>2. commits[d].parent \in Commit
        BY <1>3, <2>1, <4>1, ChildOf
      <4> QED
        BY <1>5, <4>1, <4>2 DEF Made
    <3> QED
      BY <3>1, <3>2
  <2> QED
    BY <1>4, <1>9, <2>1 DEF History
<1> QED
  BY <1>1, <1>2, <1>4, <1>5, <1>10, <1>11

LEMMA BuildTurn ==
  ASSUME IInv, TurnInv, NEW t \in Task, Build(t)
  PROVE  TurnInv'
<1> DEFINE base    == task[t].base
           edit    == task[t].req
           edited  == EditTree(objects \cap Obj, commits[base].tree, edit)
           content == CommitOf(base, edited.root, edit)
<1>1. /\ task[t] \in TaskType /\ task[t].pc = "build" /\ FetchInv(task[t])
      /\ UNCHANGED <<head, objects, ref, late>> /\ head \in Commit \cap store
  BY Now DEF Build, TurnInv, cache, remote
<1>2. /\ task[t].pc \notin Finished \cup Pushing \cup {"setObjects"}
      /\ task[t].answer # "ok" /\ base = head /\ head = ref /\ edit \in Edit
  BY <1>1, Writing DEF Finished, Pushing, FetchInv
<1>3. late = {} /\ \A u \in Task : u # t => task[u].pc \in Finished
  BY <1>2, Alone, NoneLate
<1>4. CASE Step(t, Finish(t, "error")) /\ UNCHANGED commits
  BY <1>1, <1>2, <1>4, FinishTurn DEF Answers, cache
<1>5. ASSUME NEW c \in IdsFor(content), edited.ok,
             commits' = [commits EXCEPT ![c] = content],
             Step(t, [task[t] EXCEPT !.pc = "push", !.new = c, !.tries = 1,
                                     !.buf = {c} \cup edited.pack])
      PROVE  TurnInv'
  <2> DEFINE s == [task[t] EXCEPT !.pc = "push", !.new = c, !.tries = 1,
                                  !.buf = {c} \cup edited.pack]
  <2>1. /\ s.pc = "push" /\ s.answer # "ok" /\ s.req = edit /\ s.new = c
        /\ s.buf = {c} \cup edited.pack
    BY <1>1, <1>2 DEF TaskType
  <2>2. /\ task'[t] = s /\ \A u \in Task : u # t => task'[u] = task[u]
    BY <1>5 DEF Step, IInv, TypeOK
  <2>3. /\ Made(head) /\ TreeOf(head) \in Tree
        /\ head \in objects /\ Closure(TreeOf(head)) \subseteq objects
    BY <1>1, <1>2, KnownCommit, CacheStays
  <2>4. edited.root \in Tree /\ Closure(edited.root) \subseteq Closure(TreeOf(head)) \cup edited.pack
    <3>1. objects \cap Obj \in SUBSET Obj
      OBVIOUS
    <3> QED
      BY <1>2, <1>5, <2>3, <3>1, EditAssumption DEF TreeOf
  <2> HIDE DEF s, edited, edit
  <2>5. /\ commits' \in [Commit -> CommitType \cup {Nothing}]
        /\ commits'[c].parent = head /\ commits'[c].tree = edited.root
        /\ commits'[c].edit = edit
        /\ \A d \in Commit : Made(d) => commits'[d] = commits[d]
        /\ c \in Commit /\ OwnHistory'
    <3>1. base \in Commit \cap store /\ edited.root \in Tree /\ edit \in Edit
      BY <1>1, <1>2, <2>4 DEF edit
    <3>2. c \in IdsFor(CommitOf(base, edited.root, edit))
      BY <1>5 DEF edited, edit
    <3>3. commits' = [commits EXCEPT ![c] = CommitOf(base, edited.root, edit)]
      BY <1>5 DEF edited, edit
    <3>4. base = head
      BY <1>2
    <3> HIDE DEF base
    <3>5. /\ commits' \in [Commit -> CommitType \cup {Nothing}]
          /\ commits'[c].parent = base /\ commits'[c].tree = edited.root
          /\ commits'[c].edit = edit
          /\ \A d \in Commit : Made(d) => commits'[d] = commits[d]
          /\ c \in Commit /\ OwnHistory'
      BY <3>1, <3>2, <3>3, CommitAdded, ZenonT(60)
    <3> QED
      BY <3>4, <3>5
  <2>6. (\A u, v \in InFlight : u = v)'
    BY <1>1, <1>3, <2>2 DEF InFlight
  <2>7. (\A d, e \in Pushed : d = e)'
    <3>1. \A u \in Task : task'[u].pc \in Pushing => u = t
      BY <1>3, <2>2 DEF Finished, Pushing
    <3> QED
      BY <1>1, <1>3, <2>1, <2>2, <3>1 DEF Pushed
  <2>8. FetchInv(task[t])' /\ PushInv(task[t])'
    <3>1. Closure(edited.root) \subseteq objects \cup task'[t].buf
      BY <2>1, <2>2, <2>3, <2>4
    <3> QED
      BY <1>1, <1>2, <2>1, <2>2, <2>5, <3>1 DEF FetchInv, PushInv, TreeOf
  <2>9. ASSUME NEW u \in Task, u # t
        PROVE  FetchInv(task[u])' /\ PushInv(task[u])'
    <3>1. task'[u] = task[u] /\ task[u].pc \in {"idle", "done"} /\ FetchInv(task[u])
      BY <1>3, <2>2, <2>9 DEF TurnInv, Finished
    <3> QED
      BY <3>1 DEF FetchInv, PushInv, Pushing
  <2>10. CacheComplete'
    BY <1>1, <2>3, <2>5 DEF CacheComplete, TreeOf
  <2>11. AckedDurable'
    <3>1. /\ Ancestors(commits', head) = Ancestors(commits, head)
          /\ Ancestors(commits', ref) = Ancestors(commits, ref)
      BY <1>1, <1>2, <2>3, <2>5, LineKept, CommitsAreHistory DEF TurnInv, Made
    <3>2. \A u \in Task : task'[u].answer = "ok" => task'[u] = task[u]
      BY <2>1, <2>2
    <3> QED
      BY <1>1, <3>1, <3>2 DEF TurnInv, AckedDurable
  <2> QED
    BY <1>1, <1>3, <2>5, <2>6, <2>7, <2>8, <2>9, <2>10, <2>11 DEF TurnInv
<1> QED
  BY <1>4, <1>5 DEF Build

\* The fetch at startup shows the branch; a command may still be under way.
LEMMA RestartTurn ==
  ASSUME IInv, TurnInv, Restart
  PROVE  TurnInv'
<1>1. /\ head' = ref /\ objects' = {ref} \cup Closure(TreeOf(ref))
      /\ UNCHANGED <<ref, commits>> /\ late' = late \cup SentBy(Task)
      /\ \A t \in Task : task'[t] = IF task[t].pc \in Finished THEN task[t]
                                    ELSE Finish(t, "dropped")
  BY DEF Restart, TreeOf
<1>2. \A t \in Task : /\ task'[t].pc \in Finished /\ task'[t].req = task[t].req
                      /\ task'[t].answer = "ok" => task'[t] = task[t]
                      /\ task[t].pc \notin Finished => task'[t].pc = "done"
  <2>1. \A t \in Task : /\ Finish(t, "dropped").pc = "done"
                        /\ Finish(t, "dropped").answer = "dropped"
                        /\ Finish(t, "dropped").req = task[t].req
    BY DEF Finish, NotStarted
  <2> QED
    BY <1>1, <2>1 DEF Finished
<1>3. ASSUME NEW c \in late'
      PROVE  /\ c.new \in Pushed /\ c.of \in InFlight /\ c.of \in Task /\ UnderWay(c)
             /\ commits[c.new].edit = task[c.of].req
             /\ task[c.of].pc # "idle" /\ (task[c.of].answer = "ok" => ref = c.new)
  <2>1. CASE c \in late
    <3>1. LateInv(c) /\ c.of \in Task
      BY <2>1 DEF TurnInv, IInv, TypeOK, CommandType
    <3> QED
      BY <2>1, <3>1 DEF LateInv, Pushed, InFlight, Pushing
  <2>2. CASE c \notin late
    <3>1. PICK t \in Task : task[t].pc = "command" /\ c = Sent(t)
      BY <1>1, <2>2 DEF SentBy
    <3>2. PushInv(task[t]) /\ FetchInv(task[t])
      BY DEF TurnInv
    <3>3. c.of = t /\ c.new = task[t].new /\ c.adv = task[t].adv
      BY <3>1 DEF Sent
    <3>4. c.new \in Pushed /\ c.of \in InFlight
      BY <3>1, <3>3 DEF Pushed, InFlight, Pushing, Finished
    <3> QED
      BY <3>1, <3>2, <3>3, <3>4 DEF PushInv, FetchInv, Pushing, UnderWay
  <2> QED
    BY <2>1, <2>2
<1>4. (\A t, u \in InFlight : t = u)'
  BY <1>2, <1>3 DEF InFlight, TurnInv
<1>5. (\A c, d \in Pushed : c = d)'
  <2>1. Pushed' = {c.new : c \in late'}
    BY <1>2 DEF Pushed, Finished, Pushing
  <2> QED
    BY <1>3, <2>1 DEF TurnInv
<1>6. ASSUME NEW c \in late'
      PROVE  LateInv(c)'
  <2>1. UnderWay(c)' /\ commits'[c.new].edit = task'[c.of].req
    BY <1>1, <1>2, <1>3 DEF UnderWay
  <2>2. task'[c.of].pc = "done"
    BY <1>1, <1>2, <1>3 DEF Finished
  <2>3. task'[c.of].answer = "ok" => ref' = c.new
    BY <1>1, <1>2, <1>3
  <2> QED
    BY <2>1, <2>2, <2>3 DEF LateInv
<1>7. ASSUME NEW t \in Task
      PROVE  FetchInv(task[t])' /\ PushInv(task[t])'
  BY <1>1, <1>2 DEF TurnInv, FetchInv, PushInv, Pushing, Finished
<1>8. OwnHistory' /\ CacheComplete'
  BY <1>1 DEF TurnInv, OwnHistory, ByOthers, Made, CacheComplete, TreeOf
<1>9. AckedDurable'
  BY <1>1, <1>2 DEF TurnInv, AckedDurable
<1> QED
  BY <1>4, <1>5, <1>6, <1>7, <1>8, <1>9 DEF TurnInv

-------------------------------------------------------------------------------
LEMMA InitTurn == IInv /\ Init => TurnInv
<1> SUFFICES ASSUME IInv, Init PROVE TurnInv
  OBVIOUS
<1> DEFINE first == CommitOf(Nothing, InitialTree, Nothing)
<1>1. /\ \A t \in Task : task[t] = NotStarted
      /\ head = Root /\ ref = Root /\ objects = {Root} \cup Closure(InitialTree) /\ late = {}
      /\ \A c \in Commit : commits[c] = IF c = Root THEN first ELSE Nothing
  BY DEF Init
<1>2. NotStarted.pc = "idle" /\ NotStarted.answer = "none"
  BY DEF NotStarted
<1>3. InFlight = {} /\ Pushed = {}
  BY <1>1, <1>2 DEF InFlight, Pushed, Finished, Pushing
<1>4. \A t \in Task : FetchInv(task[t]) /\ PushInv(task[t])
  BY <1>1, <1>2 DEF FetchInv, PushInv, Pushing
<1>5. Root \in Commit /\ first.parent = Nothing /\ first.tree = InitialTree
  BY SetAssumption DEF CommitOf
<1> HIDE DEF first
<1>6. OwnHistory
  <2>1. commits[Root] = CommitOf(Nothing, InitialTree, Nothing) /\ ByOthers = {}
    BY <1>1, <1>5 DEF ByOthers, first
  <2>2. ASSUME NEW made \in SUBSET {c \in Commit : Made(c)}, made # {}
        PROVE  \E c \in made : commits[c].parent \notin made
    <3>1. made = {Root}
      BY <1>1, <2>2 DEF Made
    <3> QED
      BY <1>1, <1>5, <3>1, SetAssumption
  <2> QED
    BY <2>1, <2>2 DEF OwnHistory
<1>7. CacheComplete /\ AckedDurable
  BY <1>1, <1>2, <1>5 DEF CacheComplete, AckedDurable, TreeOf
<1> QED
  BY <1>1, <1>3, <1>4, <1>6, <1>7 DEF TurnInv

LEMMA NextTurn ==
  ASSUME OneClient, IInv, TurnInv, [Next]_vars
  PROVE  TurnInv'
<1>1. ASSUME NEW t \in Task, Submit(t) PROVE TurnInv'
  BY <1>1, SubmitTurn
<1>2. ASSUME NEW t \in Task, Serve(t) PROVE TurnInv'
  BY <1>2, CheckTurn, StartFetchTurn, MergeTurn, SetHeadTurn, SetObjectsTurn, ClaimHeadTurn,
     BuildTurn, ReportTurn DEF Serve
<1>3. ASSUME NEW t \in Task, Remote(t) PROVE TurnInv'
  BY <1>3, UploadTurn, AdvertiseTurn, ReceivePackTurn DEF Remote
<1>4. ASSUME NEW t \in Task, Fault(t) PROVE TurnInv'
  BY <1>4, SessionFailedTurn, LoseReportTurn, TimedOutTurn, CancelTurn DEF Fault
<1>5. CASE LateCommand
  BY <1>5, LateCommandTurn
<1>6. CASE Restart
  BY <1>6, RestartTurn
<1>7. ~OtherPush
  BY FS_EmptySet DEF OtherPush, OneClient, TurnInv, OwnHistory
<1>8. CASE UNCHANGED vars
  <2>1. UNCHANGED <<head, objects, ref, late, commits, task>>
    BY <1>8 DEF vars
  <2>2. InFlight' = InFlight /\ Pushed' = Pushed
    BY <2>1 DEF InFlight, Pushed
  <2>3. \A c \in late : LateInv(c) => LateInv(c)'
    BY <2>1 DEF LateInv, UnderWay
  <2>4. ASSUME NEW t \in Task, FetchInv(task[t]), PushInv(task[t])
        PROVE  FetchInv(task[t])' /\ PushInv(task[t])'
    <3>1. NewObjects(head, ref)' = NewObjects(head, ref) /\ TreeOf(ref)' = TreeOf(ref)
      BY <2>1 DEF NewObjects, TreeOf
    <3>2. FetchInv(task[t])'
      BY <2>1, <2>4, <3>1 DEF FetchInv
    <3>3. PushInv(task[t])'
      BY <2>1, <2>4 DEF PushInv, UnderWay, TreeOf
    <3> QED
      BY <3>2, <3>3
  <2> QED
    BY <2>1, <2>2, <2>3, <2>4
    DEF TurnInv, OwnHistory, ByOthers, Made, CacheComplete, AckedDurable, TreeOf
<1> QED
  BY <1>1, <1>2, <1>3, <1>4, <1>5, <1>6, <1>7, <1>8 DEF Next, Quiet

-------------------------------------------------------------------------------
\* The state of the one request and of the commands under way in every
\* reachable state, whatever fails, is lost, comes late or is cancelled.
THEOREM TurnsHold ==
  ASSUME OneClient
  PROVE  Spec => []TurnInv
<1>1. IInv /\ TurnInv /\ [Next]_vars => TurnInv'
  BY NextTurn
<1> QED
  BY <1>1, InitTurn, InvariantHolds, PTL DEF Spec

\* What the server answered with success is on the branch and in the cache from
\* then on (repo.rs 190-198 and 313-318, transport.rs 456-490).
THEOREM AckedStaysDurable ==
  ASSUME OneClient
  PROVE  Spec => []AckedDurable
<1>1. TurnInv => AckedDurable
  BY DEF TurnInv
<1> QED
  BY <1>1, TurnsHold, PTL

\* The cache has all of its head whenever fetch is not between its two writes
\* (repo.rs 220-256): the pruned union of what it had and what it received.
THEOREM CacheStaysComplete ==
  ASSUME OneClient
  PROVE  Spec => []CacheComplete
<1>1. TurnInv => CacheComplete
  BY DEF TurnInv
<1> QED
  BY <1>1, TurnsHold, PTL

\* The branch moves only when the server executes a command, from the parent of
\* the command's commit or from the commit itself.
LEMMA OnlyCommandsMove ==
  ASSUME OneClient, IInv, TurnInv, Next, ref' # ref
  PROVE  /\ ref' \in Pushed /\ ref = commits[ref'].parent /\ UNCHANGED <<cache, commits>>
         /\ \/ \E t \in Task : ReceivePack(t) /\ ref' = task[t].new
            \/ \E c \in late : ref' = c.new /\ LateCommand
<1>1. ~OtherPush
  BY FS_EmptySet DEF OtherPush, OneClient, TurnInv, OwnHistory
<1>2. (\E t \in Task : ReceivePack(t)) \/ LateCommand
  BY <1>1 DEF Next, Submit, Serve, Remote, Fault, Restart, Quiet, vars, remote, Check, StartFetch,
              Upload, Merge, SetHead, SetObjects, ClaimHead, Build, Advertise, Report,
              SessionFailed, LoseReport, TimedOut, Cancel
<1>3. CASE \E t \in Task : ReceivePack(t)
  <2>1. PICK t \in Task : ReceivePack(t)
    BY <1>3
  <2>2. ref' = task[t].new /\ task[t].pc = "command" /\ UNCHANGED <<cache, commits>>
    BY <2>1 DEF ReceivePack, Executed, Refused
  <2>3. ref \in {commits[task[t].new].parent, task[t].new} /\ task[t].new \in Pushed
    BY <2>2 DEF TurnInv, PushInv, Pushing, UnderWay, Pushed
  <2> QED
    BY <2>1, <2>2, <2>3
<1>4. CASE LateCommand
  <2>1. PICK c \in late : Executed(c) \/ Refused(c) \/ UNCHANGED <<ref, store>>
    BY <1>4 DEF LateCommand
  <2>2. ref' = c.new /\ UNCHANGED <<cache, commits>>
    BY <1>4, <2>1 DEF LateCommand, Executed, Refused
  <2>3. ref \in {commits[c.new].parent, c.new} /\ c.new \in Pushed
    BY DEF TurnInv, LateInv, UnderWay, Pushed
  <2> QED
    BY <1>4, <2>2, <2>3
<1> QED
  BY <1>2, <1>3, <1>4

\* A push of one client never takes a commit off the branch, though the old
\* value in its command is whatever the server has just advertised
\* (transport.rs 515-519).
THEOREM BranchGrows ==
  ASSUME OneClient
  PROVE  Spec => BranchOnlyGrows
<1>1. IInv /\ TurnInv /\ [Next]_vars => [MovesForward]_ref
  <2> SUFFICES ASSUME IInv, TurnInv, Next, ref' # ref
               PROVE  MovesForward
    BY DEF vars
  <2>1. ref' \in Pushed /\ ref = commits[ref'].parent /\ commits' = commits
    BY OnlyCommandsMove
  <2> DEFINE x == ref'
  <2>2. x \in Pushed /\ ref = commits[x].parent
    BY <2>1
  <2> HIDE DEF x
  <2>3. ref \in Commit /\ Ancestors(commits, x) = {x} \cup Ancestors(commits, ref)
    BY <2>2, PushedChild
  <2>4. ref \in Ancestors(commits, ref)
    BY <2>3, SelfIn DEF IInv, TypeOK
  <2> QED
    BY <2>1, <2>3, <2>4 DEF MovesForward, x
<1> QED
  BY <1>1, TurnsHold, InvariantHolds, PTL DEF Spec, BranchOnlyGrows
===============================================================================
