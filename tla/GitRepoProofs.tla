----------------------------- MODULE GitRepoProofs -----------------------------
(***************************************************************************)
(* Proofs about GitRepo for any number of requests, commits and objects,   *)
(* any bound, any set of faults and either setting of the remote.          *)
(*                                                                         *)
(* IInv (module GitRepoProperties) is inductive.  A step that leaves the   *)
(* remote and the history alone preserves it if what it puts into the      *)
(* cache is at the remote and the new state of its task is right           *)
(* (LocalStep); the steps left are those of the remote, of Build, of other *)
(* clients and the restart.                                                *)
(***************************************************************************)
EXTENDS GitRepoProperties, TLAPS

\* A command that a task sent is one the remote can execute.
LEMMA SentIsRight ==
  ASSUME IInv, NEW tasks \in SUBSET Task, NEW c \in SentBy(tasks)
  PROVE  c \in CommandType /\ PackComplete(c)
<1>1. PICK t \in tasks : task[t].pc = "command" /\ c = Sent(t)
  BY DEF SentBy
<1>2. task[t] \in TaskType /\ PackComplete(task[t])
  BY <1>1 DEF IInv, TypeOK, TaskInv, PushComplete, Pushing
<1>3. /\ c.of = t /\ c.adv = task[t].adv /\ c.new = task[t].new /\ c.buf = task[t].buf
  BY <1>1 DEF Sent
<1>4. c \in CommandType
  BY <1>1, <1>2 DEF Sent, CommandType, TaskType
<1> QED
  BY <1>2, <1>3, <1>4 DEF PackComplete

\* A task in a state that is of its type and satisfies its invariant, in a step
\* that changes neither the remote nor the commits, but may leave a command to
\* the remote.
LEMMA LocalStep ==
  ASSUME IInv, NEW t \in Task, NEW s \in TaskType,
         Step(t, s), UNCHANGED <<ref, store, commits>>,
         late' = late \/ late' = late \cup SentBy({t}),
         head' \in Commit \cap store, objects' \subseteq store,
         TaskInv(s), ReadSound(s)
  PROVE  IInv'
<1>1. task' = [task EXCEPT ![t] = s] /\ task \in [Task -> TaskType]
  BY DEF Step, IInv, TypeOK
<1>2. \A c \in late' : c \in CommandType /\ PackComplete(c)
  BY SentIsRight DEF IInv, TypeOK
<1>3. TypeOK'
  BY <1>1, <1>2 DEF IInv, TypeOK
<1>4. (\A c \in late : PackComplete(c))'
  BY <1>2 DEF PackComplete, Complete, Made, TreeOf
<1>5. RemoteIntact' /\ CacheOnRemote' /\ HistoryIsFaithful'
  BY DEF IInv, RemoteIntact, CacheOnRemote, HistoryIsFaithful, Complete, Made, TreeOf
<1>6. \A u \in Task : task'[u] = s \/ task'[u] = task[u]
  BY <1>1
<1>7. ReadsSound'
  BY <1>6 DEF IInv, ReadsSound, ReadSound, TreeOf
<1>8. (\A u \in Task : TaskInv(task[u]))'
  BY <1>6, ZenonT(60)
  DEF IInv, TaskInv, BaseKnown, ReceivedKnown, PushComplete, UnpackedIfReported,
      RequestKept, PackComplete, Complete, Made, TreeOf
<1> QED
  BY <1>3, <1>4, <1>5, <1>7, <1>8 DEF IInv

\* The first rounds of both retry loops are within their bounds.
LEMMA Rounds ==
  0 \in 0..MaxAttempts /\ 1 \in 0..MaxAttempts /\ 0 \in 0..MaxTries /\ 1 \in 0..MaxTries
  BY BoundAssumption

LEMMA NotStartedType == NotStarted \in TaskType
  BY Rounds DEF NotStarted, TaskType, Phases, Answers

\* What the invariant says of one task and of the cache.
LEMMA Now ==
  ASSUME IInv, NEW t \in Task
  PROVE  /\ task[t] \in TaskType /\ TaskInv(task[t]) /\ ReadSound(task[t])
         /\ head \in Commit \cap store /\ objects \subseteq store
         /\ ref \in Commit \cap store
  BY DEF IInv, TypeOK, CacheOnRemote, RemoteIntact, ReadsSound

\* A commit of the remote has been made, and its tree is one.
LEMMA KnownCommit ==
  ASSUME IInv, NEW c \in Commit \cap store
  PROVE  Made(c) /\ commits[c] \in CommitType /\ TreeOf(c) \in Tree
         /\ Closure(TreeOf(c)) \subseteq store
  BY DEF IInv, TypeOK, RemoteIntact, Complete, Made, TreeOf, CommitType

\* An answer that is not that of a read, in a task that is done.
LEMMA FinishIsRight ==
  ASSUME IInv, NEW t \in Task, NEW a \in Answers, a # "read"
  PROVE  /\ Finish(t, a) \in TaskType
         /\ TaskInv(Finish(t, a)) /\ ReadSound(Finish(t, a))
<1>1. task[t].req \in Edit \cup Read \cup {Nothing}
  BY Now DEF TaskType
<1>2. /\ Finish(t, a).pc = "done" /\ Finish(t, a).answer = a
      /\ Finish(t, a).base = Nothing /\ Finish(t, a).report = {}
  BY DEF Finish, NotStarted
<1>3. Finish(t, a) \in TaskType
  BY <1>1, NotStartedType DEF Finish, TaskType, Phases
<1> QED
  BY <1>2, <1>3 DEF TaskInv, BaseKnown, ReceivedKnown, PushComplete, UnpackedIfReported,
                    RequestKept, ReadSound, Receiving, Pushing

LEMMA FinishStep ==
  ASSUME IInv, NEW t \in Task, NEW a \in Answers, a # "read",
         Step(t, Finish(t, a)), UNCHANGED <<cache, ref, store, commits>>,
         late' = late \/ late' = late \cup SentBy({t})
  PROVE  IInv'
  BY Now, FinishIsRight, LocalStep DEF cache

-------------------------------------------------------------------------------
LEMMA SubmitStep ==
  ASSUME IInv, NEW t \in Task, Submit(t)
  PROVE  IInv'
<1>1. PICK r \in Edit \cup Read :
        Step(t, [NotStarted EXCEPT !.pc = "check", !.req = r, !.base = head])
  BY DEF Submit
<1> DEFINE s == [NotStarted EXCEPT !.pc = "check", !.req = r, !.base = head]
<1>2. head \in Commit \cap store /\ objects \subseteq store
  BY Now
<1>3. s \in TaskType
  BY <1>2, NotStartedType DEF TaskType, Phases
<1>4. TaskInv(s) /\ ReadSound(s)
  BY <1>2, SetAssumption
  DEF NotStarted, TaskInv, BaseKnown, ReceivedKnown, PushComplete, UnpackedIfReported,
      RequestKept, ReadSound, Receiving, Pushing
<1> QED
  BY <1>1, <1>2, <1>3, <1>4, LocalStep DEF Submit, cache, remote

LEMMA CheckStep ==
  ASSUME IInv, NEW t \in Task, Check(t)
  PROVE  IInv'
<1> DEFINE r     == task[t].req
           held  == objects \cap Obj
           base  == task[t].base
           tree  == TreeAt(base)
           check == Precheck(held, tree, r)
<1>1. /\ task[t] \in TaskType /\ task[t].pc = "check" /\ TaskInv(task[t])
      /\ head \in Commit \cap store /\ objects \subseteq store
  BY Now DEF Check
<1>2. base \in Commit \cap store /\ r \in Edit \cup Read
  BY <1>1 DEF TaskInv, BaseKnown, RequestKept, TaskType
<1>3. TreeOf(base) \in Tree /\ tree \in {Nothing, TreeOf(base)}
  BY <1>2, KnownCommit DEF TreeAt, TreeOf
<1>4. CASE r \in Read /\ Step(t, [Finish(t, "read") EXCEPT !.base = base,
                                                           !.body = ReadFile(held, tree, r)])
  <2> DEFINE s == [Finish(t, "read") EXCEPT !.base = base, !.body = ReadFile(held, tree, r)]
  <2>1. /\ ReadFile(held, tree, r) \in Obj \cup {Nothing}
        /\ ReadFile(held, tree, r) \in {Nothing, ReadFile(Closure(TreeOf(base)), TreeOf(base), r)}
    BY <1>3, <1>4, ReadAssumption
  <2>2. s \in TaskType
    BY <1>2, <2>1, NotStartedType DEF Finish, TaskType, Phases, Answers
  <2>3. /\ s.pc = "done" /\ s.base = base /\ s.body = ReadFile(held, tree, r)
        /\ s.req = r /\ s.answer = "read"
    BY DEF Finish, NotStarted
  <2>4. TaskInv(s)
    BY <1>2, <1>4, <2>3, SetAssumption
    DEF TaskInv, BaseKnown, ReceivedKnown, PushComplete, UnpackedIfReported, RequestKept,
        Receiving, Pushing
  <2>5. ReadSound(s)
    BY <2>1, <2>3 DEF ReadSound
  <2> QED
    BY <1>1, <1>4, <2>2, <2>4, <2>5, LocalStep DEF Check, cache, remote
<1>5. CASE r \in Edit /\ Step(t, [task[t] EXCEPT !.pc = "fetch", !.attempt = 1, !.base = Nothing])
  <2> DEFINE s == [task[t] EXCEPT !.pc = "fetch", !.attempt = 1, !.base = Nothing]
  <2>1. s \in TaskType
    BY <1>1, Rounds DEF TaskType, Phases
  <2>2. TaskInv(s) /\ ReadSound(s)
    <3>1. /\ s.pc = "fetch" /\ s.base = Nothing /\ s.req = r /\ s.answer = task[t].answer
      BY <1>1 DEF TaskType
    <3>2. task[t].answer # "read"
      BY <1>1, <1>5, SetAssumption DEF TaskInv, RequestKept
    <3> QED
      BY <1>5, <3>1, <3>2
      DEF TaskInv, BaseKnown, ReceivedKnown, PushComplete, UnpackedIfReported, RequestKept,
          ReadSound, Receiving, Pushing
  <2> QED
    BY <1>1, <1>5, <2>1, <2>2, LocalStep DEF Check, cache, remote
<1>6. CASE r \in Edit /\ check # "go" /\ Step(t, Finish(t, check))
  <2>1. check \in Answers /\ check # "read"
    BY <1>3, <1>6, PrecheckAssumption DEF Answers
  <2> QED
    BY <1>6, <2>1, FinishStep DEF Check, remote
<1> QED
  BY <1>4, <1>5, <1>6 DEF Check

-------------------------------------------------------------------------------
\* A request past its checks writes, and has no answer of a read.
LEMMA Writing ==
  ASSUME IInv, NEW t \in Task, task[t].pc \notin {"idle", "check", "done"}
  PROVE  task[t].req \in Edit /\ task[t].answer # "read"
  BY Now, SetAssumption DEF TaskInv, RequestKept

LEMMA StartFetchStep ==
  ASSUME IInv, NEW t \in Task, StartFetch(t)
  PROVE  IInv'
<1> DEFINE s == [task[t] EXCEPT !.pc = "upload", !.base = head, !.tries = 1]
<1>1. /\ task[t] \in TaskType /\ task[t].pc = "fetch"
      /\ head \in Commit \cap store /\ objects \subseteq store
  BY Now DEF StartFetch
<1>2. task[t].req \in Edit /\ task[t].answer # "read"
  BY <1>1, Writing
<1>3. s \in TaskType
  BY <1>1, Rounds DEF TaskType, Phases
<1>4. /\ s.pc = "upload" /\ s.base = head /\ s.req \in Edit /\ s.answer # "read"
  BY <1>1, <1>2 DEF TaskType
<1>5. TaskInv(s) /\ ReadSound(s)
  BY <1>1, <1>4, SetAssumption
  DEF TaskInv, BaseKnown, ReceivedKnown, PushComplete, UnpackedIfReported, RequestKept,
      ReadSound, Receiving, Pushing
<1> QED
  BY <1>1, <1>3, <1>5, LocalStep DEF StartFetch, cache, remote

\* What upload-pack sends is at the remote.
LEMMA NewObjectsKnown ==
  ASSUME IInv, NEW have \in Commit \cap store, NEW want \in Commit \cap store
  PROVE  NewObjects(have, want) \subseteq store \cap (Commit \cup Obj)
<1>1. Closure(commits[want].tree) \subseteq store \cap Obj
  BY KnownCommit, ReachAssumption DEF TreeOf
<1> QED
  BY <1>1 DEF NewObjects

LEMMA UploadStep ==
  ASSUME IInv, NEW t \in Task, Upload(t)
  PROVE  IInv'
<1>1. /\ task[t] \in TaskType /\ task[t].pc = "upload" /\ TaskInv(task[t])
      /\ head \in Commit \cap store /\ objects \subseteq store /\ ref \in Commit \cap store
  BY Now DEF Upload
<1>2. task[t].req \in Edit /\ task[t].answer # "read"
  BY <1>1, Writing
<1>3. CASE Step(t, [task[t] EXCEPT !.pc = "merge", !.new = ref,
                                   !.buf = NewObjects(task[t].base, ref)])
  <2> DEFINE s == [task[t] EXCEPT !.pc = "merge", !.new = ref,
                                  !.buf = NewObjects(task[t].base, ref)]
  <2>1. task[t].base \in Commit \cap store
    BY <1>1 DEF TaskInv, BaseKnown, TaskType
  <2>2. NewObjects(task[t].base, ref) \subseteq store \cap (Commit \cup Obj)
    BY <1>1, <2>1, NewObjectsKnown
  <2>3. s \in TaskType
    BY <1>1, <2>2 DEF TaskType, Phases
  <2>4. /\ s.pc = "merge" /\ s.new = ref /\ s.base = task[t].base /\ s.req \in Edit
        /\ s.answer # "read" /\ s.buf = NewObjects(task[t].base, ref)
    BY <1>1, <1>2 DEF TaskType
  <2>5. TaskInv(s) /\ ReadSound(s)
    BY <1>1, <2>1, <2>2, <2>4
    DEF TaskInv, BaseKnown, ReceivedKnown, PushComplete, UnpackedIfReported, RequestKept,
        ReadSound, Pushing
  <2> QED
    BY <1>1, <1>3, <2>3, <2>5, LocalStep DEF Upload, cache, remote
<1>4. CASE Step(t, NothingNew(t))
  <2> DEFINE s == NothingNew(t)
  <2>1. s \in TaskType
    BY <1>1 DEF NothingNew, TaskType, Phases
  <2>2. s.pc = "claim" /\ s.base = Nothing /\ s.req \in Edit /\ s.answer # "read"
    BY <1>1, <1>2 DEF NothingNew, TaskType
  <2>3. TaskInv(s) /\ ReadSound(s)
    BY <2>2
    DEF TaskInv, BaseKnown, ReceivedKnown, PushComplete, UnpackedIfReported, RequestKept,
        ReadSound, Receiving, Pushing
  <2> QED
    BY <1>1, <1>4, <2>1, <2>3, LocalStep DEF Upload, cache, remote
<1>5. CASE Step(t, Finish(t, "error"))
  BY <1>5, FinishStep DEF Upload, Answers, remote
<1> QED
  BY <1>3, <1>4, <1>5 DEF Upload

LEMMA MergeStep ==
  ASSUME IInv, NEW t \in Task, Merge(t)
  PROVE  IInv'
<1> DEFINE merged == objects \cup task[t].buf
           new    == task[t].new
           kept   == {new} \cup Reach(merged \cap Obj, commits[new].tree)
           s      == [task[t] EXCEPT !.pc = "setHead", !.buf = merged \cap kept]
<1>1. /\ task[t] \in TaskType /\ task[t].pc = "merge" /\ TaskInv(task[t])
      /\ head \in Commit \cap store /\ objects \subseteq store
      /\ objects \subseteq Commit \cup Obj
  BY Now DEF Merge, IInv, TypeOK
<1>2. task[t].req \in Edit /\ task[t].answer # "read"
  BY <1>1, Writing
<1>3. CASE Step(t, s)
  <2>1. merged \subseteq store \cap (Commit \cup Obj)
    BY <1>1 DEF TaskInv, ReceivedKnown, Receiving, TaskType
  <2>2. merged \cap kept \subseteq store \cap (Commit \cup Obj)
    BY <2>1
  <2>3. s \in TaskType
    <3> HIDE DEF merged, kept
    <3> QED BY <1>1, <2>2 DEF TaskType, Phases
  <2>4. /\ s.pc = "setHead" /\ s.new = new /\ s.base = task[t].base /\ s.req \in Edit
        /\ s.answer # "read" /\ s.buf = merged \cap kept
    BY <1>1, <1>2 DEF TaskType
  <2>5. TaskInv(s) /\ ReadSound(s)
    <3> HIDE DEF merged, kept, s
    <3> QED
      BY <1>1, <2>2, <2>4
      DEF TaskInv, BaseKnown, ReceivedKnown, PushComplete, UnpackedIfReported, RequestKept,
          ReadSound, Receiving, Pushing
  <2> QED
    BY <1>1, <1>3, <2>3, <2>5, LocalStep DEF Merge, cache, remote
<1>4. CASE Step(t, Finish(t, "error"))
  BY <1>4, FinishStep DEF Merge, Answers, remote
<1> QED
  BY <1>3, <1>4 DEF Merge

LEMMA SetHeadStep ==
  ASSUME IInv, NEW t \in Task, SetHead(t)
  PROVE  IInv'
<1> DEFINE s == [task[t] EXCEPT !.pc = "setObjects"]
<1>1. /\ task[t] \in TaskType /\ task[t].pc = "setHead" /\ TaskInv(task[t])
      /\ objects \subseteq store
  BY Now DEF SetHead
<1>2. task[t].req \in Edit /\ task[t].answer # "read"
  BY <1>1, Writing
<1>3. task[t].new \in Commit \cap store /\ task[t].buf \subseteq store
  BY <1>1 DEF TaskInv, ReceivedKnown, Receiving
<1>4. s \in TaskType
  BY <1>1 DEF TaskType, Phases
<1>5. /\ s.pc = "setObjects" /\ s.new = task[t].new /\ s.base = task[t].base
      /\ s.req \in Edit /\ s.answer # "read" /\ s.buf = task[t].buf
  BY <1>1, <1>2 DEF TaskType
<1>6. TaskInv(s) /\ ReadSound(s)
  BY <1>1, <1>3, <1>5
  DEF TaskInv, BaseKnown, ReceivedKnown, PushComplete, UnpackedIfReported, RequestKept,
      ReadSound, Pushing
<1> QED
  BY <1>1, <1>3, <1>4, <1>6, LocalStep DEF SetHead, remote

LEMMA SetObjectsStep ==
  ASSUME IInv, NEW t \in Task, SetObjects(t)
  PROVE  IInv'
<1> DEFINE s == [task[t] EXCEPT !.pc = "claim", !.base = Nothing, !.new = Nothing, !.buf = {}]
<1>1. /\ task[t] \in TaskType /\ task[t].pc = "setObjects" /\ TaskInv(task[t])
      /\ head \in Commit \cap store
  BY Now DEF SetObjects
<1>2. task[t].req \in Edit /\ task[t].answer # "read"
  BY <1>1, Writing
<1>3. task[t].buf \subseteq store
  BY <1>1 DEF TaskInv, ReceivedKnown, Receiving
<1>4. s \in TaskType
  BY <1>1 DEF TaskType, Phases
<1>5. s.pc = "claim" /\ s.base = Nothing /\ s.req \in Edit /\ s.answer # "read"
  BY <1>1, <1>2 DEF TaskType
<1>6. TaskInv(s) /\ ReadSound(s)
  BY <1>5
  DEF TaskInv, BaseKnown, ReceivedKnown, PushComplete, UnpackedIfReported, RequestKept,
      ReadSound, Receiving, Pushing
<1> QED
  BY <1>1, <1>3, <1>4, <1>6, LocalStep DEF SetObjects, remote

LEMMA ClaimHeadStep ==
  ASSUME IInv, NEW t \in Task, ClaimHead(t)
  PROVE  IInv'
<1> DEFINE s == [task[t] EXCEPT !.pc = "build", !.base = head]
<1>1. /\ task[t] \in TaskType /\ task[t].pc = "claim"
      /\ head \in Commit \cap store /\ objects \subseteq store
  BY Now DEF ClaimHead
<1>2. task[t].req \in Edit /\ task[t].answer # "read"
  BY <1>1, Writing
<1>3. s \in TaskType
  BY <1>1 DEF TaskType, Phases
<1>4. s.pc = "build" /\ s.base = head /\ s.req \in Edit /\ s.answer # "read"
  BY <1>1, <1>2 DEF TaskType
<1>5. TaskInv(s) /\ ReadSound(s)
  BY <1>1, <1>4, SetAssumption
  DEF TaskInv, BaseKnown, ReceivedKnown, PushComplete, UnpackedIfReported, RequestKept,
      ReadSound, Receiving, Pushing
<1> QED
  BY <1>1, <1>3, <1>5, LocalStep DEF ClaimHead, cache, remote

\* What a push is about does not change between its steps.
LEMMA StillPushing ==
  ASSUME IInv, NEW t \in Task, task[t].pc \in Pushing, NEW s \in TaskType,
         s.pc \in Pushing, s.new = task[t].new, s.buf = task[t].buf, s.base = task[t].base,
         s.req = task[t].req, s.answer # "read",
         s.pc = "report" /\ "unpack ok" \in s.report => s.buf \subseteq store
  PROVE  TaskInv(s) /\ ReadSound(s)
<1>1. TaskInv(task[t])
  BY Now
<1> QED
  BY <1>1
  DEF TaskInv, BaseKnown, ReceivedKnown, PushComplete, UnpackedIfReported, RequestKept,
      PackComplete, ReadSound, Receiving, Pushing

LEMMA AdvertiseStep ==
  ASSUME IInv, NEW t \in Task, Advertise(t)
  PROVE  IInv'
<1> DEFINE s == [task[t] EXCEPT !.pc = "command", !.adv = ref]
<1>1. /\ task[t] \in TaskType /\ task[t].pc = "push" /\ ref \in Commit
      /\ head \in Commit \cap store /\ objects \subseteq store
  BY Now DEF Advertise
<1>2. task[t].answer # "read"
  BY <1>1, Writing
<1>3. s \in TaskType
  BY <1>1 DEF TaskType, Phases
<1>4. /\ s.pc = "command" /\ s.new = task[t].new /\ s.buf = task[t].buf
      /\ s.base = task[t].base /\ s.req = task[t].req /\ s.answer # "read"
  BY <1>1, <1>2 DEF TaskType
<1>5. TaskInv(s) /\ ReadSound(s)
  BY <1>1, <1>3, <1>4, StillPushing DEF Pushing
<1> QED
  BY <1>1, <1>3, <1>5, LocalStep DEF Advertise, cache, remote

\* A further round of the loop in do_push, or its last error.
LEMMA PushAgainStep ==
  ASSUME IInv, NEW t \in Task, task[t].pc \in Pushing, Step(t, TryAgain(t, "push")),
         UNCHANGED <<cache, ref, store, commits>>,
         late' = late \/ late' = late \cup SentBy({t})
  PROVE  IInv'
<1> DEFINE s == [task[t] EXCEPT !.pc = "push", !.tries = @ + 1, !.adv = Nothing, !.report = {}]
<1>1. /\ task[t] \in TaskType
      /\ head \in Commit \cap store /\ objects \subseteq store
  BY Now
<1>2. task[t].answer # "read"
  BY Writing DEF Pushing
<1>3. CASE task[t].tries < MaxTries
  <2>1. task[t].tries + 1 \in 0..MaxTries
    <3>1. task[t].tries \in 0..MaxTries
      BY <1>1 DEF TaskType
    <3> QED
      BY <1>3, <3>1, BoundAssumption
  <2>2. s \in TaskType
    BY <1>1, <2>1 DEF TaskType, Phases
  <2>3. /\ s.pc = "push" /\ s.new = task[t].new /\ s.buf = task[t].buf
        /\ s.base = task[t].base /\ s.req = task[t].req /\ s.answer # "read"
    BY <1>1, <1>2 DEF TaskType
  <2>4. TaskInv(s) /\ ReadSound(s)
    BY <2>2, <2>3, StillPushing DEF Pushing
  <2> QED
    BY <1>1, <1>3, <2>2, <2>4, LocalStep DEF TryAgain, cache
<1>4. CASE ~(task[t].tries < MaxTries)
  BY <1>4, FinishStep DEF TryAgain, Answers
<1> QED
  BY <1>3, <1>4

LEMMA ReportStep ==
  ASSUME IInv, NEW t \in Task, Report(t)
  PROVE  IInv'
<1>1. /\ task[t] \in TaskType /\ task[t].pc = "report" /\ TaskInv(task[t])
      /\ head \in Commit \cap store /\ objects \subseteq store
  BY Now DEF Report
<1>2. task[t].req \in Edit /\ task[t].answer # "read"
  BY <1>1, Writing
<1>3. CASE /\ Classify(task[t].report) = "pushed"
           /\ objects' = objects \cup task[t].buf /\ head' = task[t].new
           /\ Step(t, [Finish(t, "ok") EXCEPT !.new = task[t].new])
  <2> DEFINE s == [Finish(t, "ok") EXCEPT !.new = task[t].new]
  <2>1. "unpack ok" \in task[t].report
    BY <1>3 DEF Classify, Contains
  <2>2. task[t].buf \subseteq store
    BY <1>1, <2>1 DEF TaskInv, UnpackedIfReported
  <2>3. task[t].new \in Commit \cap store
    BY <1>1, <2>2 DEF TaskInv, PushComplete, PackComplete, Pushing
  <2>4. Finish(t, "ok") \in TaskType
    BY FinishIsRight DEF Answers
  <2>5. s \in TaskType
    BY <2>3, <2>4 DEF TaskType
  <2>6. /\ s.pc = "done" /\ s.base = Nothing /\ s.answer = "ok" /\ s.report = {}
    BY DEF Finish, NotStarted
  <2>7. TaskInv(s) /\ ReadSound(s)
    BY <2>6
    DEF TaskInv, BaseKnown, ReceivedKnown, PushComplete, UnpackedIfReported, RequestKept,
        ReadSound, Receiving, Pushing
  <2> QED
    BY <1>1, <1>3, <2>2, <2>3, <2>5, <2>7, LocalStep DEF Report, remote
<1>4. CASE Step(t, AttemptAgain(t)) /\ UNCHANGED cache
  <2>1. CASE task[t].attempt < MaxAttempts
    <3> DEFINE s == [NotStarted EXCEPT !.pc = "fetch", !.req = task[t].req,
                                       !.attempt = task[t].attempt + 1]
    <3>1. task[t].attempt + 1 \in 0..MaxAttempts
      <4>1. task[t].attempt \in 0..MaxAttempts
        BY <1>1 DEF TaskType
      <4> QED
        BY <2>1, <4>1, BoundAssumption
    <3>2. s \in TaskType
      BY <1>2, <3>1, NotStartedType DEF TaskType, Phases
    <3>3. /\ s.pc = "fetch" /\ s.base = Nothing /\ s.req \in Edit /\ s.answer = "none"
      BY <1>2 DEF NotStarted
    <3>4. TaskInv(s) /\ ReadSound(s)
      BY <3>3
      DEF TaskInv, BaseKnown, ReceivedKnown, PushComplete, UnpackedIfReported, RequestKept,
          ReadSound, Receiving, Pushing
    <3> QED
      BY <1>1, <1>4, <2>1, <3>2, <3>4, LocalStep DEF Report, AttemptAgain, cache, remote
  <2>2. CASE ~(task[t].attempt < MaxAttempts)
    BY <1>4, <2>2, FinishStep DEF Report, AttemptAgain, Answers, remote
  <2> QED
    BY <2>1, <2>2
<1>5. CASE Step(t, TryAgain(t, "push")) /\ UNCHANGED cache
  BY <1>1, <1>5, PushAgainStep DEF Report, Pushing, remote
<1> QED
  BY <1>3, <1>4, <1>5 DEF Report

LEMMA SessionFailedStep ==
  ASSUME IInv, NEW t \in Task, SessionFailed(t)
  PROVE  IInv'
<1>1. CASE task[t].pc = "upload" /\ Step(t, TryAgain(t, "upload"))
  <2> DEFINE s == [task[t] EXCEPT !.pc = "upload", !.tries = @ + 1, !.adv = Nothing,
                                  !.report = {}]
  <2>1. /\ task[t] \in TaskType /\ TaskInv(task[t])
        /\ head \in Commit \cap store /\ objects \subseteq store
    BY Now
  <2>2. task[t].req \in Edit /\ task[t].answer # "read"
    BY <1>1, Writing
  <2>3. CASE task[t].tries < MaxTries
    <3>1. task[t].tries + 1 \in 0..MaxTries
      <4>1. task[t].tries \in 0..MaxTries
        BY <2>1 DEF TaskType
      <4> QED
        BY <2>3, <4>1, BoundAssumption
    <3>2. s \in TaskType
      BY <2>1, <3>1 DEF TaskType, Phases
    <3>3. /\ s.pc = "upload" /\ s.base = task[t].base /\ s.req \in Edit /\ s.answer # "read"
      BY <2>1, <2>2 DEF TaskType
    <3>4. TaskInv(s) /\ ReadSound(s)
      BY <1>1, <2>1, <3>3
      DEF TaskInv, BaseKnown, ReceivedKnown, PushComplete, UnpackedIfReported, RequestKept,
          ReadSound, Receiving, Pushing
    <3> QED
      BY <1>1, <2>1, <2>3, <3>2, <3>4, LocalStep DEF SessionFailed, TryAgain, cache, remote
  <2>4. CASE ~(task[t].tries < MaxTries)
    BY <1>1, <2>4, FinishStep DEF SessionFailed, TryAgain, Answers, remote
  <2> QED
    BY <2>3, <2>4
<1>2. CASE task[t].pc \in {"push", "command"} /\ Step(t, TryAgain(t, "push"))
  BY <1>2, PushAgainStep DEF SessionFailed, Pushing, remote
<1> QED
  BY <1>1, <1>2 DEF SessionFailed

LEMMA LoseReportStep ==
  ASSUME IInv, NEW t \in Task, LoseReport(t)
  PROVE  IInv'
<1> DEFINE s == [task[t] EXCEPT !.report = {}]
<1>1. /\ task[t] \in TaskType /\ task[t].pc = "report"
      /\ head \in Commit \cap store /\ objects \subseteq store
  BY Now DEF LoseReport
<1>2. task[t].answer # "read"
  BY <1>1, Writing
<1>3. s \in TaskType
  BY <1>1 DEF TaskType
<1>4. /\ s.pc = "report" /\ s.new = task[t].new /\ s.buf = task[t].buf /\ s.report = {}
      /\ s.base = task[t].base /\ s.req = task[t].req /\ s.answer # "read"
  BY <1>1, <1>2 DEF TaskType
<1>5. TaskInv(s) /\ ReadSound(s)
  BY <1>1, <1>3, <1>4, StillPushing DEF Pushing
<1> QED
  BY <1>1, <1>3, <1>5, LocalStep DEF LoseReport, cache, remote

\* A task that no longer waits for its command leaves it to the remote.
LEMMA TimedOutStep ==
  ASSUME IInv, NEW t \in Task, TimedOut(t)
  PROVE  IInv'
  BY PushAgainStep DEF TimedOut, Pushing

LEMMA CancelStep ==
  ASSUME IInv, NEW t \in Task, Cancel(t)
  PROVE  IInv'
  BY FinishStep DEF Cancel, Answers

-------------------------------------------------------------------------------
\* A task that does not move keeps its invariant when the remote gains objects
\* and commits that were not made are.
LEMMA OthersKeep ==
  ASSUME IInv, NEW u \in Task, task'[u] = task[u], store \subseteq store',
         \A c \in Commit : Made(c) => commits'[c] = commits[c]
  PROVE  TaskInv(task[u])' /\ ReadSound(task[u])'
<1>1. task[u] \in TaskType /\ TaskInv(task[u]) /\ ReadSound(task[u])
  BY Now
<1>2. \A c \in Commit : Made(c) => Made(c)' /\ TreeOf(c)' = TreeOf(c)
  BY DEF Made, TreeOf
<1>3. BaseKnown(task[u])' /\ ReceivedKnown(task[u])' /\ UnpackedIfReported(task[u])'
  BY <1>1 DEF TaskInv, BaseKnown, ReceivedKnown, UnpackedIfReported
<1>4. PushComplete(task[u])'
  BY <1>1, <1>2 DEF TaskInv, PushComplete, PackComplete, Complete, Made, TreeOf, TaskType
<1>5. RequestKept(task[u])'
  BY <1>1 DEF TaskInv, RequestKept
<1>6. ReadSound(task[u])'
  <2>1. task[u].answer = "read" => task[u].base \in Commit \cap store
    BY <1>1 DEF TaskInv, BaseKnown, RequestKept, TaskType
  <2>2. task[u].answer = "read" => commits'[task[u].base] = commits[task[u].base]
    BY <2>1, KnownCommit
  <2> QED
    BY <1>1, <2>2 DEF ReadSound, TreeOf
<1> QED
  BY <1>3, <1>4, <1>5, <1>6 DEF TaskInv

\* So does a command that was left to the remote.
LEMMA LateKeep ==
  ASSUME IInv, NEW c \in late, store \subseteq store',
         \A d \in Commit : Made(d) => commits'[d] = commits[d]
  PROVE  PackComplete(c)'
<1>1. PackComplete(c)
  BY DEF IInv
<1>2. \A d \in Commit : Made(d) => Made(d)' /\ TreeOf(d)' = TreeOf(d)
  BY DEF Made, TreeOf
<1> QED
  BY <1>1, <1>2 DEF PackComplete, Complete, Made, TreeOf

\* The remote after it has unpacked a command's pack.
LEMMA UnpackedIsIntact ==
  ASSUME IInv, NEW new \in Commit, NEW buf \in SUBSET (Commit \cup Obj),
         buf \cap Commit = {new}, Complete(new, store \cup buf),
         UNCHANGED <<head, objects, commits>>,
         store' \in {store, store \cup buf}, ref' \in Commit \cap store'
  PROVE  RemoteIntact' /\ CacheOnRemote' /\ HistoryIsFaithful'
<1>1. ASSUME NEW c \in store' \cap Commit
      PROVE  Complete(c, store)'
  <2>1. c \in store \/ (c = new /\ store' = store \cup buf)
    OBVIOUS
  <2>2. CASE c \in store
    BY <2>2 DEF IInv, RemoteIntact, Complete, Made, TreeOf
  <2>3. CASE c = new /\ store' = store \cup buf
    BY <2>3 DEF Complete, Made, TreeOf
  <2> QED
    BY <2>1, <2>2, <2>3
<1>2. RemoteIntact'
  BY <1>1 DEF RemoteIntact
<1>3. CacheOnRemote' /\ HistoryIsFaithful'
  BY DEF IInv, CacheOnRemote, HistoryIsFaithful, Made, TreeOf
<1> QED
  BY <1>2, <1>3

LEMMA LateCommandStep ==
  ASSUME IInv, LateCommand
  PROVE  IInv'
<1>1. PICK c \in late :
        /\ late' = late \ {c}
        /\ Executed(c) \/ Refused(c) \/ UNCHANGED <<ref, store>>
  BY DEF LateCommand
<1>2. UNCHANGED <<head, objects, commits, task>>
  BY DEF LateCommand, cache
<1>3. c \in CommandType /\ PackComplete(c)
  BY DEF IInv, TypeOK
<1>4. ref \in Commit \cap store
  BY DEF IInv, TypeOK, RemoteIntact
<1>5. store' \in {store, store \cup c.buf} /\ ref' \in Commit \cap store'
  BY <1>1, <1>3, <1>4 DEF Executed, Refused, Unpack, PackComplete, Complete
<1>6. c.new \in Commit /\ c.buf \in SUBSET (Commit \cup Obj)
  BY <1>3 DEF PackComplete, CommandType
<1>7. RemoteIntact' /\ CacheOnRemote' /\ HistoryIsFaithful'
  BY <1>2, <1>3, <1>5, <1>6, UnpackedIsIntact DEF PackComplete
<1>8. TypeOK'
  BY <1>1, <1>2, <1>5, <1>6 DEF IInv, TypeOK
<1>9. \A u \in Task : TaskInv(task[u])' /\ ReadSound(task[u])'
  BY <1>2, <1>5, OthersKeep
<1>10. (\A d \in late : PackComplete(d))'
  BY <1>1, <1>2, <1>5, LateKeep
<1> QED
  BY <1>7, <1>8, <1>9, <1>10 DEF IInv, ReadsSound

LEMMA ReceivePackStep ==
  ASSUME IInv, NEW t \in Task, ReceivePack(t)
  PROVE  IInv'
<1> DEFINE new == task[t].new
           buf == task[t].buf
<1>1. /\ task[t] \in TaskType /\ task[t].pc = "command" /\ TaskInv(task[t])
      /\ head \in Commit \cap store /\ objects \subseteq store /\ ref \in Commit \cap store
  BY Now DEF ReceivePack
<1>2. task[t].req \in Edit /\ task[t].answer # "read"
  BY <1>1, Writing
<1>3. PICK lines \in SUBSET Lines :
        /\ Reported(t, lines)
        /\ \/ store' = store \cup buf /\ ref' \in {ref, new}
           \/ store' = store /\ ref' = ref /\ "unpack ok" \notin lines
  <2>1. /\ {"unpack ok", "ok"} \in SUBSET Lines /\ {"unpack ok", "ng"} \in SUBSET Lines
        /\ {"ng"} \in SUBSET Lines /\ {"non-fast-forward"} \in SUBSET Lines
    BY DEF Lines
  <2>2. "unpack ok" \notin {"ng"} /\ "unpack ok" \notin {"non-fast-forward"}
    OBVIOUS
  <2> QED
    BY <2>1, <2>2 DEF ReceivePack, Executed, Refused, Unpack
<1>4. /\ new \in Commit /\ buf \cap Commit = {new} /\ Complete(new, store \cup buf)
      /\ commits[new].parent \in store
  BY <1>1 DEF TaskInv, PushComplete, PackComplete, Pushing
<1>5. /\ UNCHANGED <<head, objects, commits, late>> /\ store \subseteq store'
      /\ ref' \in Commit \cap store' /\ store' \in {store, store \cup buf}
      /\ buf \in SUBSET (Commit \cup Obj)
  BY <1>1, <1>3, <1>4 DEF ReceivePack, cache, TaskType
<1>6. RemoteIntact' /\ CacheOnRemote' /\ HistoryIsFaithful'
  BY <1>4, <1>5, UnpackedIsIntact
<1> DEFINE s == [task[t] EXCEPT !.pc = "report", !.report = lines]
<1>7. s \in TaskType
  BY <1>1 DEF TaskType, Phases
<1>8. task' = [task EXCEPT ![t] = s] /\ task'[t] = s
  BY <1>3 DEF Reported, Step, IInv, TypeOK
<1>9. TypeOK'
  <2> HIDE DEF s
  <2> QED
    BY <1>5, <1>7, <1>8 DEF IInv, TypeOK
<1>10. TaskInv(task[t])' /\ ReadSound(task[t])'
  <2>1. /\ task'[t].pc = "report" /\ task'[t].report = lines /\ task'[t].new = new
        /\ task'[t].buf = buf /\ task'[t].base = task[t].base
        /\ task'[t].req \in Edit /\ task'[t].answer # "read"
    <3>1. task'[t] = [task[t] EXCEPT !.pc = "report", !.report = lines]
      BY <1>8
    <3> QED
      BY <1>1, <1>2, <3>1 DEF TaskType
  <2>2. BaseKnown(task[t])' /\ ReceivedKnown(task[t])' /\ RequestKept(task[t])'
        /\ ReadSound(task[t])'
    BY <1>1, <1>5, <2>1
    DEF TaskInv, BaseKnown, ReceivedKnown, RequestKept, ReadSound, Receiving
  <2>3. UnpackedIfReported(task[t])'
    BY <1>3, <2>1 DEF UnpackedIfReported
  <2>4. PushComplete(task[t])'
    BY <1>4, <1>5, <2>1 DEF PushComplete, PackComplete, Complete, Made, TreeOf
  <2> QED
    BY <2>2, <2>3, <2>4 DEF TaskInv
<1>11. ASSUME NEW u \in Task
       PROVE  TaskInv(task[u])' /\ ReadSound(task[u])'
  <2>1. CASE u = t
    BY <1>10, <2>1
  <2>2. CASE u # t
    <3>1. task'[u] = task[u]
      BY <1>8, <2>2 DEF IInv, TypeOK
    <3> QED
      BY <1>5, <3>1, OthersKeep
  <2> QED
    BY <2>1, <2>2
<1>12. (\A c \in late : PackComplete(c))'
  BY <1>5, LateKeep
<1> QED
  BY <1>6, <1>9, <1>11, <1>12 DEF IInv, ReadsSound

LEMMA BuildStep ==
  ASSUME IInv, NEW t \in Task, Build(t)
  PROVE  IInv'
<1> DEFINE base    == task[t].base
           edit    == task[t].req
           edited  == EditTree(objects \cap Obj, commits[base].tree, edit)
           content == CommitOf(base, edited.root, edit)
<1>1. /\ task[t] \in TaskType /\ task[t].pc = "build" /\ TaskInv(task[t])
      /\ head \in Commit \cap store /\ objects \subseteq store
  BY Now DEF Build
<1>2. edit \in Edit /\ task[t].answer # "read" /\ base \in Commit \cap store
  BY <1>1, Writing DEF TaskInv, BaseKnown, TaskType
<1>3. CASE Step(t, Finish(t, "error")) /\ UNCHANGED commits
  BY <1>3, FinishStep DEF Build, Answers, cache, remote
<1>4. ASSUME base \in objects, edited.ok,
             NEW c \in IdsFor(content),
             commits' = [commits EXCEPT ![c] = content],
             Step(t, [task[t] EXCEPT !.pc = "push", !.new = c, !.tries = 1,
                                     !.buf = {c} \cup edited.pack])
      PROVE  IInv'
  <2> DEFINE s == [task[t] EXCEPT !.pc = "push", !.new = c, !.tries = 1,
                                  !.buf = {c} \cup edited.pack]
  <2>1. /\ TreeOf(base) \in Tree /\ Closure(TreeOf(base)) \subseteq store /\ Made(base)
    BY <1>2, KnownCommit
  <2>2. /\ edited.root \in Tree /\ edited.pack \subseteq Obj
        /\ Closure(edited.root) \subseteq Closure(TreeOf(base)) \cup edited.pack
        /\ EditTree(Closure(TreeOf(base)), TreeOf(base), edit) = edited
    <3>1. objects \cap Obj \in SUBSET Obj
      OBVIOUS
    <3> QED
      BY <1>2, <1>4, <2>1, <3>1, EditAssumption DEF TreeOf
  <2>3. content \in CommitType
    BY <1>2, <2>2 DEF CommitOf, CommitType
  <2>4. /\ content.parent = base /\ content.tree = edited.root /\ content.edit = edit
        /\ content # Nothing
    <3>1. content.parent = base /\ content.tree = edited.root /\ content.edit = edit
      BY DEF CommitOf
    <3>2. content # Nothing
      BY <1>2, <2>2, SetAssumption
    <3> QED
      BY <3>1, <3>2
  <2>5. c \in Commit /\ commits[c] \in {content, Nothing}
    BY <1>4 DEF IdsFor, Fresh
  <2> HIDE DEF content
  <2>6. /\ commits \in [Commit -> CommitType \cup {Nothing}]
        /\ commits' \in [Commit -> CommitType \cup {Nothing}]
        /\ commits'[c] = content
        /\ \A d \in Commit : d # c => commits'[d] = commits[d]
    BY <1>4, <2>3, <2>5 DEF IInv, TypeOK
  <2>7. \A d \in Commit : Made(d) => commits'[d] = commits[d]
    BY <2>5, <2>6 DEF Made
  <2>8. UNCHANGED <<head, objects, ref, store, late>>
    BY DEF Build, cache, remote
  <2>9. s \in TaskType
    <3>1. {c} \cup edited.pack \subseteq Commit \cup Obj
      BY <2>2, <2>5
    <3> HIDE DEF edited
    <3> QED
      BY <1>1, <2>5, <3>1, Rounds DEF TaskType, Phases
  <2>10. task' = [task EXCEPT ![t] = s] /\ task'[t] = s /\ task' \in [Task -> TaskType]
    <3> HIDE DEF s
    <3> QED
      BY <1>4, <2>9 DEF Step, IInv, TypeOK, s
  <2>11. TypeOK'
    BY <2>6, <2>8, <2>10 DEF IInv, TypeOK
  <2>12. RemoteIntact' /\ CacheOnRemote'
    BY <2>7, <2>8 DEF IInv, RemoteIntact, CacheOnRemote, Complete, Made, TreeOf
  <2>13. HistoryIsFaithful'
    <3>1. ASSUME NEW d \in Commit, commits'[d] # Nothing, commits'[d].edit # Nothing
          PROVE  /\ commits'[d].parent \in Commit /\ commits'[commits'[d].parent] # Nothing
                 /\ LET parent == commits'[commits'[d].parent].tree
                        r == EditTree(Closure(parent), parent, commits'[d].edit)
                    IN  r.ok /\ commits'[d].tree = r.root
      <4>1. CASE d = c
        <5>1. commits'[base] = commits[base] /\ commits[base] # Nothing
          BY <1>2, <2>1, <2>7 DEF Made
        <5>2. commits'[d].parent = base /\ commits'[d].edit = edit
              /\ commits'[d].tree = edited.root
          BY <2>4, <2>6, <4>1
        <5>3. LET parent == commits[base].tree
              IN  EditTree(Closure(parent), parent, edit) = edited
          BY <2>2 DEF TreeOf
        <5> HIDE DEF edited, base, edit
        <5> QED
          BY <1>2, <1>4, <5>1, <5>2, <5>3
      <4>2. CASE d # c
        <5>1. commits'[d] = commits[d] /\ Made(d)
          BY <2>6, <3>1, <4>2 DEF Made
        <5>2. /\ commits[d].parent \in Commit /\ Made(commits[d].parent)
              /\ LET parent == TreeOf(commits[d].parent)
                     r == EditTree(Closure(parent), parent, commits[d].edit)
                 IN  r.ok /\ TreeOf(d) = r.root
          BY <3>1, <5>1 DEF IInv, HistoryIsFaithful
        <5>3. commits'[commits[d].parent] = commits[commits[d].parent]
          BY <2>7, <5>2
        <5> QED
          BY <5>1, <5>2, <5>3 DEF Made, TreeOf
      <4> QED
        BY <4>1, <4>2
    <3> QED
      BY <3>1 DEF HistoryIsFaithful, TreeOf, Made
  <2>14. TaskInv(task[t])' /\ ReadSound(task[t])'
    <3>1. /\ task'[t].pc = "push" /\ task'[t].new = c /\ task'[t].base = base
          /\ task'[t].buf = {c} \cup edited.pack /\ task'[t].req = edit
          /\ task'[t].answer # "read"
      <4> HIDE DEF edited
      <4> QED
        BY <1>1, <1>2, <2>10 DEF TaskType
    <3>2. PushComplete(task[t])'
      <4>1. task'[t].buf \cap Commit = {c}
        BY <2>2, <2>5, <3>1, SetAssumption, ZenonT(60)
      <4>2. Closure(edited.root) \subseteq store \cup task'[t].buf
        BY <2>1, <2>2, <3>1
      <4> QED
        BY <1>2, <2>4, <2>5, <2>6, <2>8, <3>1, <4>1, <4>2
        DEF PushComplete, PackComplete, Complete, Made, TreeOf
    <3> QED
      BY <1>2, <2>8, <3>1, <3>2
      DEF TaskInv, BaseKnown, ReceivedKnown, UnpackedIfReported, RequestKept, ReadSound,
          Receiving, Pushing
  <2>15. ASSUME NEW u \in Task
         PROVE  TaskInv(task[u])' /\ ReadSound(task[u])'
    <3>1. CASE u = t
      BY <2>14, <3>1
    <3>2. CASE u # t
      <4>1. task'[u] = task[u]
        BY <2>10, <3>2 DEF IInv, TypeOK
      <4> QED
        BY <2>7, <2>8, <4>1, OthersKeep
    <3> QED
      BY <3>1, <3>2
  <2>16. (\A l \in late : PackComplete(l))'
    BY <2>7, <2>8, LateKeep
  <2> QED
    BY <2>11, <2>12, <2>13, <2>15, <2>16 DEF IInv, ReadsSound
<1> QED
  BY <1>3, <1>4 DEF Build
-------------------------------------------------------------------------------
\* A commit by another client is complete, and is the edit of no request.
LEMMA OtherPushStep ==
  ASSUME IInv, OtherPush
  PROVE  IInv'
<1>1. PICK tree \in OtherTree :
        LET c == CHOOSE c \in Fresh : TRUE
        IN  /\ commits' = [commits EXCEPT ![c] = CommitOf(ref, tree, Nothing)]
            /\ ref' = c
            /\ store' = store \cup {c} \cup Closure(tree)
  BY DEF OtherPush
<1> DEFINE c       == CHOOSE x \in Fresh : TRUE
           content == CommitOf(ref, tree, Nothing)
<1>2. c \in Commit /\ commits[c] = Nothing
  BY DEF OtherPush, Fresh
<1>3. /\ commits' = [commits EXCEPT ![c] = content] /\ ref' = c
      /\ store' = store \cup {c} \cup Closure(tree)
  BY <1>1
<1> HIDE DEF c
<1>4. /\ tree \in Tree /\ tree \in Obj /\ Closure(tree) \subseteq Obj /\ ref \in Commit \cap store
  BY Now, SetAssumption, ReachAssumption DEF IInv, TypeOK, RemoteIntact
<1>5. /\ content \in CommitType /\ content.parent = ref /\ content.tree = tree
      /\ content.edit = Nothing
  BY <1>4 DEF CommitOf, CommitType
<1>6. content # Nothing
  BY <1>4, SetAssumption
<1> HIDE DEF content
<1>7. /\ commits' \in [Commit -> CommitType \cup {Nothing}] /\ commits'[c] = content
      /\ \A d \in Commit : d # c => commits'[d] = commits[d]
  BY <1>2, <1>3, <1>5 DEF IInv, TypeOK
<1>8. \A d \in Commit : Made(d) => commits'[d] = commits[d]
  BY <1>2, <1>7 DEF Made
<1>9. UNCHANGED <<head, objects, late, task>>
  BY DEF OtherPush, cache
<1>10. TypeOK'
  BY <1>2, <1>3, <1>4, <1>7, <1>9 DEF IInv, TypeOK
<1>11. RemoteIntact' /\ CacheOnRemote'
  <2>1. ASSUME NEW d \in Commit, d \in store'
        PROVE  /\ commits'[d] # Nothing /\ Closure(commits'[d].tree) \subseteq store'
               /\ commits'[d].parent = Nothing \/ commits'[d].parent \in store'
    <3>1. CASE d = c
      BY <1>3, <1>4, <1>5, <1>6, <1>7, <3>1
    <3>2. CASE d # c
      <4>1. d \in store
        BY <1>3, <1>4, <2>1, <3>2, SetAssumption
      <4>2. Complete(d, store) /\ commits'[d] = commits[d]
        BY <1>7, <3>2, <4>1 DEF IInv, RemoteIntact
      <4> QED
        BY <1>3, <4>2 DEF Complete, Made, TreeOf
    <3> QED
      BY <3>1, <3>2
  <2> QED
    BY <1>3, <1>9, <2>1 DEF IInv, RemoteIntact, CacheOnRemote, Complete, Made, TreeOf
<1>12. HistoryIsFaithful'
  <2>1. ASSUME NEW d \in Commit, commits'[d] # Nothing, commits'[d].edit # Nothing
        PROVE  /\ commits'[d].parent \in Commit /\ commits'[commits'[d].parent] # Nothing
               /\ LET parent == commits'[commits'[d].parent].tree
                      r == EditTree(Closure(parent), parent, commits'[d].edit)
                  IN  r.ok /\ commits'[d].tree = r.root
    <3>1. commits'[d] = commits[d] /\ Made(d)
      BY <1>5, <1>7, <2>1 DEF Made
    <3>2. /\ commits[d].parent \in Commit /\ Made(commits[d].parent)
          /\ LET parent == TreeOf(commits[d].parent)
                 r == EditTree(Closure(parent), parent, commits[d].edit)
             IN  r.ok /\ TreeOf(d) = r.root
      BY <2>1, <3>1 DEF IInv, HistoryIsFaithful
    <3>3. commits'[commits[d].parent] = commits[commits[d].parent]
      BY <1>8, <3>2
    <3> QED
      BY <3>1, <3>2, <3>3 DEF Made, TreeOf
  <2> QED
    BY <2>1 DEF HistoryIsFaithful, TreeOf, Made
<1>13. ASSUME NEW u \in Task
       PROVE  TaskInv(task[u])' /\ ReadSound(task[u])'
  BY <1>3, <1>8, <1>9, OthersKeep
<1>14. (\A l \in late : PackComplete(l))'
  BY <1>3, <1>8, <1>9, LateKeep
<1> QED
  BY <1>10, <1>11, <1>12, <1>13, <1>14 DEF IInv, ReadsSound

\* The fetch at startup fills the cache with what the remote has.
LEMMA RestartStep ==
  ASSUME IInv, Restart
  PROVE  IInv'
<1>1. /\ head' = ref /\ objects' = {ref} \cup Closure(commits[ref].tree)
      /\ UNCHANGED <<ref, store, commits>>
      /\ task' = [t \in Task |-> IF task[t].pc \in Finished THEN task[t]
                                 ELSE Finish(t, "dropped")]
      /\ late' = late \cup SentBy(Task)
  BY DEF Restart
<1>2. ref \in Commit \cap store /\ Closure(commits[ref].tree) \subseteq store
  BY Now, KnownCommit DEF IInv, TypeOK, RemoteIntact, TreeOf
<1>3. objects' \subseteq store /\ head' \in Commit \cap store
  BY <1>1, <1>2
<1>4. ASSUME NEW u \in Task
      PROVE  task'[u] \in TaskType /\ TaskInv(task'[u]) /\ ReadSound(task'[u])
  <2>1. CASE task[u].pc \in Finished
    BY <1>1, <2>1, Now
  <2>2. CASE task[u].pc \notin Finished
    BY <1>1, <2>2, FinishIsRight DEF Answers
  <2> QED
    BY <2>1, <2>2
<1>5. \A c \in late' : c \in CommandType /\ PackComplete(c)
  BY <1>1, SentIsRight DEF IInv, TypeOK
<1>6. TypeOK'
  BY <1>1, <1>3, <1>4, <1>5 DEF IInv, TypeOK
<1>7. RemoteIntact' /\ CacheOnRemote' /\ HistoryIsFaithful'
  BY <1>1, <1>3
  DEF IInv, RemoteIntact, CacheOnRemote, HistoryIsFaithful, Complete, Made, TreeOf
<1>8. (\A u \in Task : TaskInv(task[u]) /\ ReadSound(task[u]))'
  BY <1>1, <1>4, ZenonT(60)
  DEF TaskInv, BaseKnown, ReceivedKnown, PushComplete, UnpackedIfReported, RequestKept,
      ReadSound, PackComplete, Complete, Made, TreeOf
<1>9. (\A c \in late : PackComplete(c))'
  BY <1>1, <1>5 DEF PackComplete, Complete, Made, TreeOf
<1> QED
  BY <1>6, <1>7, <1>8, <1>9 DEF IInv, ReadsSound

-------------------------------------------------------------------------------
LEMMA InitIInv == Init => IInv
<1> SUFFICES ASSUME Init PROVE IInv
  OBVIOUS
<1> DEFINE first == CommitOf(Nothing, InitialTree, Nothing)
<1>1. /\ InitialTree \in Tree /\ Closure(InitialTree) \subseteq Obj /\ Root \in Commit
  BY SetAssumption, ReachAssumption
<1>2. /\ first \in CommitType /\ first.parent = Nothing /\ first.tree = InitialTree
      /\ first.edit = Nothing
  BY <1>1 DEF CommitOf, CommitType
<1>3. first # Nothing
  BY <1>1, SetAssumption
<1>4. /\ commits = [c \in Commit |-> IF c = Root THEN first ELSE Nothing]
      /\ task = [t \in Task |-> NotStarted]
      /\ head = Root /\ ref = Root
      /\ objects = {Root} \cup Closure(InitialTree) /\ store = objects /\ late = {}
  BY DEF Init
<1> HIDE DEF first
<1>5. TypeOK
  BY <1>1, <1>2, <1>4, NotStartedType DEF TypeOK
<1>6. RemoteIntact /\ CacheOnRemote
  <2>1. store \cap Commit = {Root} /\ commits[Root] = first
    BY <1>1, <1>4, SetAssumption
  <2> QED
    BY <1>1, <1>2, <1>3, <1>4, <2>1 DEF RemoteIntact, CacheOnRemote, Complete, Made, TreeOf
<1>7. HistoryIsFaithful
  BY <1>2, <1>4 DEF HistoryIsFaithful, Made
<1>8. TaskInv(NotStarted) /\ ReadSound(NotStarted)
  BY DEF NotStarted, TaskInv, BaseKnown, ReceivedKnown, PushComplete, UnpackedIfReported,
         RequestKept, ReadSound, Receiving, Pushing
<1> QED
  BY <1>4, <1>5, <1>6, <1>7, <1>8 DEF IInv, ReadsSound

LEMMA NextIInv == IInv /\ [Next]_vars => IInv'
<1> SUFFICES ASSUME IInv, [Next]_vars PROVE IInv'
  OBVIOUS
<1>1. ASSUME NEW t \in Task, Submit(t) PROVE IInv'
  BY <1>1, SubmitStep
<1>2. ASSUME NEW t \in Task, Serve(t) PROVE IInv'
  <2>1. CASE Check(t)
    BY <2>1, CheckStep
  <2>2. CASE StartFetch(t)
    BY <2>2, StartFetchStep
  <2>3. CASE Merge(t)
    BY <2>3, MergeStep
  <2>4. CASE SetHead(t)
    BY <2>4, SetHeadStep
  <2>5. CASE SetObjects(t)
    BY <2>5, SetObjectsStep
  <2>6. CASE ClaimHead(t)
    BY <2>6, ClaimHeadStep
  <2>7. CASE Build(t)
    BY <2>7, BuildStep
  <2>8. CASE Report(t)
    BY <2>8, ReportStep
  <2> QED
    BY <1>2, <2>1, <2>2, <2>3, <2>4, <2>5, <2>6, <2>7, <2>8 DEF Serve
<1>3. ASSUME NEW t \in Task, Remote(t) PROVE IInv'
  <2>1. CASE Upload(t)
    BY <2>1, UploadStep
  <2>2. CASE Advertise(t)
    BY <2>2, AdvertiseStep
  <2>3. CASE ReceivePack(t)
    BY <2>3, ReceivePackStep
  <2> QED
    BY <1>3, <2>1, <2>2, <2>3 DEF Remote
<1>4. ASSUME NEW t \in Task, Fault(t) PROVE IInv'
  <2>1. CASE SessionFailed(t)
    BY <2>1, SessionFailedStep
  <2>2. CASE LoseReport(t)
    BY <2>2, LoseReportStep
  <2>3. CASE TimedOut(t)
    BY <2>3, TimedOutStep
  <2>4. CASE Cancel(t)
    BY <2>4, CancelStep
  <2> QED
    BY <1>4, <2>1, <2>2, <2>3, <2>4 DEF Fault
<1>5. CASE LateCommand
  BY <1>5, LateCommandStep
<1>6. CASE Restart
  BY <1>6, RestartStep
<1>7. CASE OtherPush
  BY <1>7, OtherPushStep
<1>8. CASE UNCHANGED vars
  BY <1>8
  DEF vars, cache, remote, IInv, TypeOK, RemoteIntact, CacheOnRemote, HistoryIsFaithful,
      ReadsSound, ReadSound, TaskInv, BaseKnown, ReceivedKnown, PushComplete,
      UnpackedIfReported, RequestKept, PackComplete, Complete, Made, TreeOf
<1> QED
  BY <1>1, <1>2, <1>3, <1>4, <1>5, <1>6, <1>7, <1>8 DEF Next, Quiet

-------------------------------------------------------------------------------
\* The invariant holds in every reachable state, under any interleaving of any
\* number of requests with any of the faults.
THEOREM InvariantHolds == Spec => []IInv
  BY InitIInv, NextIInv, PTL DEF Spec

\* The variables keep their types, and with them both retry loops (repo.rs
\* 190-198, transport.rs 456-490) their bounds.
THEOREM TypeCorrect == Spec => []TypeOK
<1>1. IInv => TypeOK
  BY DEF IInv
<1> QED
  BY <1>1, InvariantHolds, PTL

\* No push of davgit leaves the branch, or any commit at the remote, without
\* its tree, its blobs or its parent, whatever the state of the cache it was
\* built from (repo.rs 274-310).
THEOREM RemoteStaysIntact == Spec => []RemoteIntact
<1>1. IInv => RemoteIntact
  BY DEF IInv
<1> QED
  BY <1>1, InvariantHolds, PTL

\* All that is cached is at the remote: a commit enters the cache only after
\* the server has unpacked it (repo.rs 313-318).
THEOREM CacheStaysOnRemote == Spec => []CacheOnRemote
<1>1. IInv => CacheOnRemote
  BY DEF IInv
<1> QED
  BY <1>1, InvariantHolds, PTL

\* Every commit davgit makes is one request applied to the whole tree of its
\* parent, though head_oid and objects are read under different locks.
THEOREM HistoryStaysFaithful == Spec => []HistoryIsFaithful
<1>1. IInv => HistoryIsFaithful
  BY DEF IInv
<1> QED
  BY <1>1, InvariantHolds, PTL

\* A read that finds content returns that of the head it started from.
THEOREM ReadsStaySound == Spec => []ReadsSound
<1>1. IInv => ReadsSound
  BY DEF IInv
<1> QED
  BY <1>1, InvariantHolds, PTL
===============================================================================
