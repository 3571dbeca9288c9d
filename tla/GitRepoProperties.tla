-------------------------- MODULE GitRepoProperties --------------------------
(***************************************************************************)
(* What should be true of GitRepo: of one client that waits for answers,   *)
(* of concurrent clients, and of the remote whatever davgit does.          *)
(***************************************************************************)
EXTENDS GitRepo

Made(c) == commits[c] # Nothing

Phases == {"idle", "check", "fetch", "upload", "merge", "setHead", "setObjects", "claim",
           "build", "push", "command", "report", "done"}
Answers == {"none", "read", "acked", "refused", "ok", "error", "dropped"}
Lines   == {"unpack ok", "ok", "ng", "non-fast-forward"}

CommitType ==
  [parent : Commit \cup {Nothing}, tree : Tree, edit : Edit \cup {Nothing}]

TaskType ==
  [pc : Phases, req : Edit \cup Read \cup {Nothing}, attempt : 0..MaxAttempts, tries : 0..MaxTries,
   base : Commit \cup {Nothing}, adv : Commit \cup {Nothing}, new : Commit \cup {Nothing},
   buf : SUBSET (Commit \cup Obj), report : SUBSET Lines, answer : Answers,
   body : Obj \cup {Nothing}]

CommandType ==
  [of : Task, adv : Commit \cup {Nothing}, new : Commit \cup {Nothing},
   buf : SUBSET (Commit \cup Obj)]

\* The types of the variables, among them the bounds of both retry loops.
TypeOK ==
  /\ head \in Commit /\ ref \in Commit
  /\ objects \subseteq Commit \cup Obj /\ store \subseteq Commit \cup Obj
  /\ commits \in [Commit -> CommitType \cup {Nothing}]
  /\ task \in [Task -> TaskType]
  /\ late \subseteq CommandType

-------------------------------------------------------------------------------
(* The remote and the history, under any interleaving and any fault.        *)

TreeOf(c) == commits[c].tree

\* The remote has the commit, its whole tree and, if any, its parent.
Complete(c, s) ==
  /\ c \in s /\ Made(c) /\ Closure(TreeOf(c)) \subseteq s
  /\ commits[c].parent = Nothing \/ commits[c].parent \in s

\* The branch at the remote always points to a commit the remote has in full,
\* and so does every commit below it: the packs davgit sends (the tree objects
\* and blobs of one edit and the commit, repo.rs 291-310) never leave a hole,
\* whatever state of the cache, stale or torn, they were built from.
RemoteIntact == ref \in store /\ \A c \in store \cap Commit : Complete(c, store)

\* The cache never holds an object the remote does not have: only what was
\* fetched, or what the server unpacked, is put into it, so the have line of
\* the next fetch names a commit the server knows.
CacheOnRemote == head \in store /\ objects \subseteq store

\* Each commit davgit wrote is its request applied, whole, to the full tree of
\* its parent: no edit is made on a tree with a hole in it, and none mixes the
\* head of one moment with the objects of another.
HistoryIsFaithful ==
  \A c \in Commit : Made(c) /\ commits[c].edit # Nothing =>
    /\ commits[c].parent \in Commit /\ Made(commits[c].parent)
    /\ LET parent == TreeOf(commits[c].parent)
           edited == EditTree(Closure(parent), parent, commits[c].edit)
       IN  edited.ok /\ TreeOf(c) = edited.root

\* A read that gives content gives that of the file at the head it read first,
\* whatever was written between that and its look at the objects.
ReadSound(s) ==
  s.answer = "read" /\ s.body # Nothing =>
    s.body = ReadFile(Closure(TreeOf(s.base)), TreeOf(s.base), s.req)
ReadsSound == \A t \in Task : ReadSound(task[t])

-------------------------------------------------------------------------------
(* Why the remote stays intact: what each request holds in between.         *)

Receiving == {"merge", "setHead", "setObjects"}
Pushing   == {"push", "command", "report"}

\* The head a request read is a commit of the remote.
BaseKnown(s) ==
  /\ s.base # Nothing => s.base \in store
  /\ s.pc \in {"check", "upload", "build"} => s.base # Nothing

\* What a fetch received is at the remote.
ReceivedKnown(s) ==
  s.pc \in Receiving => s.new \in Commit \cap store /\ s.buf \subseteq store

\* What a push sends makes, with what the remote has, a complete commit.
PackComplete(s) ==
  /\ s.new \in Commit /\ s.buf \cap Commit = {s.new}
  /\ Complete(s.new, store \cup s.buf) /\ commits[s.new].parent \in store
PushComplete(s) == s.pc \in Pushing => PackComplete(s)

\* A report that lets the commit into the cache says it was unpacked.
UnpackedIfReported(s) ==
  s.pc = "report" /\ "unpack ok" \in s.report => s.buf \subseteq store

RequestKept(s) ==
  /\ s.pc = "check" => s.req \in Edit \cup Read
  /\ s.pc \notin {"idle", "check", "done"} => s.req \in Edit
  /\ s.answer = "read" => s.req \in Read /\ s.base # Nothing

TaskInv(s) == /\ BaseKnown(s) /\ ReceivedKnown(s) /\ PushComplete(s)
              /\ UnpackedIfReported(s) /\ RequestKept(s)

\* The inductive invariant behind the theorems of GitRepoProofs.
IInv == /\ TypeOK /\ RemoteIntact /\ CacheOnRemote /\ HistoryIsFaithful /\ ReadsSound
        /\ \A t \in Task : TaskInv(task[t])
        /\ \A c \in late : PackComplete(c)

-------------------------------------------------------------------------------
(* One client that waits for each answer (MaxInFlight = 1), no other user.  *)

\* Outside the two writes of fetch the cache has all of its head, so that a
\* read finds every file.  README.md:78: "All Git objects (trees, blobs,
\* commits) are parsed and cached in memory".
CacheComplete ==
  (\A t \in Task : task[t].pc # "setObjects") =>
    head \in objects /\ Closure(TreeOf(head)) \subseteq objects

\* A write answered with success is part of the branch and of what the cache
\* shows from then on, through failed requests, lost reports and restarts.
AckedDurable ==
  \A t \in Task : task[t].answer = "ok" =>
    task[t].new \in Ancestors(commits, ref) \cap Ancestors(commits, head)

\* The branch only moves to descendants, though the server does not ask for
\* it and the old value in the push command is whatever was advertised.
MovesForward    == ref \in Ancestors(commits', ref')
BranchOnlyGrows == [][MovesForward]_ref

-------------------------------------------------------------------------------
(* Why one client sees its writes: what holds between its steps.            *)

\* One request at a time and no other user, a server that neither cuts an answer
\* short nor refuses what it unpacked, and that does not reject some pushes while
\* it deals with others late.
OneClient ==
  /\ MaxInFlight = 1 /\ MaxOthers = 0
  /\ Faults \cap {"cut", "refuse"} = {} /\ ~({"late", "rejected"} \subseteq Faults)

\* Only requests make commits, and no line of parents is circular or endless.
OwnHistory ==
  /\ commits[Root] = CommitOf(Nothing, InitialTree, Nothing) /\ ByOthers = {}
  /\ \A made \in SUBSET {c \in Commit : Made(c)} :
       made # {} => \E c \in made : commits[c].parent \notin made

\* A push command moves the branch from the parent of its commit, or finds that
\* an earlier round has: the advertised value is that parent or still current.
UnderWay(c) ==
  LET parent == commits[c.new].parent
  IN  ref \in {parent, c.new} /\ c.adv \in {parent, ref}

\* A command nobody waits for is of the last request, which is at its next round
\* or has ended.
LateInv(c) ==
  /\ UnderWay(c) /\ commits[c.new].edit = task[c.of].req
  /\ task[c.of].pc = "done" \/ ("late" \in Faults /\ task[c.of].pc \in Pushing)
  /\ task[c.of].answer = "ok" => ref = c.new

\* After the fetch the cache has the branch, and until the push nothing moves.
FetchInv(s) ==
  /\ s.pc = "idle" => s = NotStarted
  /\ s.answer = "ok" => s.pc = "done"
  /\ s.pc = "upload" => s.base = head
  /\ s.pc = "merge" => s.new = ref /\ s.buf = NewObjects(head, ref)
  /\ s.pc \in {"setHead", "setObjects"} =>
       s.new = ref /\ s.buf = {ref} \cup Closure(TreeOf(ref))
  /\ s.pc \in {"setObjects", "claim", "build"} => head = ref
  /\ s.pc = "build" => s.base = head

\* A push sends a commit of its request on the cached head, and a report is true.
PushInv(s) ==
  s.pc \in Pushing =>
    /\ commits[s.new].parent = head /\ commits[s.new].edit = s.req
    /\ Closure(TreeOf(s.new)) \subseteq objects \cup s.buf
    /\ IF s.pc = "push" THEN ref \in {head, s.new} ELSE UnderWay(s)
    /\ s.pc = "report" /\ "unpack ok" \in s.report => ref = s.new
    /\ s.pc = "report" /\ "non-fast-forward" \in s.report =>
         "rejected" \in Faults /\ ref # s.new

\* The commits of the commands that are at the server or will be.
Pushed == {c.new : c \in late} \cup {task[t].new : t \in {t \in Task : task[t].pc \in Pushing}}

\* With IInv, the inductive invariant behind the theorems of OneClientProofs.
TurnInv == /\ \A t, u \in InFlight : t = u
           /\ \A c, d \in Pushed : c = d
           /\ \A c \in late : LateInv(c)
           /\ \A t \in Task : FetchInv(task[t]) /\ PushInv(task[t])
           /\ OwnHistory /\ CacheComplete /\ AckedDurable

-------------------------------------------------------------------------------
(* What the comments of the code say, which the code does not keep to.      *)

\* repo.rs:274: "Push a commit [...] and cache on success".  A commit answered
\* with success is part of the branch.
AckedOnBranch ==
  \A t \in Task : task[t].answer = "ok" => task[t].new \in Ancestors(commits, ref)

\* README.md:78: "All Git objects (trees, blobs, commits) are parsed and cached
\* in memory".  When no request is being served the cache has its head.
CachedWhenQuiet == InFlight = {} => head \in objects

-------------------------------------------------------------------------------
(* Liveness                                                                 *)

\* The runtime goes on with every task, and a session whose server stays silent
\* ends with an error (inactivity_timeout).  Nothing is assumed of the remote:
\* it need not answer, and faults, restarts and other clients need not happen.
FairSpec == Spec /\ \A t \in Task : WF_vars(Serve(t) \/ SessionFailed(t) \/ TimedOut(t))

\* Every request is answered: both retry loops end, whatever rounds of either
\* fail, time out, are rejected or lose their report.
EveryRequestAnswered ==
  \A t \in Task : task[t].pc = "check" ~> task[t].pc = "done"
===============================================================================
