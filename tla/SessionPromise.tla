---------------------------- MODULE SessionPromise ----------------------------
(***************************************************************************)
(* A session of git-receive-pack is a round of do_push as GitRepo has it:  *)
(* whatever is cut or lost, each of its steps is one that GitRepo lets a   *)
(* task in "push", "command" or "report" make, or changes nothing there.   *)
(***************************************************************************)
EXTENDS Session

Commits  == {Tip, Theirs, Elsewhere, New}
Contents == Pack \ {New}

\* The parts of GitRepo that a round does not use: an edit changes nothing.
Itself(tree)            == {tree}
Walked(objs, tree)      == {tree}
Passed(objs, tree, e)   == "go"
Absent(objs, tree, r)   == None
Same(objs, tree, e)     == [ok |-> TRUE, root |-> tree, pack |-> {tree}]

\* A task that pushes New, in its only round, and has not been given a report,
\* or the answer of one that ended without it.
Round ==
  [pc |-> "push", req |-> "write", attempt |-> 1, tries |-> 1, base |-> Tip, adv |-> None,
   new |-> New, buf |-> Pack, report |-> {}, answer |-> "none", body |-> None]
NoRound ==
  [pc |-> "idle", req |-> None, attempt |-> 0, tries |-> 0, base |-> None, adv |-> None,
   new |-> None, buf |-> {}, report |-> {}, answer |-> "none", body |-> None]
Failed(result) ==
  [NoRound EXCEPT !.pc = "done", !.req = "write",
                  !.answer = IF result = "failed" THEN "error" ELSE result]

\* The report as the task takes it: that of the server, unless the session ends
\* with another result than it says, as when it is lost.
Taken ==
  IF client.pc # "done" \/ client.result = Classify(report) THEN report
  ELSE IF client.result = "failed" THEN {}
  ELSE {client.result}

RoundTask ==
  IF report # {} THEN [Round EXCEPT !.pc = "report", !.adv = adv, !.report = Taken]
  ELSE IF client.pc = "done" THEN Failed(client.result)
  ELSE IF adv = None THEN Round
  ELSE [Round EXCEPT !.pc = "command", !.adv = adv]

\* A command the server has, from a client that has gone.
RoundLate ==
  IF client.pc = "done" /\ report = {} /\ inbox # None
  THEN {[of |-> "t", adv |-> inbox, new |-> New, buf |-> Pack]}
  ELSE {}

Repo == INSTANCE GitRepo WITH
  Task <- {"t"}, Commit <- Commits, Obj <- Contents, Tree <- Contents, Edit <- {"write"},
  Read <- {}, Nothing <- None, Root <- Tip, InitialTree <- CHOOSE o \in Contents : TRUE,
  OtherTree <- Contents, MaxOthers <- 1, MaxInFlight <- 1, MaxAttempts <- 1, MaxTries <- 1,
  DenyNonFastForwards <- FALSE,
  Faults <- {"session", "lost", "late", "unpack", "refuse", "rejected"},
  Closure <- Itself, Reach <- Walked, Precheck <- Passed, ReadFile <- Absent, EditTree <- Same,
  head <- Tip, objects <- {}, commits <- [c \in Commits |-> None],
  late <- RoundLate, task <- [t \in {"t"} |-> RoundTask]

\* Every step of a session is one that GitRepo has for a round: the command is
\* never sent twice nor with a value the server did not advertise, a success is
\* only reported by the server, and a session that fails before its command is
\* sent leaves nothing behind that may still take effect.
RoundStep ==
  \/ Repo!Advertise("t") \/ Repo!ReceivePack("t") \/ Repo!SessionFailed("t")
  \/ Repo!LoseReport("t") \/ Repo!TimedOut("t") \/ Repo!LateCommand
  \/ OtherPush
ImplementsRound ==
  [][setup.service = "git-receive-pack" => RoundStep]_<<RoundTask, RoundLate, remote>>
===============================================================================
