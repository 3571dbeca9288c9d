# A verification development for davgit

davgit serves one branch of a remote Git repository as a WebDAV file system.
It keeps the branch's head and its objects in memory, answers reads from there,
and makes every write into a commit that it pushes over SSH before it answers.
This directory holds TLA+ modules translated from its source, configurations
that check them with TLC on small instances, and proofs checked by TLAPS.
Source lines below are those of the files under `src/src/`.

## The system

| Component | State | Operations | Talks to |
|---|---|---|---|
| Repository cache, `git/repo.rs` | `head_oid`, `objects`, each under its own mutex | `init_and_fetch`, `fetch`, `claim_objects`, `push_with_cache`, the writes `write_path`, `delete_path`, `delete_subtree`, `create_dir`, `copy_subtree`, `move_subtree`; lookups `read_file`, `is_directory`, `file_size`, `list_dir` | called by every request's task; calls the protocol |
| Fetch and push protocol, `git/transport.rs` | none of its own: one SSH session per try | `do_fetch`, `do_push`, three tries each; `connect_ssh`, `read_refs`, `read_pkt_line` | `git-upload-pack`, `git-receive-pack` at the remote |
| Object algorithms, `git/objects.rs` | none | find, modify, copy, remove a tree entry; collect reachable ids; build a commit | called by the cache with a map of objects |
| Packfile codec, `git/packfile.rs` | none | parse and build packs, apply deltas, hash objects | called by `fetch` and `push_with_cache` |
| WebDAV handler, `handler.rs` | none | one function per method; looks at the cache, then answers or calls a write | called by hyper |
| Server loop, `main.rs`, `cli.rs` | arguments, the shared `GitRepo` | accept, one task per connection | |
| The remote (not in the repository) | the branch, its objects | unpack, update the branch, report | other Git clients |

What makes each component correct:

- *Cache and write cycle.* What is cached fits together and is at the remote; a
  commit is one request applied to its parent; an acknowledged write is on the
  branch and stays there; a failed one takes effect at most once; every request
  is answered.
- *Protocol.* The old value in a push command protects what others pushed; a
  report is read for what it says; a session that is cut or silent ends, and
  what it looks like then is not taken for more than it is.
- *Object algorithms.* The new tree is the old one with the one change asked
  for; the objects handed back are enough for the remote.
- *Handler.* The checks hold of the tree that is edited; an answer is true of a head.
- *Packfile codec.* A whole pack is read to its last object, each delta against
  the base its writer meant.

Hard behaviours: tasks of a multi-threaded runtime interleave between any two
lock operations and at every `await`; a session can fail before the server
acts, or after, or fall silent; a task is dropped when its HTTP connection
closes or the process stops, with its push command already sent; other clients
push to the same branch. `PROJECT.json` lists each hazard at its line with the
properties that cover it.

## Modules

| Module | What it is |
|---|---|
| `GitObjects` | `objects.rs`: the walks and the rebuilding of trees, as functions of the place in a path |
| `RepoEdits` | the lookups of `repo.rs`, the handler's checks before each write, and the tree edits `repo.rs` composes for it |
| `TreeViews` | a reference that sees a tree as a file system: what is at a path, by following entries |
| `TreeEdits`, `MCTreeEdits` | one write on any tree: what is seen after it, what its pack and its map hold, and what it needs of the old tree; every small tree |
| `GitRepo` | the cache, the retry loops, the rounds of the protocol, the remote and the faults |
| `GitRepoProperties` | types, invariants, action and liveness properties of `GitRepo` |
| `Branch` | what davgit promises a client that waits for its answers: an atomic branch |
| `GitRepoPromise` | the refinement mapping from `GitRepo` to `Branch` |
| `MCGitRepo` | small instances of `GitRepo`, with `RepoEdits` as its checks and edits |
| `Handler`, `MCHandler` | `GitRepo` extended by one request that the handler serves lookup by lookup |
| `Session` | one SSH session: keys, advertisement, request and answer, packet by packet |
| `SessionPromise`, `MCSession` | the mapping from a session to a round of `GitRepo` |
| `PackBytes` | the numbers and deltas in a pack: what git writes, and how davgit reads and writes them |
| `Packfile`, `MCPackfile` | `parse_packfile` and `build_packfile` over packs in any order, whole or cut |
| `GitRepoProofs` | theorems about `GitRepo` under any interleaving |
| `OneClientProofs` | theorems about `GitRepo` when its clients take turns |
| `PromiseProofs` | that `GitRepo` implements `Branch` |
| `SessionProofs` | theorems about `Session`, and that it is a round of `GitRepo` |
| `PackfileProofs` | theorems about `Packfile` |
| `ObjectProofs`, `EditProofs` | lemmas about `GitObjects` on any objects and paths; theorems about `TreeEdits` |
| `HandlerProofs` | theorems about `Handler` beside any other requests |

They compose in three places. `MCGitRepo` and `MCHandler` give `GitRepo` the
checks and edits of `RepoEdits`, which stand on `GitObjects`. `Handler` extends
`GitRepo` (by its properties): its lookups read the cache that `GitRepo`'s tasks
change.
`SessionPromise` instantiates `GitRepo` with the state of a session and checks
that the steps `GitRepo` takes as atomic are what a session amounts to. The
outcomes of `Packfile` are the alternatives of `GitRepo`'s `Upload`: "nothing
new", "ok" (a merge) and, under the fault `"corrupt"`, "error" or "panic" (the
request fails; a panic ends its task).

Operators named `Mutant...` are plausible mistakes in the definition that
follows them; each is one that a property rules out. No specification uses them.

### Objects

An id is the hash of a content, so `GitObjects` and `RepoEdits` use the content
itself, and a `HashMap` from ids to bytes is the set of objects it holds. A tree
is written in canonical order, so its entries are a set. What a walk does when
an object is missing from the map is kept, because pruned and half-written maps
are what the cache can have: `find_tree_entry` fails, `collect_all_oids` goes no
further, `modify_tree_entry` fails. A blob read as a tree has no entries.

### `GitRepo`

A task is a record with a program counter. The steps end where the code gives
up a lock or waits:

| Action | Code |
|---|---|
| `Submit`, `Check` | the head, then the objects, as each lookup of `repo.rs` takes them: the handler's checks, or a read |
| `StartFetch`, `Upload`, `Merge`, `SetHead`, `SetObjects` | `fetch`, 220-258, with `try_fetch` |
| `ClaimHead`, `Build` | `claim_objects`, 262-272, the edit, `build_commit` and the pack |
| `Advertise`, `ReceivePack`, `Report` | `try_push`: the advertisement, the server's work, the report; `push_with_cache` caches on success |
| `TryAgain`, `AttemptAgain` | the rounds of `do_fetch` and `do_push`, and of the loops around a write |
| `SessionFailed`, `LoseReport`, `TimedOut`, `Cancel`, `Restart`, `OtherPush` | what may go wrong, and other clients |
| `LateCommand` | a push command the server gets to after its client has gone |

`Check` is one step although a handler makes several lookups; `Handler` has
their steps. `Build` is one step because the map is cloned under its lock.

What a tree, a check, a read and an edit are is left to constants with named
assumptions: `ReachAssumption`, `EditAssumption`, `ReadAssumption`,
`PrecheckAssumption`. `MCGitRepo` gives them the operators of `RepoEdits`, TLC
evaluates the assumptions for that instance; `EditProofs` proves what
`EditAssumption` says of an edit (`EditedDelivers`, `EditedSame`) of
`RepoEdits` on any tree and any path.

The remote is modelled from what `transport.rs` sends and expects of it:
`git-receive-pack` unpacks, then updates the branch if it still has the old
value of the command (and, with `receive.denyNonFastForwards`, moves forward),
then reports. Objects that were unpacked stay when the update is refused.
The elements of `Faults`:

- `"session"`: a session that fails before the server acts, or (at `"upload"`)
  falls silent;
- `"late"`: a session that falls silent after the push command was sent and ends
  by `inactivity_timeout` (30 s, line 133). The command is in `late`: the server
  carries it out, refuses it or loses it at any later time, while the task is in its next
  round or has been answered;
- `"cancel"`, `"restart"`: a task dropped with its connection, the end of the
  process; a command that was sent is in `late` too;
- `"lost"`: a report that ends early, which `read_pkt_line` takes for the last packet;
- `"cut"`: an answer of `git-upload-pack` that ends before its pack. With git's
  own server that is no rare event but the answer to every fetch after the first
  one: it wants a flush before the first `have` line, `try_fetch` sends the line
  before it (`transport.rs:423-427`), and the server ends with a protocol error.
  A server that takes the line there has it only when a connection is dropped;
- `"corrupt"`: a pack that does not parse;
- `"unpack"`: a pack the server does not unpack; `"refuse"`: an update a hook
  refuses; `"rejected"`: a report in which `try_push` finds `non-fast-forward`,
  `fetch first` or `NG` and no `unpack ok`, of a push that was not applied.

A request counts as in flight until no command of its own is left in `late`. So
"one client that waits" means one that also waits until the server is done with
what a failed request sent; without that, a write may land after a later one.

### `Handler`

`web` is one request: `TakeHead` and `LookUp` are the two locks of one lookup
(`is_directory`, `file_size`, `read_file`, `list_dir`), `Lookups` the ones a
method makes in their order, with its short cuts, and `Answer` what it makes of
them. A row of a listing is a name, whether it is a directory, and a length,
which the blob with that length stands for. The checks before a write are here
as the separate lookups they are. Lookups made only for the debug log are left
out: they change nothing. The run has no restart, which would end the request.

### `Session`

The client's state is its place, the references it has read, the text of the
report and whether a pack came. `Offer` to `NoKeyWorked` are `connect_ssh` with
`try_agent_auth` and `try_default_keys`, which pass over a key file they cannot
read (`Unreadable`) and go on when the connection is closed or the agent does not
sign (`OfferFailed`); `ReadRef` is one turn of `read_refs`;
`Send`, `ReadReport`, `ReadAnswer` are the rest of `try_push` and `try_fetch`. `wire`
has the packets under way. `Cut` ends the connection after any number of them
and `TimedOut` after 30 seconds without one; either may look like the end of a
packet (`Eof`, which `read_pkt_line` takes for a flush) or be an error
(`Broken`). The server is external: it advertises, answers a want with a pack or,
if the client has named a `have`, without one (`ServeWant`), executes the command
or not, and answers in one packet (side-band), one for each line, without a
report, or never.

### `Packfile`

An entry has the bytes of its header, the base's id for a REF_DELTA, the
delta's bytes, and the length of its compressed data; inflating is external. The
packs of `MCPackfile` are written with git's encodings (`GitHeader`,
`GitOffset`, `GitDelta`) and read with davgit's (`DecodeSizeType`,
`DecodeOffset`, `ApplyDelta`), so a difference between the two shows as an
object lost, or found where there is none. `Hash` finds the object that has a
type and content. `WrittenByGit` says, of a pack of any length, that git wrote it:
the steps of each delta (`Step`: a copy out of the base, then bytes of its own)
make the entry's object of its base, and `GitDelta` is the bytes they are written
in. `MCPackfile` gives the steps of its packs and TLC evaluates `WrittenByGit` for
them (`ASSUME PacksAreGits`).

## Runs

`tlc -workers 2 -config <cfg> <module>`.

| Run | Bounds | States | Shows |
|---|---|---|---|
| `tree_edits` (`MCTreeEdits.cfg`) | all trees of names a, b, two levels; every request on every path, COPY and MOVE between all pairs | 31,581 | the tree after an edit is the file system asked for, and an edit that is impossible fails; the pack and the local map suffice; names stay unique and modes right; a map with holes changes nothing but whether the edit succeeds |
| `sequential` (`MCSequential.cfg`) | 2 requests one at a time, 3 rounds of both loops, 4 edits, all faults but `late`, `cut`, `refuse` | 146,657 | `Branch` is implemented; the cache has all of its head; acknowledged writes stay; the branch only moves forward; every request is answered |
| `timeouts` (`MCTimeouts.cfg`) | as above with moves, 2 rounds of the write, all faults but `rejected`, `cut`, `refuse` | 24,503 | the promise is kept when a command may still be carried out after its round has ended; the inductive invariant `TurnInv` |
| `concurrent` (`MCConcurrent.cfg`) | 2 requests at a time and a push of another client, 2 tries, 1 round, all faults | 507,261 | the inductive invariant, an intact remote, a cache within the remote, faithful commits and reads |
| `handler` (`MCHandler.cfg`) | one request of eight served beside 2 concurrent writes and a push of another client | 852,624 | each lookup is sound for the head it read; pushes take nothing from a reader; lookups of one head add up to one look at it; the inductive invariant `HandlerInv` |
| `session` (`MCSession.cfg`) | up to 2 agent keys (strange, known, RSA, not signed with) and 2 key files, 2 tries, either service, with and without a `have`, side-band and reports | 86,905 | a known key among those turned to gets in; a fetch is of its branch; a push session is a round of `GitRepo`; a session ends; the inductive invariants `SessionInv` and `KeysInv` |
| `packfile` (`MCPackfile.cfg`) | every order of bases and deltas in packs of 3 and 4 entries, distances of 127, 128, 16511 and 16512 bytes, a copy of 65536 bytes, 9 places to cut | 42,518 | numbers and deltas are read as git and davgit write them (`PackReadsBack`); what is found is what the pack stands for; what is missing has a reason; the inductive invariant `PackInv` |

Two requests are enough for the cache: it has two fields, so one task between
its two steps and one that moves the other field give every mixture of heads
and objects, and `OtherPush` adds a third client. Three rounds are those of the
code. The file systems of `MCGitRepo` have two names in one directory, enough
for an edit that depends on another (the same name) and for one that does not;
nested paths are the business of `tree_edits` and, for lookups, of `handler`, where a
directory becomes a file, loses one and is removed. The supply of commit ids is
large enough that no run uses it up (each attempt needs one). Packs of four
entries have a base, deferred deltas in both orders and a delta upon them. Two
tries of the SSH server are exceeded by two agent keys, which is what matters.

`sequential` leaves out `cut`, with which a write after a lost report is built
on the old head and replaces the commit. So what it, `timeouts` and the theorems
under `OneClient` promise holds with a server that takes a `have` before the
flush, not with git's own, to which `cut` is the normal case; `concurrent` has
it. Both runs also leave out `refuse`, with which a write that was not made is
acknowledged (run `refused`). `timeouts` leaves out `rejected`:
a report that says rejected makes the edit again from the start, and after a
timeout the first command may still be carried out, so that the edit takes
effect twice. Both are what the code does; the runs say under which faults the
promise holds.

`MaxOthers` and `MaxInFlight` are bounds of the check; `MaxAttempts` and
`MaxTries` are the `MAX_RETRIES` of `repo.rs` and `transport.rs`.

### Fairness

`FairSpec` (run `sequential`) adds, for each task, weak fairness of its own
steps or the end of its session with an error, because the runtime polls every
task and `inactivity_timeout` ends a session that stays silent. `Session`'s
`Spec` has weak fairness of the client or the timeout, which is what the first
stands on. Nothing is assumed of the remote, and no fault, restart or other
client's push is fair. A server that sends something every 29 seconds and
never ends is not covered: `wire` is finite in `Session`.

### Disagreements with the source's own words

Each of these runs ends in a counterexample, which is what the code does.

| Run | What it shows |
|---|---|
| `lost_update` | two concurrent writes: the second push carries the branch's value of a moment ago as its old value, so the first commit, acknowledged, drops off the branch (`transport.rs:515`; the log message at 477 expects a non-fast-forward to be returned) |
| `refused` | `unpack ok` contains `ok`: a refused update is answered with success and cached (`transport.rs:553`, `repo.rs:274`) |
| `wedged` | a fetch puts back a map cloned before another task's push: the head's objects are gone and writes fail from then on (`repo.rs:255`) |
| `move_into` | MOVE of a directory below itself deletes it (`repo.rs:392`) |
| `create_only` | two PUTs with `If-None-Match: *` create the same file, the second over the first (`handler.rs:152`) |

Others were met while modelling and have no run of their own:

- `modify_tree_entry` lists the rebuilt trees root first, "bottom-up (deepest
  first)" in its comment (`objects.rs:106`); the order does not matter to a pack.
- When a parent directory becomes a file between the handler's check and the
  fetch, a PUT makes a file entry that points to a tree, where the comment
  promises directories (`objects.rs:101`). `TreeStaysWellFormed` is about edits
  whose checks hold of the tree they are made on.
- A read during another request's fetch may report absent a file that every head has
  (`repo.rs:70`), since pruning takes the objects of the head it read.
  `FactsSound` and `ReadsSound` therefore say what is found, not that it is found.
- An answer of `git-upload-pack` without `PACK`, cut short or an error, counts as
  up to date (`transport.rs:439`), "the server had nothing new"; hence the last
  line of `FetchIsOfTheBranch`. With git's own server every fetch with a `have`
  ends that way (see fault `"cut"`), so a running davgit never sees what others push.
- PROPFIND may list a directory that is removed between its lookups as a file
  of length 0, with status 207.
- `README.md:59-63` gives an order in which keys are tried: `--ssh-key`, the agent,
  the default files. With `--ssh-key` that key is the only one: a session fails
  with a strange or unreadable one although the agent or a default file has a key
  the server knows (`transport.rs:142-160`). And an agent's RSA keys are offered
  without a hash, refused by servers that no longer take SHA-1 signatures, and use
  up tries. `KeyGetsIn` says what the code does in both cases.
- COPY and MOVE to the source itself, or to a directory that contains it, pass the
  handler's checks and are then answered with 500 (`repo.rs:382-389`): the source
  goes with the destination. So are PUT, DELETE and MOVE of the root. Nothing is
  pushed then; `EditDoesWhatWasAsked` says so.
- COPY reads no `Depth`: with `Depth: 0` it copies a directory with all that is in
  it (`handler.rs:351-410`). Of litmus' copymove suite `README.md:100` reports three
  failures (copy_coll overwrite, copy_shallow, move_coll), while
  `tests/litmus.rs:166` expects it to succeed.
- `README.md` says that LOCK and UNLOCK return 405 and PROPPATCH 501, while the
  handler answers 200, 204 and 207.

## Proofs

`tlapm` proves what follows for every value of the constants that meets the
named assumptions: any number of tasks, commits, rounds and tries, any set of
faults, packs of any length. Each theorem has its inductive invariant in the
module it is about, in the section "why that is so", and a run checks it there.

| Module | Theorem | |
|---|---|---|
| `GitRepoProofs` | `InvariantHolds`, `TypeCorrect` | `[]IInv`, `[]TypeOK` |
| | `RemoteStaysIntact`, `CacheStaysOnRemote` | `[]RemoteIntact`, `[]CacheOnRemote` |
| | `HistoryStaysFaithful`, `ReadsStaySound` | `[]HistoryIsFaithful`, `[]ReadsSound` |
| `OneClientProofs` | `TurnsHold` | `OneClient` gives `[]TurnInv` |
| | `AckedStaysDurable`, `CacheStaysComplete` | and `[]AckedDurable`, `[]CacheComplete` |
| | `BranchGrows` | and `BranchOnlyGrows`, of every step |
| `PromiseProofs` | `KeepsPromise` | and `ImplementsBranch`: `GitRepo` refines `Branch` |
| `SessionProofs` | `SessionHolds`, `FetchStaysOfTheBranch` | `[]SessionInv`, `[]FetchIsOfTheBranch` |
| | `KeepsRound` | `ImplementsRound`: a session is a round of `GitRepo` |
| `PackfileProofs` | `PacksStayReadBack`, `ParseHolds` | `PacksAreGits` gives `[]PackReadsBack`, `[]PackInv` |
| | `ParseStaysSound`, `WholePackStaysParsed`, `OnlyLateBasesStaySkipped` | and `[]ParseSound`, `[]WholePackIsParsed`, `[]OnlyLateBasesAreSkipped` |
| `SessionProofs` | `KeysHold`, `GoodKeyGetsIn` | `[]KeysInv`, `[]KeyGetsIn` |
| `EditProofs` | `PackAlwaysSuffices`, `MapAlwaysSuffices` | `[]PackSuffices`, `[]MapSuffices` |
| | `EditsStayLocal`, `TreesStayWellFormed` | `[]EditIsLocal`, `[]TreeStaysWellFormed` |
| | `EditsDoWhatWasAsked` | `[]EditDoesWhatWasAsked` |
| `HandlerProofs` | `HandlerInvariant` | `[]HandlerInv` |
| | `LookupsAreSound`, `PushesNeverDisturb` | `[]FactsSound`, `[]PushesDoNotDisturb` |
| | `RequestsSeeOneHead` | `[]OneHeadAnswers` |

### Under any interleaving (`GitRepoProofs`)

The four properties in the second and third row are not inductive. That the
remote stays intact when a pack is unpacked depends on what the pack was built
from: a cached head whose commit and
tree are at the remote (`CacheOnRemote`), an edit whose new tree is made of the
old one's objects and the pack (`EditAssumption`), and the fact that the remote
only gains objects. `IInv` states what each task holds in between:
`PushComplete` (pack and remote together make a complete commit),
`UnpackedIfReported` (why a success may be cached), `ReceivedKnown` and
`BaseKnown` (what a fetch received, and the head a task read, are at the
remote); and it states `PackComplete` of every command in `late`. It is checked
by the `concurrent` run.

The proof has one lemma per action. `LocalStep` covers the actions that change
neither the remote nor the commits: it asks only that what enters the cache is
at the remote and that the task's new state satisfies its part of the
invariant. `BuildStep`, `ReceivePackStep`, `TimedOutStep`, `LateCommandStep`,
`OtherPushStep` and `RestartStep` are the others. `UnpackedIsIntact` says what
unpacking a complete pack does to the remote, `OthersKeep` and `LateKeep` that
tasks and late commands keep their part when the remote gains objects,
`SentIsRight` that a command left behind is complete. Nothing about concurrency
has to be assumed: these four properties hold although the cache can be torn and
updates can be lost.

### When clients take turns (`OneClientProofs`, `PromiseProofs`)

`OneClient` is the hypothesis, and no part of it can go: with two requests in
flight, or another Git client, updates are lost (run `lost_update`) and the
cache is torn (`wedged`); with `refuse` a write that was not made is
acknowledged (`refused`); after a `cut` answer a write is built on an old head;
and `rejected` together with `late` makes an edit twice. All other faults are
allowed together: failed sessions, lost reports, corrupt packs, packs not
unpacked, cancelled requests, restarts, and either `late` or `rejected`.

`TurnInv` says who may move the branch next. At most one request is in flight,
and all push commands there are, those of the request and those it left
behind, are for one commit (`Pushed`), whose parent is the cached head; a
command left behind moves the branch from that parent or finds that an earlier
round has (`UnderWay`, `LateInv`); what the request has received is what the
branch has (`FetchInv`), and a report it reads is true (`PushInv`). With that,
an update that happens is to a child of the branch (`BranchTurn`), so the branch
only grows; and a success is answered only when the branch has the commit, so it
stays there. The lemmas about `Ancestors` stand on `OwnHistory`, that no line of
parents is circular or endless: `AncestorsOf` shows that the recursion which
defines `Ancestors` has a solution, without induction, as the smallest sets
closed under parents. The lemmas are again one per action; `LocalTurn` covers
those that make no commit and leave the branch where it is.

The refinement of `Branch` takes `IInv` and `TurnInv` before and after a step.
`SubmitOpens`, `ReceivePackOpens`, `LateCommandOpens`, `FinishEnds`, `Ends` and
`RestartEnds` map the steps that a client could see to those of `Branch`: a
request is made, takes effect, is answered, or is abandoned with its command
still under way, to take effect once or never; the others are stutters
(`GoesOn`). `TakesEffect` is the heart of it: the branch's new tree is the edit
applied to the whole of the tree it replaces, and not to the part of it that
happened to be cached (`CacheComplete`, `EditAssumption`).

### One session (`SessionProofs`)

`SessionInv` relates the client's references to what is still on its way: every
reference packet and every pack that can come in tells the one value the server
advertised (`Arriving`), and the server holds at most one request, with that
value (`ServerInv`). `OpenLineInv` is why a fetch without a pack means something:
on a connection that is open the first packet of the answer to a first fetch, one
without a `have`, is the pack.
`FetchIsOfTheBranch` follows. `KeepsRound` has one lemma for each step that
`GitRepo` sees: the advertisement, the server's work on the command, also after
the client has gone, the report and the ways to fail; all other steps leave the
mapped task as it is. It justifies the rounds that `KeepsPromise` builds on, but
the two are not joined in one theorem: a session may also end in the faults that
`OneClient` excludes.

`GoodKeyGetsIn` is about the keys. A server closes the connection after
`MaxAuthTries` keys it refused, and davgit goes on offering keys to the closed
connection, so where a good key is in the order decides. `KeysInv` counts:
while the connection is open, the failures the server has seen are no more than
the keys offered so far (`Offered`: those before the next that could be read),
and fewer if the agent did not sign with one; each of them was not accepted, or
came when the server had closed. The lemmas
count with the cardinality of sets (`OfferedCounts`), and `OfferedBefore` says
how the place of a key file follows from the number of the agent's keys and of
the readable files before it, which is how `KeyGetsIn` states it.

### One edit (`ObjectProofs`, `EditProofs`)

`TreeEdits` makes one edit on one tree; `PartsAssumption` says that what the
tree is made of is closed under entries and well formed, `RequestsAssumption`
that requests have the fields of their kind. The depth of trees and the length
of paths are not bounded. `modify_tree_entry` goes down a path and comes back
up, so the proofs are inductions along it, in both directions. They need no induction
theorem about operators: the places reached are a set (`Reaches`,
`ReachesBack`), and that a set of places has a least element comes from the
well-founded order of finite sets (`Least`). With it `WalkDef`, `SpineDef` and
`RebuiltDef` show that the recursive functions of `GitObjects` have a value at
every place.

An edit is one to three calls of `modify_tree_entry`, each on the map the one
before left. Three facts are carried through such a chain. `Delivers`: whoever
has the old tree whole has the new one whole with the pack, and so has the map.
`Same`: on a map with holes an edit fails or gives what it gives on the whole
map (`FindAmongMore`, `ModifiedAmongMore`). `KeepsForm`: entries keep the mode of
what they point to, if the checks held of this tree; a copy or move needs in
addition that what it puts somewhere is what `find_tree_entry` found
(`WalkAlongSpine` relates the walk of the checks to the spine of the edit).

`EditsDoWhatWasAsked` says what a checked write is for its user: it succeeds, and
at every path the new tree has what was asked for and otherwise what the old one
had. What is at a path is stated by `TreeViews`, which follows entries from the
root and knows nothing of spines, modes or maps. Seen from there, one call of
`modify_tree_entry` divides the paths: those that begin with its path see the leaf
put there or nothing (`ReachedAt`), the prefixes of its path see directories
(`SeenAbove`), all others leave the way of the edit at a first name and go
on in the old tree (`PathsPart`, `ReachedAside`). Two paths that go the same
way from the same object arrive at the same one (`InStep`), which is why
the copy at the destination shows what the source did (`CopySeen`). It succeeds
because with the whole tree at hand no tree on the way is missed
(`AlwaysOnTheWay`) and what exists has an entry for every name of its path
(`FoundIsNamed`); for the second and third call of a copy or move this is known
of the tree the one before left, through `Delivers` and `KeepsForm` (`ClearedSeen`,
`CopiedSeen`, `MovedSeen`). What is asked for (`Asked`) is said without the order of the three calls:
after a move the destination has what the source had, and the source is empty but for
the destination. In two cases the code cannot do that. A source that is the
destination or lies below it (`SourceInTarget`), like the root (`OfTheRoot`),
makes the request fail: the source is not found any more once the destination is
emptied (`SourceIsGone`), and nothing has been pushed by then (`ImpossibleFails`).
A destination below the source (`IntoItself`) is lost with it: of such a move the
theorem tells only that all beside the source stays as it was, and `move_into`
shows the loss. In all other moves neither path is below the other (`OneIsAlong`),
so the order does not matter.

### One request beside others (`HandlerProofs`)

`AllInv`, which is `IInv`, `HandlerInv`, `FactsSound` and `PushesDoNotDisturb`
together, is inductive. `HandlerInv` says which lookups a request has behind it
(`ScriptInv`: those that its method asks for, in order, given what was found
before); that the heads it read are commits; and, as long as other tasks have
only pushed since it began, what is in the cache (`CalmInv`) and in the packs
those tasks will put there (`PacksOnBase`): the whole tree of the head that
each was built on. Every action of `GitRepo` has to
keep that, so the proof goes over the actions once more with the lemmas of
`GitRepoProofs`; a lookup's own steps are `TakeHead`, `LookUp` and `Answer`.
`OneHeadAnswers` is not inductive and follows: if all lookups read one head and
its tree was in the cache, each found what it would find in the whole tree
(`ObjectProofs`, through `FindAmongMore`), and then, method by method, the
answer made of them is that of `RepoEdits` on one tree. `ClosureAssumption` says
that the closure of a tree has all that its entries point to; `RequestAssumption` gives
requests their shape and excludes the fault `"restart"`, which would end the
request served.

### One pack (`PackfileProofs`)

The hypothesis is `PacksAreGits`: every pack that a server sends is one that git
wrote (`WrittenByGit`). Of davgit's own packs nothing is assumed but that an id is
the hash of one object (`ObjAssumption`) and that a pack has commits, trees and
blobs, each once (`ListsAssumption`: `repo.rs:289` removes what is there twice).

`PacksStayReadBack` is about bytes. The encodings are recursive functions of a
number, so the proof first shows that there are such functions (`Recursion`, from
the least number at which one would be missing) and then, by the least
counterexample again, that every byte but the last says that more follow and
that the groups have the value of the number (`HeaderIsRead`, `DistanceIsRead`). In
a copy instruction the operand of bit i comes after as many bytes as there are bits
set below it, on the writer's side and on the reader's (`CopyIsRead`). Whatever the
steps of a delta, the loop of `apply_delta` that begins with the last k of them
adds what they make, by induction on k from the end of the delta backwards
(`DeltaIsApplied`). `EntriesAreRead` and `OwnPacksAreGits` put that together, entry
by entry; that no two entries start at one place follows from their lengths.

The other theorems are about order. The distance of an OFS_DELTA leads
to the entry it was made against, as no two entries start at one place
(`BaseIsFound`). `PackInv` says that deltas are put off in the order
of the pack, so that one which is passed over comes before all that are still
waiting (`Skipped`): a base found later can only be a deferred delta further on,
which is what the last line of `OnlyLateBasesAreSkipped` allows. With bases
first nothing is ever put off (`AllFoundInv`).

### Only checked by TLC

- Liveness (`EveryRequestAnswered`, `SessionEnds`), because of fairness.

## Not modelled

- OPTIONS, LOCK, UNLOCK, PROPPATCH: each gives one answer whatever happened
  before (LOCK says it granted an exclusive lock and keeps none). ETags other
  than as the identity of a content, content types, XML, malformed requests.
- SSH URLs, host keys (always accepted), the digits of a pkt-line (the lengths
  2 and 3, which `read_pkt_line` does not expect, are none that git sends), the
  capabilities other than side-band and report-status; the command line.
- The accept loop: an error of `accept` ends the process, which is `Restart`.
- zlib, beyond where the data of an entry begins and ends.
- Modes other than those of a file and a directory (executables, symlinks,
  submodules): they are one mode in the model. An edit that passes an entry on
  keeps its mode (`objects.rs:143`); a PUT onto it makes it a plain file
  (`repo.rs:447`), so that an executable loses its bit.
- Authors and messages of commits: a commit is its parent, tree and request.
  Two equal commits may share an id or not, as their timestamps do.
- Empty repositories and missing branches: the server does not start, and the
  branch is not deleted while it runs. `Session` has the missing branch, as a
  cut advertisement looks like one.

## Plan

1. That `MCGitRepo` with trees of any depth meets the assumptions of `GitRepo`,
   as one theorem of the lemmas in `EditProofs` and `HandlerProofs`.
