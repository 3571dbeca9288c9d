------------------------------- MODULE Session -------------------------------
(***************************************************************************)
(* One session with the remote, as try_fetch and try_push of               *)
(* src/git/transport.rs hold it: the keys offered, the reference           *)
(* advertisement read line by line, the command or the want, and the       *)
(* answer.  The connection may end anywhere, or go silent until the        *)
(* inactivity_timeout ends it; either way what was read so far may look    *)
(* complete, since the end of a stream is read as a flush.                 *)
(*                                                                         *)
(* The SSH server, git-upload-pack and git-receive-pack are external.      *)
(* GitRepo has a session in one or two steps: see SessionPromise.          *)
(***************************************************************************)
EXTENDS Naturals, FiniteSets, Sequences

CONSTANTS
  Setup,         \* how the two ends are set up, see below
  MaxAuthTries,  \* keys the SSH server lets a client try
  Tip,           \* the commit the branch points to at first
  Theirs,        \* the commit another client pushes
  Elsewhere,     \* the tip of another branch, which HEAD points to
  New,           \* the commit to push
  Pack,          \* and the objects in its pack
  None           \* no commit, no key

\* A setup: ssh_key (of --ssh-key, or None), agent and files (the identities of
\* the agent and the default key files there are, in order), service, have (the
\* head the client has), sideBand and reports (what the server is capable of).
\* A key: good (the server knows it), rsa, locked (a file behind a passphrase, an
\* identity the agent does not sign with).

Keys == [good : BOOLEAN, rsa : BOOLEAN, locked : BOOLEAN]

ASSUME SetupAssumption ==
  \A s \in Setup :
    s.ssh_key \in Keys \cup {None} /\ s.agent \in Seq(Keys) /\ s.files \in Seq(Keys)

ASSUME SessionAssumption ==
  /\ MaxAuthTries \in Nat \ {0}
  /\ New \in Pack /\ None \notin {Tip, Theirs, Elsewhere, New}
  /\ New \notin {Tip, Theirs}

VARIABLES
  setup,
  client,    \* the task: where it is, and what it has read
  line,      \* the connection, "open" or "closed"
  wire,      \* packets on their way to the client
  inbox,     \* the request the server has received and not dealt with
  failures,  \* keys the server has refused
  adv,       \* the branch, as the server has advertised it
  report,    \* what the server has reported to a client that is there
  ref, store

server  == <<inbox, failures, adv, report>>
remote  == <<ref, store>>
vars    == <<setup, client, line, wire, server, remote>>

-------------------------------------------------------------------------------
\* Packets.  The end of the stream is Eof at the end of a packet or within its
\* four digits, and Broken within its data, or if the session ends in an error.
Line(name, oid) == [kind |-> "ref", name |-> name, oid |-> oid]
Text(lines)     == [kind |-> "text", lines |-> lines]
PackOf(want)    == [kind |-> "pack", want |-> want]
Flush  == [kind |-> "flush"]
Eof    == [kind |-> "eof"]
Broken == [kind |-> "broken"]
Ended  == {"flush", "eof"}        \* read_pkt_line returns None

Advertisement == <<Line("HEAD", Elsewhere), Line("branch", ref), Line("other", Elsewhere), Flush>>

\* receive-pack reports in one packet of band 1, or in a packet for each line.
Reported(lines) ==
  LET has(text) == IF text \in lines THEN <<Text({text})>> ELSE <<>>
  IN  IF ~setup.reports THEN <<Eof>>
      ELSE IF setup.sideBand THEN <<Text(lines), Flush>>
      ELSE has("unpack ok") \o has("ok") \o has("ng") \o has("non-fast-forward") \o <<Flush>>

To(state) == client' = state
Done(result) == [client EXCEPT !.pc = "done", !.result = result]

-------------------------------------------------------------------------------
(* connect_ssh                                                              *)

Attempt(key, hash, locked, signs) ==
  [key |-> key, hash |-> hash, locked |-> locked, signs |-> signs]

\* An agent tells all its identities and signs without an RSA hash, if at all.
OfAgent(keys) == [i \in DOMAIN keys |-> Attempt(keys[i], FALSE, FALSE, ~keys[i].locked)]
OfFiles(keys) == [i \in DOMAIN keys |-> Attempt(keys[i], TRUE, keys[i].locked, TRUE)]

\* A mistake: no key file is tried when there is an agent.
MutantAttempts ==
  IF setup.ssh_key # None THEN OfFiles(<<setup.ssh_key>>)
  ELSE IF setup.agent # <<>> THEN OfAgent(setup.agent)
  ELSE OfFiles(setup.files)

\* The keys in the order in which they are taken: the one asked for, or those
\* of the agent and then the default key files.
Attempts ==
  IF setup.ssh_key # None THEN OfFiles(<<setup.ssh_key>>)
  ELSE OfAgent(setup.agent) \o OfFiles(setup.files)

\* The server asks for a signature before it lets the client in.
Asked(attempt)    == attempt.key.good /\ (attempt.key.rsa => attempt.hash)
Accepted(attempt) == Asked(attempt) /\ attempt.signs

\* A key file that cannot be read is passed over.
Unreadable ==
  /\ client.pc = "auth" /\ client.next <= Len(Attempts) /\ Attempts[client.next].locked
  /\ To([client EXCEPT !.next = @ + 1])
  /\ UNCHANGED <<setup, line, wire, server, remote>>

\* A mistake: the key is offered whether or not it could be read.
MutantOffer ==
  /\ client.pc = "auth" /\ client.next <= Len(Attempts)
  /\ To([client EXCEPT !.pc = "offered"])
  /\ UNCHANGED <<setup, line, wire, server, remote>>

Offer ==
  /\ client.pc = "auth" /\ client.next <= Len(Attempts) /\ ~Attempts[client.next].locked
  /\ To([client EXCEPT !.pc = "offered"])
  /\ UNCHANGED <<setup, line, wire, server, remote>>

OfferAnswered ==
  /\ client.pc = "offered" /\ line = "open"
  /\ \/ /\ Accepted(Attempts[client.next])
        /\ To([client EXCEPT !.pc = "refs"])
        /\ UNCHANGED <<line, failures>>
     \/ /\ ~Asked(Attempts[client.next])
        /\ To([client EXCEPT !.pc = "auth", !.next = @ + 1])
        /\ failures' = failures + 1
        /\ line' = IF failures' = MaxAuthTries THEN "closed" ELSE line
  /\ UNCHANGED <<setup, wire, inbox, adv, report, remote>>

\* The connection is closed, or the agent does not sign what the server asks
\* for: the error is logged and the next key is tried on the same connection.
OfferFailed ==
  /\ client.pc = "offered"
  /\ line = "closed" \/ (Asked(Attempts[client.next]) /\ ~Attempts[client.next].signs)
  /\ To([client EXCEPT !.pc = "auth", !.next = @ + 1])
  /\ UNCHANGED <<setup, line, wire, server, remote>>

NoKeyWorked ==
  /\ client.pc = "auth" /\ client.next > Len(Attempts)
  /\ To(Done("failed"))
  /\ UNCHANGED <<setup, line, wire, server, remote>>

-------------------------------------------------------------------------------
(* read_refs                                                                *)

Advertise ==
  /\ client.pc = "refs" /\ line = "open" /\ adv = None
  /\ wire' = wire \o Advertisement
  /\ adv' = ref
  /\ UNCHANGED <<setup, client, line, inbox, failures, report, remote>>

Learn(refs, packet) ==
  [n \in DOMAIN refs \cup {packet.name} |-> IF n = packet.name THEN packet.oid ELSE refs[n]]

\* A mistake: the branch is taken to be the one HEAD points to.
MutantBranch(refs) ==
  IF "HEAD" \in DOMAIN refs THEN refs["HEAD"] ELSE None

Branch(refs) == IF "branch" \in DOMAIN refs THEN refs["branch"] ELSE None

\* try_fetch fails without the branch; try_push takes it for a new one, with
\* the zero id (None) for the old value.
ReadRef ==
  /\ client.pc = "refs" /\ wire # <<>>
  /\ LET packet == Head(wire)
         branch == Branch(client.refs)
     IN  \/ packet.kind = "ref" /\ To([client EXCEPT !.refs = Learn(@, packet)])
         \/ /\ packet.kind \in Ended
            /\ setup.service = "git-upload-pack" /\ branch = None
            /\ To(Done("failed"))
         \/ /\ packet.kind \in Ended
            /\ setup.service = "git-receive-pack" \/ branch # None
            /\ To([client EXCEPT !.pc = "send", !.branch = branch])
         \/ packet.kind = "broken" /\ To(Done("failed"))
  /\ wire' = IF Head(wire) = Eof THEN wire ELSE Tail(wire)
  /\ UNCHANGED <<setup, line, server, remote>>

-------------------------------------------------------------------------------
(* The request and its answer                                               *)

\* The command with its pack, or the want.  Writing to a connection that has
\* ended may go unnoticed.
Send ==
  /\ client.pc = "send"
  /\ \/ To([client EXCEPT !.pc = "answer"])
     \/ line = "closed" /\ To(Done("failed"))
  /\ inbox' = IF line = "open" THEN client.branch ELSE None
  /\ UNCHANGED <<setup, line, wire, failures, adv, report, remote>>

\* The inbox has the old value of the command; the server acts on it if the
\* branch still has it.  What it sends on a closed connection is lost.
Answered(packets) ==
  /\ inbox' = None
  /\ wire' = IF line = "open" THEN wire \o packets ELSE wire

ServeCommand ==
  /\ setup.service = "git-receive-pack" /\ inbox # None
  /\ \E lines \in {{"unpack ok", "ok"}, {"unpack ok", "ng"}, {"ng"}, {"non-fast-forward"}} :
       /\ "ok" \in lines => inbox = ref
       /\ ref'   = IF "ok" \in lines THEN New ELSE ref
       /\ store' = IF "unpack ok" \in lines THEN store \cup Pack ELSE store
       /\ report' = IF client.pc = "done" THEN report ELSE lines
       /\ Answered(Reported(lines))
  /\ UNCHANGED <<setup, client, line, failures, adv>>

\* A want is answered with a pack.  One with a have may be answered without:
\* the client has it all, or the server, as git's own, takes no have before the
\* flush that ends the wants (transport.rs 423-427) and gives up.
ServeWant ==
  /\ setup.service = "git-upload-pack" /\ inbox # None
  /\ \/ Answered(<<PackOf(inbox), Eof>>)
     \/ setup.have # None /\ Answered(<<Eof>>)
  /\ UNCHANGED <<setup, client, line, failures, adv, report, remote>>

\* A server whose client has gone may end before it has dealt with the request.
Abandon ==
  /\ line = "closed" /\ inbox # None /\ inbox' = None
  /\ UNCHANGED <<setup, client, line, wire, failures, adv, report, remote>>

Contains(text, words) == words \in text \/ (words = "ok" /\ "unpack ok" \in text)

\* A mistake: a report that is missing is taken for a good one.
MutantClassify(text) ==
  IF text = {} \/ "unpack ok" \in text THEN "pushed" ELSE "failed"

Classify(text) ==
  IF Contains(text, "unpack ok") /\ Contains(text, "ok") THEN "pushed"
  ELSE IF Contains(text, "non-fast-forward") THEN "rejected"
  ELSE "failed"

ReadReport ==
  /\ client.pc = "answer" /\ setup.service = "git-receive-pack" /\ wire # <<>>
  /\ LET packet == Head(wire)
     IN  \/ packet.kind = "text" /\ To([client EXCEPT !.text = @ \cup packet.lines])
         \/ packet.kind \in Ended /\ To(Done(Classify(client.text)))
         \/ packet.kind = "broken" /\ To(Done("failed"))
  /\ wire' = IF Head(wire) = Eof THEN wire ELSE Tail(wire)
  /\ UNCHANGED <<setup, line, server, remote>>

\* read_to_end, and the search for PACK.
ReadAnswer ==
  /\ client.pc = "answer" /\ setup.service = "git-upload-pack" /\ wire # <<>>
  /\ LET packet == Head(wire)
     IN  \/ packet.kind = "pack" /\ To([client EXCEPT !.pack = packet.want])
         \/ packet.kind = "eof" /\ To(Done("fetched"))
         \/ packet.kind = "broken" /\ To(Done("failed"))
  /\ wire' = IF Head(wire) = Eof THEN wire ELSE Tail(wire)
  /\ UNCHANGED <<setup, line, server, remote>>

-------------------------------------------------------------------------------
(* What goes wrong                                                          *)

\* The connection ends after any number of the packets on their way.
Cut ==
  /\ line = "open" /\ client.pc # "done"
  /\ line' = "closed"
  /\ \E n \in 0..Len(wire), end \in {Eof, Broken} : wire' = SubSeq(wire, 1, n) \o <<end>>
  /\ UNCHANGED <<setup, client, server, remote>>

\* A mistake: the timeout is that of the connection only.
MutantTimedOut ==
  /\ line = "open" /\ client.pc = "offered"
  /\ line' = "closed" /\ wire' = <<Eof>>
  /\ UNCHANGED <<setup, client, server, remote>>

\* Nothing has come for 30 seconds (inactivity_timeout).
TimedOut ==
  /\ line = "open" /\ wire = <<>> /\ client.pc \in {"offered", "refs", "answer"}
  /\ line' = "closed"
  /\ \E end \in {Eof, Broken} : wire' = <<end>>
  /\ UNCHANGED <<setup, client, server, remote>>

OtherPush ==
  /\ Theirs \notin store
  /\ ref' = Theirs /\ store' = store \cup {Theirs}
  /\ UNCHANGED <<setup, client, line, wire, server>>

-------------------------------------------------------------------------------
Init ==
  /\ setup \in Setup
  /\ client = [pc |-> "auth", next |-> 1, refs |-> <<>>, branch |-> None, text |-> {},
               pack |-> None, result |-> "none"]
  /\ line = "open" /\ wire = <<>> /\ inbox = None /\ failures = 0 /\ adv = None /\ report = {}
  /\ ref = Tip /\ store = {Tip, Elsewhere}

Client == Unreadable \/ Offer \/ OfferFailed \/ NoKeyWorked \/ ReadRef \/ Send \/ ReadReport \/ ReadAnswer
Server == OfferAnswered \/ Advertise \/ ServeCommand \/ ServeWant \/ Abandon
Over   == client.pc = "done" /\ inbox = None /\ UNCHANGED vars

Next == Client \/ Server \/ Cut \/ TimedOut \/ OtherPush \/ Over

\* The runtime goes on with the task and the timeout ends a silence.  Nothing
\* is assumed of the server.
Spec == Init /\ [][Next]_vars /\ WF_vars(Client \/ TimedOut)

-------------------------------------------------------------------------------
\* A session gives up only without a key the server knows among those davgit
\* offers while the server still lets it try.  With --ssh-key that is the one key:
\* the agent and the default files, which README.md:59-63 has next in the order,
\* are not turned to (transport.rs 142-160).  Without it, it is any readable
\* default file and any key an agent signs with that is not RSA (signed without a
\* hash, which the server refuses), with fewer than MaxAuthTries offered before it.
KeyGetsIn ==
  client.result = "failed" /\ client.next > Len(Attempts) /\ wire = <<>> =>
    LET left(n)   == n < MaxAuthTries
        good(k)   == k.good /\ ~k.locked
        before(i) == {j \in 1..(i - 1) : ~setup.files[j].locked}
    IN  IF setup.ssh_key # None THEN ~good(setup.ssh_key)
        ELSE /\ \A i \in DOMAIN setup.agent :
                  left(i - 1) => ~good(setup.agent[i]) \/ setup.agent[i].rsa
             /\ \A i \in DOMAIN setup.files :
                  left(Len(setup.agent) + Cardinality(before(i))) => ~good(setup.files[i])

\* The commit a fetch comes back with is the one its branch had when the server
\* advertised it, never that of another branch, and its pack is made for it;
\* a first fetch, which names no have, has one unless the connection ended.
FetchIsOfTheBranch ==
  client.result = "fetched" =>
    /\ client.branch = adv
    /\ client.pack # None => client.pack = adv
    /\ client.pack = None => setup.have # None \/ line = "closed"

-------------------------------------------------------------------------------
(* Why that is so: what has been read and what is still on its way.         *)

Oids    == {Tip, Theirs, Elsewhere, New, None}
Reports == {{"unpack ok", "ok"}, {"unpack ok", "ng"}, {"ng"}, {"non-fast-forward"}}

RefMaps == UNION {[names -> Oids] : names \in SUBSET {"HEAD", "branch", "other"}}

ClientType ==
  [pc : {"auth", "offered", "refs", "send", "answer", "done"}, next : Nat \ {0}, refs : RefMaps,
   branch : Oids, text : SUBSET UNION Reports, pack : Oids,
   result : {"none", "failed", "fetched", "pushed", "rejected"}]

\* What can come in, whatever was cut: every line of an advertisement tells the
\* one value the server advertised, every line of a report is in its report.
Arriving ==
  {Eof, Broken} \cup {Text(lines) : lines \in SUBSET report} \cup
  IF adv = None THEN {}
  ELSE {Flush, Line("HEAD", Elsewhere), Line("branch", adv), Line("other", Elsewhere), PackOf(adv)}

ClientInv ==
  /\ client \in ClientType
  /\ client.pc # "done" => wire \in Seq(Arriving) /\ client.result = "none"
  /\ "branch" \in DOMAIN client.refs => adv # None /\ client.refs["branch"] = adv
  /\ client.branch \in {None, adv} /\ client.pack \in {None, adv} /\ client.text \subseteq report
  /\ client.pc \in {"send", "answer"} /\ setup.service = "git-upload-pack" =>
       adv # None /\ client.branch = adv

\* The server has at most one request, with the value it advertised, and has
\* done nothing before it.
ServerInv ==
  /\ adv \in Oids /\ ref \in Oids \ {None} /\ report \in Reports \cup {{}}
  /\ client.pc \in {"auth", "offered"} => adv = None
  /\ inbox # None => inbox = adv
  /\ inbox # None \/ client.pc \notin {"answer", "done"} => report = {} /\ ref # New
  /\ client.pc \notin {"answer", "done"} => inbox = None

\* On an open connection a phase ends with its last packet.
OpenLineInv ==
  \/ line = "closed"
  \/ /\ line = "open"
     /\ client.pc \in {"auth", "offered", "send"} => wire = <<>>
     /\ client.pc = "refs" => \A i \in 1..Len(wire) :
          wire[i].kind = "ref" \/ (wire[i].kind = "flush" /\ i = Len(wire))
     /\ /\ client.pc = "answer" /\ setup.service = "git-upload-pack"
        /\ setup.have = None /\ client.pack = None
        => wire = <<>> \/ Head(wire) = PackOf(adv)

\* The inductive invariant behind the theorems of SessionProofs.
SessionInv == ClientInv /\ ServerInv /\ OpenLineInv /\ FetchIsOfTheBranch

\* Keys the server was offered before the n-th.
Offered(n) == {j \in 1..(n - 1) : ~Attempts[j].locked}

\* What became of the keys before the next: the server refused them, or had
\* closed the connection after as many tries as it allows, unless it was cut.
KeysInv ==
  /\ setup \in Setup
  /\ client.pc \notin {"auth", "done"} => client.next <= Len(Attempts)
  /\ client.next > Len(Attempts) => inbox = None
  /\ client.pc \in {"auth", "offered"} =>
       IF line = "open" THEN failures \in 0..Cardinality(Offered(client.next)) /\ failures < MaxAuthTries
       ELSE wire # <<>> \/ Cardinality(Offered(client.next)) >= MaxAuthTries
  /\ client.pc = "offered" => ~Attempts[client.next].locked
  /\ (client.pc \in {"auth", "offered"} \/ client.next > Len(Attempts)) /\ wire = <<>> =>
       \A j \in 1..(client.next - 1) :
         \/ Attempts[j].locked \/ Cardinality(Offered(j)) >= MaxAuthTries
         \/ ~Accepted(Attempts[j])

\* Every session ends, whatever the server does or leaves undone.
SessionEnds == <>(client.pc = "done")
===============================================================================
