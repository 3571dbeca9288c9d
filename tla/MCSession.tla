------------------------------- MODULE MCSession -------------------------------
\* A small instance of SessionPromise: up to two keys in each place, a server
\* that takes two tries.
EXTENDS SessionPromise

Key(good, rsa, locked) == [good |-> good, rsa |-> rsa, locked |-> locked]
Stranger == Key(FALSE, FALSE, FALSE)
Known    == Key(TRUE, FALSE, FALSE)
Rsa      == Key(TRUE, TRUE, FALSE)
Locked   == Key(TRUE, FALSE, TRUE)

UpToTwo(keys) == {<<>>} \cup {<<k>> : k \in keys} \cup (keys \X keys)

With(key, agent, files, service, have, sideBand, reports) ==
  [ssh_key |-> key, agent |-> agent, files |-> files, service |-> service, have |-> have,
   sideBand |-> sideBand, reports |-> reports]

\* Every way to find a key, and every way to use the session it opens.
MCSetup ==
  {With(key, <<>>, <<Known>>, "git-upload-pack", Tip, TRUE, TRUE) : key \in {Stranger, Rsa, Locked}}
  \cup {With(None, agent, files, "git-receive-pack", Tip, TRUE, TRUE) :
          agent \in UpToTwo({Stranger, Known, Rsa, Locked}), files \in UpToTwo({Stranger, Rsa, Locked})}
  \cup {With(Known, <<>>, <<>>, service, have, sideBand, reports) :
          service \in {"git-upload-pack", "git-receive-pack"}, have \in {None, Tip, Elsewhere},
          sideBand \in BOOLEAN, reports \in BOOLEAN}
===============================================================================
