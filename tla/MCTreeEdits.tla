----------------------------- MODULE MCTreeEdits -----------------------------
\* Small inputs for TreeEdits: names a and b, two levels of directories.
EXTENDS TreeEdits

RECURSIVE MCParts(_)
MCParts(object) == {object} \cup UNION {MCParts(e.oid) : e \in Entries(object)}

Names == {"a", "b"}

Files       == {Entry(n, "blob", Blob("x")) : n \in Names}
MarkerEntry == Entry(Marker, "blob", Blob(""))
OneEach(entries) == {s \in SUBSET entries : \A e, f \in s : e.name = f.name => e = f}
SubTrees    == {TreeOf(s) : s \in SUBSET (Files \cup {MarkerEntry})}
RootEntries == Files \cup {Entry("a", "blob", Blob("")), Entry("b", "blob", Blob(""))}
                     \cup {Entry(n, "tree", t) : n \in Names, t \in SubTrees}
MCRoots     == {TreeOf(s) : s \in OneEach(RootEntries)}
FewRoots    == {t \in MCRoots : Cardinality(MCParts(t)) \in 3..6}

Targets == {<<>>} \cup {<<n>> : n \in Names} \cup {<<m, n>> : m, n \in Names}

\* As deep as an edit can make a tree.
MCPaths == LET all == Names \cup {Marker}
           IN  {<<>>} \cup {<<n>> : n \in all} \cup {<<m, n>> : m, n \in all}
                      \cup {<<l, m, n>> : l, m, n \in all}

MCRequests ==
  {Put(p, d, c) : p \in Targets, d \in {"", "y"}, c \in {"", "If-None-Match", "If-Match"}}
  \cup {Delete(p) : p \in Targets \cup {<<"a", Marker>>}}
  \cup {Mkcol(p, b) : p \in Targets, b \in BOOLEAN}
  \cup {Copy(p, q, o) : p, q \in Targets, o \in BOOLEAN}
  \cup {Move(p, q, o) : p, q \in Targets, o \in BOOLEAN}
===============================================================================
