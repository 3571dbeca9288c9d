------------------------------- MODULE EditProofs -------------------------------
(***************************************************************************)
(* Proofs about TreeEdits for any trees, paths and requests.               *)
(***************************************************************************)
EXTENDS TreeEdits, ObjectProofs

\* What an edit made among some objects does for whoever has the tree whole:
\* with the pack they have the new tree whole, and so has the map.
Delivers(r, held, objects) ==
  /\ IsSuccess(r) /\ r.pack \in Seq(PackOf(r))
  /\ r.root \in held \cup PackOf(r) /\ Closed(held \cup PackOf(r))
  /\ held \cup PackOf(r) \subseteq r.objects
  /\ Closed(objects) => Closed(r.objects)

LEMMA ModifyDelivers ==
  ASSUME NEW objects, NEW held, held \subseteq objects, Closed(held),
         NEW tree \in held, NEW path, IsPath(path),
         NEW leaf, leaf = Removal \/ leaf.oid \in held,
         ModifyTreeEntry(objects, tree, path, leaf).ok
  PROVE  Delivers(ModifyTreeEntry(objects, tree, path, leaf), held, objects)
<1> DEFINE r == ModifyTreeEntry(objects, tree, path, leaf)
<1>1. /\ IsSuccess(r) /\ IsList(r.pack, Len(path))
      /\ r.root \in PackOf(r) /\ Closed(held \cup PackOf(r))
      /\ held \cup PackOf(r) \subseteq r.objects
      /\ Closed(objects) => Closed(r.objects)
  BY ModifyKeeps
<1>2. r.pack \in Seq(PackOf(r))
  <2>1. Len(path) \in Nat
    BY DEF IsPath
  <2>2. \A n \in 1..Len(path) : r.pack[n] \in PackOf(r)
    BY <1>1 DEF PackOf, Members, IsList
  <2> HIDE DEF r
  <2> QED
    BY <1>1, <2>1, <2>2, SeqDef DEF IsList
<1> HIDE DEF r
<1> QED
  BY <1>1, <1>2 DEF Delivers, r

\* What is in two lists is in the one made of both.
LEMMA PackOfBoth ==
  ASSUME NEW S, NEW T, NEW s \in Seq(S), NEW t \in Seq(T)
  PROVE  LET r == s \o t
         IN  r \in Seq(Members(r)) /\ Members(r) = Members(s) \cup Members(t)
<1> USE DEF Members
<1> DEFINE r == s \o t
<1>1. s \in Seq(S \cup T) /\ t \in Seq(S \cup T)
  BY SeqMonotonic
<1>2. /\ r \in Seq(S \cup T) /\ Len(r) = Len(s) + Len(t)
      /\ \A i \in 1..Len(s) + Len(t) : r[i] = IF i <= Len(s) THEN s[i] ELSE t[i - Len(s)]
  BY <1>1, ConcatProperties
<1>3. /\ DOMAIN r = 1..(Len(s) + Len(t)) /\ DOMAIN s = 1..Len(s) /\ DOMAIN t = 1..Len(t)
      /\ Len(s) \in Nat /\ Len(t) \in Nat
  BY <1>1, <1>2
<1> HIDE DEF r
<1>4. Members(r) \subseteq Members(s) \cup Members(t)
  <2> SUFFICES ASSUME NEW i \in 1..(Len(s) + Len(t))
               PROVE  r[i] \in Members(s) \cup Members(t)
    BY <1>3
  <2>1. CASE i <= Len(s)
    BY <1>2, <1>3, <2>1
  <2>2. CASE ~(i <= Len(s))
    <3>1. i - Len(s) \in 1..Len(t) /\ r[i] = t[i - Len(s)]
      BY <1>2, <1>3, <2>2
    <3> QED
      BY <1>3, <3>1
  <2> QED
    BY <2>1, <2>2
<1>5. Members(s) \subseteq Members(r)
  <2> SUFFICES ASSUME NEW i \in 1..Len(s)
               PROVE  s[i] \in Members(r)
    BY <1>3
  <2>1. i \in 1..(Len(s) + Len(t)) /\ i <= Len(s)
    BY <1>3
  <2>2. r[i] = s[i]
    BY <1>2, <2>1
  <2> QED
    BY <1>3, <2>1, <2>2
<1>6. Members(t) \subseteq Members(r)
  <2> SUFFICES ASSUME NEW i \in 1..Len(t)
               PROVE  t[i] \in Members(r)
    BY <1>3
  <2>1. /\ i + Len(s) \in 1..(Len(s) + Len(t)) /\ ~(i + Len(s) <= Len(s))
        /\ (i + Len(s)) - Len(s) = i
    BY <1>3
  <2>2. r[i + Len(s)] = t[i]
    BY <1>2, <2>1
  <2> QED
    BY <1>3, <2>1, <2>2
<1>7. r \in Seq(Members(r))
  <2>1. \A i \in 1..Len(r) : r[i] \in Members(r)
    BY <1>2, <1>3
  <2>2. r = [i \in 1..Len(r) |-> r[i]] /\ Len(r) \in Nat
    BY <1>2, <1>3
  <2> QED
    BY <2>1, <2>2, SeqDef
<1> QED
  BY <1>4, <1>5, <1>6, <1>7 DEF r

\* Two edits, the second on what the first has left.
LEMMA ThenMakes ==
  ASSUME NEW first, NEW second, first.ok, second.ok, IsSuccess(second),
         first.pack \in Seq(PackOf(first)), second.pack \in Seq(PackOf(second))
  PROVE  LET r == Then(first, second)
         IN  /\ IsSuccess(r) /\ r.root = second.root /\ r.objects = second.objects
             /\ r.pack \in Seq(PackOf(r)) /\ PackOf(r) = PackOf(first) \cup PackOf(second)
<1> DEFINE r == Then(first, second)
<1>1. r = [second EXCEPT !.pack = first.pack \o second.pack]
  BY DEF Then
<1>2. /\ IsSuccess(r) /\ r.root = second.root /\ r.objects = second.objects
      /\ r.pack = first.pack \o second.pack
  BY <1>1 DEF IsSuccess
<1>3. r.pack \in Seq(PackOf(r)) /\ PackOf(r) = PackOf(first) \cup PackOf(second)
  BY <1>2, PackOfBoth DEF PackOf
<1> QED
  BY <1>2, <1>3

LEMMA ThenDelivers ==
  ASSUME NEW objects, NEW held, NEW first, NEW second, first.ok, second.ok,
         Delivers(first, held, objects),
         Delivers(second, held \cup PackOf(first), first.objects)
  PROVE  Delivers(Then(first, second), held, objects)
<1> DEFINE r == Then(first, second)
<1>1. /\ IsSuccess(r) /\ r.root = second.root /\ r.objects = second.objects
      /\ r.pack \in Seq(PackOf(r)) /\ PackOf(r) = PackOf(first) \cup PackOf(second)
  BY ThenMakes DEF Delivers
<1> HIDE DEF r
<1> QED
  BY <1>1 DEF Delivers, r

LEMMA ThenSucceeds ==
  ASSUME NEW first, NEW second, Then(first, second).ok
  PROVE  first.ok /\ second.ok
  BY DEF Then

LEMMA BlobHasNoEntries ==
  ASSUME NEW data
  PROVE  Entries(Blob(data)) = {}
  BY DEF Blob, Entries

\* What a write makes of the edit of the tree.
Writes(r, m, blob) ==
  /\ m.ok /\ IsSuccess(r) /\ r.root = m.root /\ r.objects = m.objects
  /\ r.pack \in Seq(PackOf(r)) /\ PackOf(r) = PackOf(m) \cup {blob}

LEMMA WriteMakes ==
  ASSUME NEW objects, NEW tree, NEW path, IsPath(path), NEW blob,
         WriteFile(objects, tree, path, blob).ok
  PROVE  Writes(WriteFile(objects, tree, path, blob),
                ModifyTreeEntry(objects \cup {blob}, tree, path, Leaf("blob", blob)), blob)
<1> DEFINE leaf == Leaf("blob", blob)
           r    == WriteFile(objects, tree, path, blob)
           m    == ModifyTreeEntry(objects \cup {blob}, tree, path, leaf)
<1>1. m.ok /\ r = [m EXCEPT !.pack = Append(m.pack, blob)]
  BY DEF WriteFile
<1>2. IsSuccess(m) /\ m.pack \in Seq(PackOf(m))
  <2>1. IsSuccess(m) /\ m.pack = NewOf(tree, path, leaf)
    BY <1>1, Modified
  <2>2. Len(path) \in Nat /\ DOMAIN Spine(tree, path) = 1..Len(path)
    BY SpineDef DEF IsPath
  <2> DEFINE new == NewOf(tree, path, leaf)
  <2>3. new = [n \in 1..Len(path) |-> new[n]]
    BY <2>2, RebuiltDef DEF NewOf
  <2> HIDE DEF new
  <2>4. m.pack = [n \in 1..Len(path) |-> m.pack[n]]
    BY <2>1, <2>3 DEF new
  <2> HIDE DEF m
  <2>5. \A n \in 1..Len(path) : m.pack[n] \in PackOf(m)
    BY <2>4 DEF PackOf, Members
  <2> QED
    BY <2>1, <2>2, <2>4, <2>5, SeqDef
<1>3. /\ IsSuccess(r) /\ r.root = m.root /\ r.objects = m.objects
      /\ r.pack = Append(m.pack, blob)
  <2> HIDE DEF m, r
  <2> QED
    BY <1>1, <1>2 DEF IsSuccess
<1> HIDE DEF m, r
<1>4. r.pack \in Seq(PackOf(r)) /\ PackOf(r) = PackOf(m) \cup {blob}
  <2> DEFINE last == <<blob>>
  <2>1. last \in Seq({blob}) /\ Members(last) = {blob}
    BY DEF Members
  <2>2. r.pack = m.pack \o last
    <3>1. m.pack \in Seq(PackOf(m) \cup {blob})
      BY <1>2, SeqMonotonic
    <3> QED
      BY <1>3, <3>1, AppendIsConcat
  <2> HIDE DEF last
  <2>3. r.pack \in Seq(Members(r.pack)) /\ Members(r.pack) = Members(m.pack) \cup Members(last)
    BY <1>2, <2>1, <2>2, PackOfBoth
  <2> QED
    BY <2>1, <2>3 DEF PackOf
<1>5. Writes(r, m, blob)
  BY <1>1, <1>3, <1>4 DEF Writes
<1> QED
  BY <1>5 DEF m, r

LEMMA WriteDelivers ==
  ASSUME NEW objects, NEW held, held \subseteq objects, Closed(held),
         NEW tree \in held, NEW path, IsPath(path), NEW data,
         WriteFile(objects, tree, path, Blob(data)).ok
  PROVE  Delivers(WriteFile(objects, tree, path, Blob(data)), held, objects)
<1> DEFINE blob == Blob(data)
           r    == WriteFile(objects, tree, path, blob)
           m    == ModifyTreeEntry(objects \cup {blob}, tree, path, Leaf("blob", blob))
<1>1. r.ok /\ Entries(blob) = {}
  BY BlobHasNoEntries
<1> HIDE DEF blob
<1>2. /\ m.ok /\ IsSuccess(r) /\ r.root = m.root /\ r.objects = m.objects
      /\ r.pack \in Seq(PackOf(r)) /\ PackOf(r) = PackOf(m) \cup {blob}
  <2>1. Writes(r, m, blob)
    BY <1>1, WriteMakes
  <2> HIDE DEF m, r
  <2> QED
    BY <2>1 DEF Writes
<1>3. Closed(held \cup {blob}) /\ (Closed(objects) => Closed(objects \cup {blob}))
  BY <1>1 DEF Closed
<1>4. Delivers(m, held \cup {blob}, objects \cup {blob})
  <2>1. Leaf("blob", blob).oid = blob
    BY DEF Leaf
  <2> QED
    BY <1>2, <1>3, <2>1, ModifyDelivers
<1> HIDE DEF m, r
<1>5. held \cup PackOf(r) = (held \cup {blob}) \cup PackOf(m)
  BY <1>2
<1>6. /\ m.root \in (held \cup {blob}) \cup PackOf(m)
      /\ Closed((held \cup {blob}) \cup PackOf(m))
      /\ (held \cup {blob}) \cup PackOf(m) \subseteq m.objects
      /\ Closed(objects) => Closed(m.objects)
  BY <1>3, <1>4 DEF Delivers
<1>7. Delivers(r, held, objects)
  BY <1>2, <1>5, <1>6 DEF Delivers
<1> QED
  BY <1>7 DEF r, blob

LEMMA RemoveDelivers ==
  ASSUME NEW objects, NEW held, held \subseteq objects, Closed(held),
         NEW tree \in held, NEW path, IsPath(path), RemoveTreeEntry(objects, tree, path).ok
  PROVE  Delivers(RemoveTreeEntry(objects, tree, path), held, objects)
  BY ModifyDelivers DEF RemoveTreeEntry

\* The source is found among the objects held, which need no other.
LEMMA CopyDelivers ==
  ASSUME NEW objects, NEW held, held \subseteq objects, Closed(held),
         NEW tree \in held, NEW src, IsPath(src), NEW dest, IsPath(dest),
         CopyTreeEntry(objects, tree, src, dest).ok
  PROVE  Delivers(CopyTreeEntry(objects, tree, src, dest), held, objects)
<1> DEFINE found == FindTreeEntry(objects, tree, src)
           leaf  == Leaf(found.mode, found.oid)
<1>1. found.answer = "some"
  BY DEF CopyTreeEntry, Failed
<1>2. CopyTreeEntry(objects, tree, src, dest) = ModifyTreeEntry(objects, tree, dest, leaf)
  BY <1>1 DEF CopyTreeEntry
<1>3. Len(src) \in Nat
  BY DEF IsPath
<1>4. found = FindTreeEntry(held, tree, src) /\ found.oid \in held
  BY <1>1, <1>3, FindAmongAll, FindAmongMore
<1>5. leaf.oid = found.oid
  BY DEF Leaf
<1> QED
  BY <1>2, <1>4, <1>5, ModifyDelivers

LEMMA UnchangedDelivers ==
  ASSUME NEW objects, NEW held, held \subseteq objects, Closed(held), NEW tree \in held
  PROVE  Unchanged(objects, tree).ok /\ Delivers(Unchanged(objects, tree), held, objects)
<1> DEFINE r == Unchanged(objects, tree)
<1>1. /\ IsSuccess(r) /\ r.ok /\ r.root = tree /\ r.pack = <<>> /\ r.objects = objects
  BY DEF Unchanged, IsSuccess
<1> HIDE DEF r
<1>2. PackOf(r) = {} /\ r.pack \in Seq(PackOf(r))
  BY <1>1, EmptySeq DEF PackOf, Members
<1>3. held \cup PackOf(r) = held
  BY <1>2
<1> QED
  BY <1>1, <1>2, <1>3 DEF Delivers, r

LEMMA MoveDelivers ==
  ASSUME NEW objects, NEW held, held \subseteq objects, Closed(held),
         NEW tree \in held, NEW src, IsPath(src), NEW dest, IsPath(dest), NEW isMove,
         CopyOrMove(objects, tree, src, dest, isMove).ok
  PROVE  Delivers(CopyOrMove(objects, tree, src, dest, isMove), held, objects)
<1> DEFINE target  == FindTreeEntry(objects, tree, dest)
           cleared == CASE target.answer = "some" -> RemoveTreeEntry(objects, tree, dest)
                        [] target.answer = "none" -> Unchanged(objects, tree)
                        [] target.answer = "err"  -> Failed(objects)
           copy    == CopyTreeEntry(cleared.objects, cleared.root, src, dest)
           copied  == Then(cleared, copy)
           removed == RemoveTreeEntry(copied.objects, copied.root, src)
           moved   == Then(copied, removed)
<1>1. CopyOrMove(objects, tree, src, dest, isMove) = IF isMove THEN moved ELSE copied
  BY DEF CopyOrMove
<1>2. cleared.ok => Delivers(cleared, held, objects)
  <2>1. target.answer \in {"some", "none", "err"}
    <3>1. Len(dest) \in Nat /\ Len(dest) \in 0..Len(dest)
      BY DEF IsPath
    <3>2. IsAnswer(target)
      BY <3>1, WalkAnswers DEF FindTreeEntry
    <3> QED
      BY <3>2, Answers DEF IsAnswer
  <2>2. CASE target.answer = "some"
    BY <2>2, RemoveDelivers
  <2>3. CASE target.answer = "none"
    BY <2>3, UnchangedDelivers
  <2>4. CASE target.answer = "err"
    BY <2>4 DEF Failed
  <2> QED
    BY <2>1, <2>2, <2>3, <2>4
<1> HIDE DEF cleared
<1>3. ASSUME copied.ok
      PROVE  Delivers(copied, held, objects)
  <2>1. cleared.ok /\ copy.ok
    BY <1>3, ThenSucceeds
  <2>2. Delivers(cleared, held, objects)
    BY <1>2, <2>1
  <2>3. Delivers(copy, held \cup PackOf(cleared), cleared.objects)
    BY <2>1, <2>2, CopyDelivers DEF Delivers
  <2> QED
    BY <2>1, <2>2, <2>3, ThenDelivers
<1> HIDE DEF copied
<1>4. ASSUME moved.ok
      PROVE  Delivers(moved, held, objects)
  <2>1. copied.ok /\ removed.ok
    BY <1>4, ThenSucceeds
  <2>2. Delivers(copied, held, objects)
    BY <1>3, <2>1
  <2>3. Delivers(removed, held \cup PackOf(copied), copied.objects)
    BY <2>1, <2>2, RemoveDelivers DEF Delivers
  <2> QED
    BY <2>1, <2>2, <2>3, ThenDelivers
<1> QED
  BY <1>1, <1>3, <1>4

\* A request of one of the five kinds, with paths of names.
IsRequest(e) ==
  /\ e.op \in {"put", "delete", "mkcol", "copy", "move"}
  /\ IsPath(e.path) /\ (e.op \in {"copy", "move"} => IsPath(e.dest))

LEMMA MarkerPath ==
  ASSUME NEW path, IsPath(path)
  PROVE  IsPath(Append(path, Marker))
<1>1. PICK names : path \in Seq(names)
  BY DEF IsPath
<1>2. path \in Seq(names \cup {Marker})
  BY <1>1, SeqMonotonic
<1>3. Append(path, Marker) \in Seq(names \cup {Marker})
  BY <1>2, AppendProperties
<1> QED
  BY <1>3 DEF IsPath

LEMMA EditedDelivers ==
  ASSUME NEW objects, NEW held, held \subseteq objects, Closed(held),
         NEW tree \in held, NEW e, IsRequest(e), Edited(objects, tree, e).ok
  PROVE  Delivers(Edited(objects, tree, e), held, objects)
<1>1. CASE e.op = "put"
  <2>1. Edited(objects, tree, e) = WriteFile(objects, tree, e.path, Blob(e.data))
    BY <1>1 DEF Edited
  <2> QED
    BY <2>1, WriteDelivers DEF IsRequest
<1>2. CASE e.op = "delete"
  <2>1. Edited(objects, tree, e) = RemoveTreeEntry(objects, tree, e.path)
    BY <1>2 DEF Edited
  <2> QED
    BY <2>1, RemoveDelivers DEF IsRequest
<1>3. CASE e.op = "mkcol"
  <2>1. Edited(objects, tree, e) = WriteFile(objects, tree, Append(e.path, Marker), Blob(""))
    BY <1>3 DEF Edited, CreateDir
  <2> QED
    BY <2>1, WriteDelivers, MarkerPath DEF IsRequest
<1>4. CASE e.op \in {"copy", "move"}
  <2>1. \E isMove : Edited(objects, tree, e) = CopyOrMove(objects, tree, e.path, e.dest, isMove)
    BY <1>4 DEF Edited
  <2> QED
    BY <1>4, <2>1, MoveDelivers DEF IsRequest
<1> QED
  BY <1>1, <1>2, <1>3, <1>4 DEF IsRequest

-------------------------------------------------------------------------------
\* An edit that succeeds, made among more objects, does the same.
Same(r, m) ==
  /\ IsSuccess(r) /\ IsSuccess(m)
  /\ m.root = r.root /\ m.pack = r.pack /\ r.objects \subseteq m.objects

LEMMA ModifySame ==
  ASSUME NEW objects, NEW more, objects \subseteq more, NEW tree, NEW path, IsPath(path), NEW leaf,
         ModifyTreeEntry(objects, tree, path, leaf).ok
  PROVE  Same(ModifyTreeEntry(objects, tree, path, leaf), ModifyTreeEntry(more, tree, path, leaf))
<1> DEFINE r == ModifyTreeEntry(objects, tree, path, leaf)
           m == ModifyTreeEntry(more, tree, path, leaf)
<1>1. m.ok /\ m.root = r.root /\ m.pack = r.pack /\ r.objects \subseteq m.objects
  BY ModifiedAmongMore
<1>2. IsSuccess(r) /\ IsSuccess(m)
  BY <1>1, Modified
<1> QED
  BY <1>1, <1>2 DEF Same

LEMMA CopySame ==
  ASSUME NEW objects, NEW more, objects \subseteq more, NEW tree, NEW src, IsPath(src),
         NEW dest, IsPath(dest), CopyTreeEntry(objects, tree, src, dest).ok
  PROVE  Same(CopyTreeEntry(objects, tree, src, dest), CopyTreeEntry(more, tree, src, dest))
<1> DEFINE found == FindTreeEntry(objects, tree, src)
           leaf  == Leaf(found.mode, found.oid)
<1>1. found.answer = "some"
  BY DEF CopyTreeEntry, Failed
<1>2. FindTreeEntry(more, tree, src) = found
  BY <1>1, FindAmongMore DEF IsPath
<1>3. /\ CopyTreeEntry(objects, tree, src, dest) = ModifyTreeEntry(objects, tree, dest, leaf)
      /\ CopyTreeEntry(more, tree, src, dest) = ModifyTreeEntry(more, tree, dest, leaf)
  BY <1>1, <1>2 DEF CopyTreeEntry
<1> QED
  BY <1>3, ModifySame

LEMMA Repacked ==
  ASSUME NEW r, IsSuccess(r), NEW pack, NEW s, s = [r EXCEPT !.pack = pack]
  PROVE  IsSuccess(s) /\ s.root = r.root /\ s.objects = r.objects /\ s.pack = pack
<1> DEFINE a == r.root
           b == r.pack
           c == r.objects
<1>1. r = [ok |-> TRUE, root |-> a, pack |-> b, objects |-> c]
  BY DEF IsSuccess
<1> HIDE DEF a, b, c
<1>2. s = [ok |-> TRUE, root |-> a, pack |-> pack, objects |-> c]
  BY <1>1
<1>3. s.root = a /\ s.objects = c /\ s.pack = pack
  BY <1>2
<1>4. IsSuccess(s)
  BY <1>2, <1>3 DEF IsSuccess
<1> QED
  BY <1>3, <1>4 DEF a, c

LEMMA ThenSame ==
  ASSUME NEW first, NEW second, NEW first2, NEW second2, first.ok, second.ok,
         Same(first, first2), Same(second, second2)
  PROVE  Same(Then(first, second), Then(first2, second2))
<1> DEFINE r == Then(first, second)
           m == Then(first2, second2)
<1>1. first2.ok /\ second2.ok
  BY DEF Same, IsSuccess
<1>2. /\ r = [second EXCEPT !.pack = first.pack \o second.pack]
      /\ m = [second2 EXCEPT !.pack = first2.pack \o second2.pack]
  BY <1>1 DEF Then
<1>3. IsSuccess(second) /\ IsSuccess(second2)
  BY DEF Same
<1> HIDE DEF r, m
<1> DEFINE p == first.pack \o second.pack
           q == first2.pack \o second2.pack
<1>4. r = [second EXCEPT !.pack = p] /\ m = [second2 EXCEPT !.pack = q]
  BY <1>2
<1> HIDE DEF p, q
<1>5. IsSuccess(r) /\ r.root = second.root /\ r.objects = second.objects /\ r.pack = p
  BY <1>4, <1>3, Repacked
<1>6. IsSuccess(m) /\ m.root = second2.root /\ m.objects = second2.objects /\ m.pack = q
  BY <1>4, <1>3, Repacked
<1>7. second2.root = second.root /\ p = q /\ second.objects \subseteq second2.objects
  BY DEF Same, p, q
<1>8. Same(r, m)
  BY <1>5, <1>6, <1>7 DEF Same
<1> QED
  BY <1>8 DEF r, m

LEMMA WriteSame ==
  ASSUME NEW objects, NEW more, objects \subseteq more, NEW tree, NEW path, IsPath(path), NEW blob,
         WriteFile(objects, tree, path, blob).ok
  PROVE  Same(WriteFile(objects, tree, path, blob), WriteFile(more, tree, path, blob))
<1> DEFINE leaf == Leaf("blob", blob)
           r    == ModifyTreeEntry(objects \cup {blob}, tree, path, leaf)
           m    == ModifyTreeEntry(more \cup {blob}, tree, path, leaf)
           w    == WriteFile(objects, tree, path, blob)
           v    == WriteFile(more, tree, path, blob)
<1>1. r.ok /\ w = [r EXCEPT !.pack = Append(r.pack, blob)]
  BY DEF WriteFile
<1>2. Same(r, m) /\ IsSuccess(r) /\ IsSuccess(m)
  <2>1. objects \cup {blob} \subseteq more \cup {blob}
    OBVIOUS
  <2>2. Same(r, m)
    BY <1>1, <2>1, ModifySame
  <2> HIDE DEF r, m
  <2> QED
    BY <2>2 DEF Same
<1>3. v = [m EXCEPT !.pack = Append(m.pack, blob)]
  <2>1. m.ok
    BY <1>2 DEF Same, IsSuccess
  <2> QED
    BY <2>1 DEF WriteFile
<1> HIDE DEF r, m, w, v
<1> DEFINE p == Append(r.pack, blob)
           q == Append(m.pack, blob)
<1>4. w = [r EXCEPT !.pack = p] /\ v = [m EXCEPT !.pack = q]
  BY <1>1, <1>3
<1>5. p = q
  BY <1>2 DEF Same
<1> HIDE DEF p, q
<1>6. IsSuccess(w) /\ w.root = r.root /\ w.objects = r.objects /\ w.pack = p
  BY <1>2, <1>4, Repacked
<1>7. IsSuccess(v) /\ v.root = m.root /\ v.objects = m.objects /\ v.pack = q
  BY <1>2, <1>4, Repacked
<1>8. Same(w, v)
  BY <1>2, <1>5, <1>6, <1>7 DEF Same
<1> QED
  BY <1>8 DEF w, v

\* What CopyOrMove does first.
ClearedAt(objects, tree, dest) ==
  LET target == FindTreeEntry(objects, tree, dest)
  IN  CASE target.answer = "some" -> RemoveTreeEntry(objects, tree, dest)
        [] target.answer = "none" -> Unchanged(objects, tree)
        [] target.answer = "err"  -> Failed(objects)

LEMMA ClearSame ==
  ASSUME NEW objects, NEW more, objects \subseteq more, NEW tree, NEW dest, IsPath(dest),
         ClearedAt(objects, tree, dest).ok
  PROVE  Same(ClearedAt(objects, tree, dest), ClearedAt(more, tree, dest))
<1> DEFINE target == FindTreeEntry(objects, tree, dest)
<1>1. Len(dest) \in Nat /\ Len(dest) \in 0..Len(dest)
  BY DEF IsPath
<1>2. target.answer \in {"some", "none", "err"}
  BY <1>1, WalkAnswers, Answers DEF FindTreeEntry, IsAnswer
<1>3. target.answer # "err"
  BY DEF ClearedAt, Failed
<1>4. FindTreeEntry(more, tree, dest) = target
  BY <1>1, <1>3, FindAmongMore
<1>5. CASE target.answer = "some"
  <2>1. /\ ClearedAt(objects, tree, dest) = ModifyTreeEntry(objects, tree, dest, Removal)
        /\ ClearedAt(more, tree, dest) = ModifyTreeEntry(more, tree, dest, Removal)
    BY <1>4, <1>5 DEF ClearedAt, RemoveTreeEntry
  <2> QED
    BY <2>1, ModifySame
<1>6. CASE target.answer = "none"
  <2>1. /\ ClearedAt(objects, tree, dest) = Unchanged(objects, tree)
        /\ ClearedAt(more, tree, dest) = Unchanged(more, tree)
    BY <1>4, <1>6 DEF ClearedAt
  <2> QED
    BY <2>1 DEF Unchanged, Same, IsSuccess
<1> QED
  BY <1>2, <1>3, <1>5, <1>6

LEMMA MoveSame ==
  ASSUME NEW objects, NEW more, objects \subseteq more, NEW tree, NEW src, IsPath(src),
         NEW dest, IsPath(dest), NEW isMove, CopyOrMove(objects, tree, src, dest, isMove).ok
  PROVE  Same(CopyOrMove(objects, tree, src, dest, isMove), CopyOrMove(more, tree, src, dest, isMove))
<1> DEFINE cleared(o) == ClearedAt(o, tree, dest)
           copy(o)    == CopyTreeEntry(cleared(o).objects, cleared(o).root, src, dest)
           copied(o)  == Then(cleared(o), copy(o))
           removed(o) == RemoveTreeEntry(copied(o).objects, copied(o).root, src)
           moved(o)   == Then(copied(o), removed(o))
<1>1. \A o : CopyOrMove(o, tree, src, dest, isMove) = IF isMove THEN moved(o) ELSE copied(o)
  BY DEF CopyOrMove, ClearedAt
<1>2. ASSUME copied(objects).ok
      PROVE  Same(copied(objects), copied(more))
  <2>1. cleared(objects).ok /\ copy(objects).ok
    BY <1>2, ThenSucceeds
  <2>2. Same(cleared(objects), cleared(more))
    BY <2>1, ClearSame
  <2>3. cleared(objects).objects \subseteq cleared(more).objects /\ cleared(more).root = cleared(objects).root
    BY <2>2 DEF Same
  <2>4. Same(copy(objects), copy(more))
    BY <2>1, <2>3, CopySame
  <2> QED
    BY <2>1, <2>2, <2>4, ThenSame
<1>3. ASSUME moved(objects).ok
      PROVE  Same(moved(objects), moved(more))
  <2>1. copied(objects).ok /\ removed(objects).ok
    BY <1>3, ThenSucceeds
  <2>2. Same(copied(objects), copied(more))
    BY <1>2, <2>1
  <2> HIDE DEF copied
  <2>3. copied(objects).objects \subseteq copied(more).objects /\ copied(more).root = copied(objects).root
    BY <2>2 DEF Same
  <2>4. Same(removed(objects), removed(more))
    BY <2>1, <2>3, ModifySame DEF RemoveTreeEntry
  <2> QED
    BY <2>1, <2>2, <2>4, ThenSame
<1> HIDE DEF copied, moved
<1> QED
  BY <1>1, <1>2, <1>3

LEMMA EditedSame ==
  ASSUME NEW objects, NEW more, objects \subseteq more, NEW tree, NEW e, IsRequest(e),
         Edited(objects, tree, e).ok
  PROVE  Same(Edited(objects, tree, e), Edited(more, tree, e))
<1>1. CASE e.op = "put"
  <2>1. \A o : Edited(o, tree, e) = WriteFile(o, tree, e.path, Blob(e.data))
    BY <1>1 DEF Edited
  <2> QED
    BY <2>1, WriteSame DEF IsRequest
<1>2. CASE e.op = "delete"
  <2>1. \A o : Edited(o, tree, e) = ModifyTreeEntry(o, tree, e.path, Removal)
    BY <1>2 DEF Edited, RemoveTreeEntry
  <2> QED
    BY <2>1, ModifySame DEF IsRequest
<1>3. CASE e.op = "mkcol"
  <2>1. \A o : Edited(o, tree, e) = WriteFile(o, tree, Append(e.path, Marker), Blob(""))
    BY <1>3 DEF Edited, CreateDir
  <2> QED
    BY <2>1, WriteSame, MarkerPath DEF IsRequest
<1>4. CASE e.op = "copy"
  <2>1. \A o : Edited(o, tree, e) = CopyOrMove(o, tree, e.path, e.dest, FALSE)
    BY <1>4 DEF Edited
  <2> QED
    BY <1>4, <2>1, MoveSame DEF IsRequest
<1>5. CASE e.op = "move"
  <2>1. \A o : Edited(o, tree, e) = CopyOrMove(o, tree, e.path, e.dest, TRUE)
    BY <1>5 DEF Edited
  <2> QED
    BY <1>5, <2>1, MoveSame DEF IsRequest
<1> QED
  BY <1>1, <1>2, <1>3, <1>4, <1>5 DEF IsRequest

-------------------------------------------------------------------------------
\* What an edit does for whoever has a well formed tree whole.
KeepsForm(r, held) == r.root.kind = "tree" /\ WellFormed(held \cup PackOf(r))

LEMMA ModifyKeepsForm ==
  ASSUME NEW objects, NEW held, Closed(held), WellFormed(held), NEW tree \in held,
         NEW path, IsPath(path), OnlyTrees(tree, path),
         NEW leaf, leaf = Removal \/ leaf.mode = leaf.oid.kind,
         ModifyTreeEntry(objects, tree, path, leaf).ok
  PROVE  KeepsForm(ModifyTreeEntry(objects, tree, path, leaf), held)
<1> DEFINE r   == ModifyTreeEntry(objects, tree, path, leaf)
           new == NewOf(tree, path, leaf)
           N   == Len(path)
<1>1. N \in Nat /\ N # 0 /\ r.root = new[1] /\ r.pack = new
  <2>1. N # 0 /\ r.root = new[1] /\ r.pack = new
    BY Modified
  <2> QED
    BY <2>1 DEF IsPath
<1>2. DOMAIN Spine(tree, path) = 1..N
  BY <1>1, SpineDef
<1>3. DOMAIN new = 1..N
  BY <1>1, <1>2, RebuiltDef DEF NewOf
<1>4. new[1].kind = "tree"
  <2>1. 1 \in 1..N
    BY <1>1
  <2> QED
    BY <1>1, <2>1, SpineOfNew
<1>5. WellFormed(held \cup NewTrees(tree, path, leaf))
  BY <1>1, ModifiedWellFormed
<1> HIDE DEF r, new
<1>6. PackOf(r) = NewTrees(tree, path, leaf)
  BY <1>1, <1>3 DEF PackOf, Members, NewTrees, new
<1>7. KeepsForm(r, held)
  BY <1>1, <1>4, <1>5, <1>6 DEF KeepsForm
<1> QED
  BY <1>7 DEF r

LEMMA RemoveKeepsForm ==
  ASSUME NEW objects, NEW held, Closed(held), WellFormed(held), NEW tree \in held,
         NEW path, IsPath(path), RemoveTreeEntry(objects, tree, path).ok
  PROVE  KeepsForm(RemoveTreeEntry(objects, tree, path), held)
<1>1. OnlyTrees(tree, path)
  BY RemovedFromTrees DEF RemoveTreeEntry
<1> QED
  BY <1>1, ModifyKeepsForm DEF RemoveTreeEntry

LEMMA CopyKeepsForm ==
  ASSUME NEW objects, NEW held, held \subseteq objects, Closed(held), WellFormed(held),
         NEW tree \in held, tree.kind = "tree", NEW src, IsPath(src),
         NEW dest, IsPath(dest), OnlyTrees(tree, dest), CopyTreeEntry(objects, tree, src, dest).ok
  PROVE  KeepsForm(CopyTreeEntry(objects, tree, src, dest), held)
<1> DEFINE found == FindTreeEntry(objects, tree, src)
           leaf  == Leaf(found.mode, found.oid)
<1>1. found.answer = "some"
  BY DEF CopyTreeEntry, Failed
<1>2. CopyTreeEntry(objects, tree, src, dest) = ModifyTreeEntry(objects, tree, dest, leaf)
  BY <1>1 DEF CopyTreeEntry
<1>3. Len(src) \in Nat /\ Len(src) \in 0..Len(src)
  BY DEF IsPath
<1>4. found = FindTreeEntry(held, tree, src)
  BY <1>3, FindAmongAll, FindAmongMore
<1>5. found.mode = found.oid.kind
  BY <1>1, <1>3, <1>4, FoundCarriesMode DEF FindTreeEntry
<1>6. leaf.mode = leaf.oid.kind
  BY <1>5 DEF Leaf
<1> QED
  BY <1>2, <1>6, ModifyKeepsForm

LEMMA WriteKeepsForm ==
  ASSUME NEW objects, NEW held, held \subseteq objects, Closed(held), WellFormed(held),
         NEW tree \in held, NEW path, IsPath(path), OnlyTrees(tree, path),
         NEW data, WriteFile(objects, tree, path, Blob(data)).ok
  PROVE  KeepsForm(WriteFile(objects, tree, path, Blob(data)), held)
<1> DEFINE blob == Blob(data)
           leaf == Leaf("blob", blob)
           r    == WriteFile(objects, tree, path, blob)
           m    == ModifyTreeEntry(objects \cup {blob}, tree, path, leaf)
<1>1. r.ok /\ Entries(blob) = {} /\ blob.kind = "blob"
  <2>1. blob.kind = "blob"
    BY DEF Blob
  <2> QED
    BY <2>1, BlobHasNoEntries
<1> HIDE DEF blob
<1>2. m.ok /\ r.root = m.root /\ PackOf(r) = PackOf(m) \cup {blob}
  <2>1. Writes(r, m, blob)
    BY <1>1, WriteMakes
  <2> HIDE DEF m, r
  <2> QED
    BY <2>1 DEF Writes
<1>3. Closed(held \cup {blob}) /\ WellFormed(held \cup {blob}) /\ tree \in held \cup {blob}
  BY <1>1 DEF Closed, WellFormed
<1>4. leaf.mode = leaf.oid.kind
  BY <1>1 DEF Leaf
<1>5. KeepsForm(m, held \cup {blob})
  BY <1>2, <1>3, <1>4, ModifyKeepsForm
<1> HIDE DEF r, m
<1>6. held \cup PackOf(r) = (held \cup {blob}) \cup PackOf(m)
  BY <1>2
<1>7. KeepsForm(r, held)
  BY <1>2, <1>5, <1>6 DEF KeepsForm
<1> QED
  BY <1>7 DEF r, blob

LEMMA ThenKeepsForm ==
  ASSUME NEW held, NEW first, NEW second, first.ok, second.ok, IsSuccess(second),
         first.pack \in Seq(PackOf(first)), second.pack \in Seq(PackOf(second)),
         KeepsForm(second, held \cup PackOf(first))
  PROVE  KeepsForm(Then(first, second), held)
<1> DEFINE r == Then(first, second)
<1>1. r.root = second.root /\ PackOf(r) = PackOf(first) \cup PackOf(second)
  BY ThenMakes
<1> HIDE DEF r
<1>2. held \cup PackOf(r) = (held \cup PackOf(first)) \cup PackOf(second)
  BY <1>1
<1>3. KeepsForm(r, held)
  BY <1>1, <1>2 DEF KeepsForm
<1> QED
  BY <1>3 DEF r

\* A copy or a move to a place in a directory.
LEMMA MoveKeepsForm ==
  ASSUME NEW held, Closed(held), WellFormed(held), NEW tree \in held, tree.kind = "tree",
         NEW src, IsPath(src), NEW dest, IsPath(dest),
         Len(dest) # 0 => IsDir(Walk(held, tree, dest)[Len(dest) - 1]),
         NEW isMove, CopyOrMove(held, tree, src, dest, isMove).ok
  PROVE  KeepsForm(CopyOrMove(held, tree, src, dest, isMove), held)
<1> DEFINE target  == FindTreeEntry(held, tree, dest)
           cleared == ClearedAt(held, tree, dest)
           copy    == CopyTreeEntry(cleared.objects, cleared.root, src, dest)
           copied  == Then(cleared, copy)
           removed == RemoveTreeEntry(copied.objects, copied.root, src)
           moved   == Then(copied, removed)
<1>1. CopyOrMove(held, tree, src, dest, isMove) = IF isMove THEN moved ELSE copied
  BY DEF CopyOrMove, ClearedAt
<1>2. Len(dest) \in Nat /\ Len(dest) \in 0..Len(dest)
  BY DEF IsPath
<1>3. ASSUME cleared.ok
      PROVE  /\ Delivers(cleared, held, held) /\ KeepsForm(cleared, held)
             /\ Len(dest) # 0 => OnlyTrees(cleared.root, dest)
  <2>1. target.answer \in {"some", "none", "err"}
    BY <1>2, WalkAnswers, Answers DEF FindTreeEntry, IsAnswer
  <2>2. CASE target.answer = "some"
    <3>1. cleared = RemoveTreeEntry(held, tree, dest)
      BY <2>2 DEF ClearedAt
    <3>2. Delivers(cleared, held, held) /\ KeepsForm(cleared, held)
      BY <1>3, <3>1, RemoveDelivers, RemoveKeepsForm
    <3>3. cleared.root = NewOf(tree, dest, Removal)[1]
      BY <1>3, <3>1, Modified DEF RemoveTreeEntry
    <3>4. Len(dest) # 0 => OnlyTrees(cleared.root, dest)
      BY <1>2, <3>3, SpineOfNew DEF OnlyTrees
    <3> QED
      BY <3>2, <3>4
  <2>3. CASE target.answer = "none"
    <3>1. cleared = Unchanged(held, tree)
      BY <2>3 DEF ClearedAt
    <3>2. cleared.root = tree /\ PackOf(cleared) = {}
      BY <3>1 DEF Unchanged, PackOf, Members
    <3>3. Delivers(cleared, held, held)
      BY <3>1, UnchangedDelivers
    <3>4. held \cup PackOf(cleared) = held
      BY <3>2
    <3>5. Len(dest) # 0 => OnlyTrees(tree, dest)
      BY <1>2, DirsAreTrees
    <3> HIDE DEF cleared
    <3> QED
      BY <3>2, <3>3, <3>4, <3>5 DEF KeepsForm
  <2>4. CASE target.answer = "err"
    BY <1>3, <2>4 DEF Failed, ClearedAt
  <2> QED
    BY <2>1, <2>2, <2>3, <2>4
<1> HIDE DEF cleared
<1>4. ASSUME copied.ok
      PROVE  Delivers(copied, held, held) /\ KeepsForm(copied, held)
  <2>1. cleared.ok /\ copy.ok
    BY <1>4, ThenSucceeds
  <2>2. Delivers(cleared, held, held) /\ KeepsForm(cleared, held)
    BY <1>3, <2>1
  <2>3. Delivers(copy, held \cup PackOf(cleared), cleared.objects)
    BY <2>1, <2>2, CopyDelivers DEF Delivers
  <2>4. Len(dest) # 0
    <3>1. PICK leaf : copy = ModifyTreeEntry(cleared.objects, cleared.root, dest, leaf)
      BY <2>1 DEF CopyTreeEntry, Failed
    <3>2. ModifyTreeEntry(cleared.objects, cleared.root, dest, leaf).ok
      BY <2>1, <3>1
    <3> QED
      BY <3>2, Modified
  <2>5. OnlyTrees(cleared.root, dest)
    BY <1>3, <2>1, <2>4
  <2>6. KeepsForm(copy, held \cup PackOf(cleared))
    BY <2>1, <2>2, <2>5, CopyKeepsForm DEF Delivers, KeepsForm
  <2> HIDE DEF copy
  <2>7. Delivers(copied, held, held)
    BY <2>1, <2>2, <2>3, ThenDelivers
  <2>8. KeepsForm(copied, held)
    BY <2>1, <2>2, <2>3, <2>6, ThenKeepsForm DEF Delivers
  <2> QED
    BY <2>7, <2>8
<1> HIDE DEF copied
<1>5. ASSUME moved.ok
      PROVE  KeepsForm(moved, held)
  <2>1. copied.ok /\ removed.ok
    BY <1>5, ThenSucceeds
  <2>2. Delivers(copied, held, held) /\ KeepsForm(copied, held)
    BY <1>4, <2>1
  <2>3. Delivers(removed, held \cup PackOf(copied), copied.objects)
    BY <2>1, <2>2, RemoveDelivers DEF Delivers
  <2>4. KeepsForm(removed, held \cup PackOf(copied))
    BY <2>1, <2>2, RemoveKeepsForm DEF Delivers, KeepsForm
  <2> HIDE DEF removed
  <2> QED
    BY <2>1, <2>2, <2>3, <2>4, ThenKeepsForm DEF Delivers
<1> QED
  BY <1>1, <1>4, <1>5

\* The first of the checks that fails is the answer; the request goes on when
\* none does.
LEMMA NoneFails ==
  ASSUME NEW checks, \E N \in Nat : DOMAIN checks = 1..N,
         \A i \in DOMAIN checks : checks[i].status # Proceed, FirstOf(checks) = Proceed
  PROVE  \A i \in DOMAIN checks : ~checks[i].when
<1> DEFINE failing == {i \in DOMAIN checks : checks[i].when}
           first   == CHOOSE i \in failing : \A j \in failing : i <= j
<1> PICK N \in Nat : DOMAIN checks = 1..N
  OBVIOUS
<1>1. failing \subseteq 0..N
  OBVIOUS
<1>2. CASE failing # {}
  <2> HIDE DEF failing
  <2>1. \E i \in failing : \A j \in failing : i <= j
    BY <1>1, <1>2, Least
  <2>2. first \in failing
    BY <2>1
  <2> HIDE DEF first
  <2>3. FirstOf(checks) = checks[first].status
    BY <1>2 DEF FirstOf, failing, first
  <2>4. first \in 1..N
    BY <2>2 DEF failing
  <2> QED
    BY <2>3, <2>4
<1> QED
  BY <1>2

LEMMA PutProceeds ==
  ASSUME NEW e, NEW parentIsDir \in BOOLEAN, NEW exists \in BOOLEAN,
         PutAnswer(e, parentIsDir, exists) = Proceed
  PROVE  parentIsDir
<1> DEFINE checks == << Check(IsDavPath(e.path), 405),
                        Check(~parentIsDir, 409),
                        Check(e.cond = "If-None-Match" /\ exists, 412),
                        Check(e.cond = "If-Match" /\ ~exists, 412),
                        Check(e.data = "" /\ ~exists, 201) >>
<1>1. DOMAIN checks = 1..5 /\ checks[2].when = ~parentIsDir
  BY DEF Check
<1>2. \A i \in 1..5 : checks[i].status # Proceed
  <2>1. checks[1].status = 405 /\ checks[2].status = 409 /\ checks[3].status = 412 /\ checks[4].status = 412 /\ checks[5].status = 201
    BY DEF Check
  <2>2. \A i \in 1..5 : i = 1 \/ i = 2 \/ i = 3 \/ i = 4 \/ i = 5
    OBVIOUS
  <2> HIDE DEF checks
  <2> QED
    BY <2>1, <2>2 DEF Proceed
<1>3. FirstOf(checks) = Proceed
  BY DEF PutAnswer
<1> HIDE DEF checks
<1>4. ~checks[2].when
  <2>1. \E N \in Nat : DOMAIN checks = 1..N
    BY <1>1
  <2>2. 2 \in DOMAIN checks /\ \A i \in DOMAIN checks : checks[i].status # Proceed
    BY <1>1, <1>2
  <2> QED
    BY <1>3, <2>1, <2>2, NoneFails
<1> QED
  BY <1>1, <1>4

LEMMA DeleteProceeds ==
  ASSUME NEW e, NEW exists \in BOOLEAN, DeleteAnswer(e, exists) = Proceed
  PROVE  exists
<1> DEFINE checks == << Check(IsDavPath(e.path), 405), Check(~exists, 404) >>
<1>1. DOMAIN checks = 1..2 /\ checks[2].when = ~exists
  BY DEF Check
<1>2. \A i \in 1..2 : checks[i].status # Proceed
  <2>1. checks[1].status = 405 /\ checks[2].status = 404
    BY DEF Check
  <2>2. \A i \in 1..2 : i = 1 \/ i = 2
    OBVIOUS
  <2> HIDE DEF checks
  <2> QED
    BY <2>1, <2>2 DEF Proceed
<1>3. FirstOf(checks) = Proceed
  BY DEF DeleteAnswer
<1> HIDE DEF checks
<1>4. ~checks[2].when
  <2>1. \E N \in Nat : DOMAIN checks = 1..N
    BY <1>1
  <2>2. 2 \in DOMAIN checks /\ \A i \in DOMAIN checks : checks[i].status # Proceed
    BY <1>1, <1>2
  <2> QED
    BY <1>3, <2>1, <2>2, NoneFails
<1> QED
  BY <1>1, <1>4

LEMMA MkcolProceeds ==
  ASSUME NEW e, NEW exists \in BOOLEAN, NEW parentIsDir \in BOOLEAN,
         MkcolAnswer(e, exists, parentIsDir) = Proceed
  PROVE  ~exists /\ parentIsDir
<1> DEFINE checks == << Check(e.body, 415), Check(exists, 405), Check(~parentIsDir, 409) >>
<1>1. DOMAIN checks = 1..3 /\ checks[2].when = exists /\ checks[3].when = ~parentIsDir
  BY DEF Check
<1>2. \A i \in 1..3 : checks[i].status # Proceed
  <2>1. checks[1].status = 415 /\ checks[2].status = 405 /\ checks[3].status = 409
    BY DEF Check
  <2>2. \A i \in 1..3 : i = 1 \/ i = 2 \/ i = 3
    OBVIOUS
  <2> HIDE DEF checks
  <2> QED
    BY <2>1, <2>2 DEF Proceed
<1>3. FirstOf(checks) = Proceed
  BY DEF MkcolAnswer
<1> HIDE DEF checks
<1>4. ~checks[2].when /\ ~checks[3].when
  <2>1. \E N \in Nat : DOMAIN checks = 1..N
    BY <1>1
  <2>2. 2 \in DOMAIN checks /\ 3 \in DOMAIN checks /\ \A i \in DOMAIN checks : checks[i].status # Proceed
    BY <1>1, <1>2
  <2> QED
    BY <1>3, <2>1, <2>2, NoneFails
<1> QED
  BY <1>1, <1>4

LEMMA CopyMoveProceeds ==
  ASSUME NEW e, NEW sourceExists \in BOOLEAN, NEW parentIsDir \in BOOLEAN, NEW destExists \in BOOLEAN,
         CopyMoveAnswer(e, sourceExists, parentIsDir, destExists) = Proceed
  PROVE  sourceExists /\ parentIsDir
<1> DEFINE checks == << Check(IsDavPath(e.path) \/ IsDavPath(e.dest), 404),
                        Check(~sourceExists, 404),
                        Check(~parentIsDir, 409),
                        Check(destExists /\ ~e.overwrite, 412) >>
<1>1. DOMAIN checks = 1..4 /\ checks[2].when = ~sourceExists /\ checks[3].when = ~parentIsDir
  BY DEF Check
<1>2. \A i \in 1..4 : checks[i].status # Proceed
  <2>1. checks[1].status = 404 /\ checks[2].status = 404 /\ checks[3].status = 409 /\ checks[4].status = 412
    BY DEF Check
  <2>2. \A i \in 1..4 : i = 1 \/ i = 2 \/ i = 3 \/ i = 4
    OBVIOUS
  <2> HIDE DEF checks
  <2> QED
    BY <2>1, <2>2 DEF Proceed
<1>3. FirstOf(checks) = Proceed
  BY DEF CopyMoveAnswer
<1> HIDE DEF checks
<1>4. ~checks[2].when /\ ~checks[3].when
  <2>1. \E N \in Nat : DOMAIN checks = 1..N
    BY <1>1
  <2>2. 2 \in DOMAIN checks /\ 3 \in DOMAIN checks /\ \A i \in DOMAIN checks : checks[i].status # Proceed
    BY <1>1, <1>2
  <2> QED
    BY <1>3, <2>1, <2>2, NoneFails
<1> QED
  BY <1>1, <1>4

\* The four checks, on the tree the edit is made on.
LEMMA ChecksHold ==
  ASSUME NEW held, NEW tree, NEW e, HandlerCheck(held, tree, e) = Proceed
  PROVE  /\ e.op = "put" => IsDirectory(held, tree, Parent(e.path))
         /\ e.op = "delete" => Exists(held, tree, e.path)
         /\ e.op = "mkcol" => ~Exists(held, tree, e.path) /\ IsDirectory(held, tree, Parent(e.path))
         /\ e.op \in {"copy", "move"} =>
              Exists(held, tree, e.path) /\ IsDirectory(held, tree, Parent(e.dest))
<1>1. \A path : IsDirectory(held, tree, path) \in BOOLEAN /\ Exists(held, tree, path) \in BOOLEAN
  BY DEF IsDirectory, IsFile, Exists
<1>2. CASE e.op = "put"
  <2>1. PutAnswer(e, IsDirectory(held, tree, Parent(e.path)), Exists(held, tree, e.path)) = Proceed
    BY <1>2 DEF HandlerCheck
  <2> QED
    BY <1>1, <1>2, <2>1, PutProceeds
<1>3. CASE e.op = "delete"
  <2>1. DeleteAnswer(e, Exists(held, tree, e.path)) = Proceed
    BY <1>3 DEF HandlerCheck
  <2> QED
    BY <1>1, <1>3, <2>1, DeleteProceeds
<1>4. CASE e.op = "mkcol"
  <2>1. MkcolAnswer(e, Exists(held, tree, e.path), IsDirectory(held, tree, Parent(e.path))) = Proceed
    BY <1>4 DEF HandlerCheck
  <2> QED
    BY <1>1, <1>4, <2>1, MkcolProceeds
<1>5. CASE e.op \in {"copy", "move"}
  <2>1. CopyMoveAnswer(e, Exists(held, tree, e.path), IsDirectory(held, tree, Parent(e.dest)),
                       Exists(held, tree, e.dest)) = Proceed
    BY <1>5 DEF HandlerCheck
  <2>2. Exists(held, tree, e.path) /\ IsDirectory(held, tree, Parent(e.dest))
    BY <1>1, <2>1, CopyMoveProceeds
  <2> QED
    BY <1>5, <2>2
<1> QED
  BY <1>2, <1>3, <1>4, <1>5

\* A path whose parent is a directory is walked through directories.
LEMMA ParentIsWalked ==
  ASSUME NEW objects, NEW tree, NEW path, IsPath(path), Len(path) # 0,
         IsDirectory(objects, tree, Parent(path))
  PROVE  IsDir(Walk(objects, tree, path)[Len(path) - 1])
<1> DEFINE N      == Len(path)
           parent == SubSeq(path, 1, N - 1)
<1>1. N \in Nat /\ N - 1 \in Nat /\ N - 1 <= N
  BY DEF IsPath
<1>2. Len(parent) = N - 1 /\ \A n \in 1..Len(parent) : parent[n] = path[n]
  <2>1. PICK names : path \in Seq(names)
    BY DEF IsPath
  <2>2. 1 \in 1..(N + 1) /\ N - 1 \in 0..N
    BY <1>1
  <2>3. /\ Len(parent) = IF 1 <= N - 1 THEN N - 1 ELSE 0
        /\ \A n \in 1..(N - 1) : parent[n] = path[n]
    BY <1>1, <2>1, <2>2, SubSeqProperties
  <2> HIDE DEF parent, N
  <2>4. Len(parent) = N - 1
    BY <1>1, <2>3
  <2> QED
    BY <2>3, <2>4
<1>3. Parent(path) = parent
  BY DEF Parent
<1> HIDE DEF parent
<1>4. Walk(objects, tree, parent)[N - 1] = Walk(objects, tree, path)[N - 1]
  <2>1. /\ Len(parent) \in Nat /\ Len(parent) <= Len(path) /\ N - 1 \in 0..Len(parent)
    BY <1>1, <1>2
  <2>2. \A n \in 0..Len(parent) : Walk(objects, tree, parent)[n] = Walk(objects, tree, path)[n]
    BY <1>1, <1>2, <2>1, WalkPrefix
  <2> QED
    BY <2>1, <2>2
<1>5. CASE N = 1
  <2>1. Walk(objects, tree, path)[0] = Found("tree", tree)
    BY <1>1, WalkDef
  <2> QED
    BY <1>5, <2>1, Answers DEF IsDir
<1>6. CASE N # 1
  <2>1. parent # <<>>
    BY <1>1, <1>2, <1>6
  <2>2. IsDir(FindTreeEntry(objects, tree, parent))
    BY <1>3, <2>1, Answers DEF IsDirectory, Lookup, IsDir
  <2> QED
    BY <1>2, <1>4, <2>2 DEF FindTreeEntry
<1> QED
  BY <1>5, <1>6

\* Nothing is at the path of a new directory, whose parent is one.
LEMMA NewPathIsAbsent ==
  ASSUME NEW objects, Closed(objects), NEW tree \in objects, tree # NoTree, NEW path, IsPath(path),
         IsDirectory(objects, tree, Parent(path)), ~Exists(objects, tree, path)
  PROVE  /\ Len(path) # 0 /\ IsDir(Walk(objects, tree, path)[Len(path) - 1])
         /\ Walk(objects, tree, path)[Len(path)].answer = "none"
<1> DEFINE N == Len(path)
           w == Walk(objects, tree, path)
<1>1. N \in Nat /\ N \in 0..N
  BY DEF IsPath
<1>2. N # 0
  <2>1. path # <<>>
    BY DEF Exists, IsDirectory
  <2> QED
    BY <2>1, EmptySeq DEF IsPath
<1>3. IsDir(w[N - 1])
  BY <1>2, ParentIsWalked
<1>4. w[N].answer = "none"
  <2>1. /\ w[N].answer # "err" /\ (w[N].answer = "some" => w[N].oid \in objects)
    BY <1>1, FindAmongAll DEF FindTreeEntry
  <2>2. IsAnswer(w[N])
    BY <1>1, WalkAnswers
  <2>3. w[N].answer # "some"
    BY <2>1 DEF Exists, IsDirectory, IsFile, Lookup, FindTreeEntry
  <2> HIDE DEF w
  <2> QED
    BY <2>1, <2>2, <2>3, Answers DEF IsAnswer
<1> QED
  BY <1>2, <1>3, <1>4

\* The path of a new directory's marker: down to it there are only trees, and
\* the last is the empty one that becomes the directory.
LEMMA NewDirIsTree ==
  ASSUME NEW objects, Closed(objects), WellFormed(objects),
         NEW tree \in objects, tree.kind = "tree", tree # NoTree, NEW path, IsPath(path),
         IsDirectory(objects, tree, Parent(path)), ~Exists(objects, tree, path)
  PROVE  OnlyTrees(tree, Append(path, Marker))
<1> DEFINE N    == Len(path)
           long == Append(path, Marker)
           w    == Walk(objects, tree, path)
           s    == Spine(tree, path)
           t    == Spine(tree, long)
<1>1. /\ N \in Nat /\ N \in 0..N
      /\ Len(long) = N + 1 /\ \A n \in 1..N : long[n] = path[n]
  <2>1. PICK names : path \in Seq(names)
    BY DEF IsPath
  <2>2. path \in Seq(names \cup {Marker})
    BY <2>1, SeqMonotonic
  <2> QED
    BY <2>2, AppendProperties
<1>2. N # 0 /\ IsDir(w[N - 1]) /\ w[N].answer = "none"
  BY NewPathIsAbsent
<1>3. OnlyTrees(tree, path)
  BY <1>1, <1>2, DirsAreTrees
<1>4. Absent(tree, path, N)
  <2>1. N \in 1..N /\ N - 1 \in 0..N
    BY <1>1, <1>2
  <2>2. w[N] = Descend(objects, w[N - 1], path[N])
    BY <1>1, <2>1, WalkDef
  <2>3. w[N - 1].oid = s[N] /\ w[N - 1].oid \in objects
    BY <1>1, <1>2, <2>1, WalkAlongSpine
  <2> HIDE DEF w, s
  <2> DEFINE e == CHOOSE e \in Named(s[N], path[N]) : TRUE
  <2>4. ASSUME Named(s[N], path[N]) # {}
        PROVE  FALSE
    <3>1. w[N] = Found(e.mode, e.oid)
      BY <1>2, <2>2, <2>3, <2>4 DEF IsDir, Descend
    <3> HIDE DEF e
    <3> QED
      BY <1>2, <3>1, Answers
  <2> QED
    BY <2>4 DEF Absent, s
<1> HIDE DEF long
<1>5. Len(long) \in Nat /\ Len(path) <= Len(long) /\ \A n \in 1..Len(path) : path[n] = long[n]
  BY <1>1
<1>6. \A n \in 1..N : t[n] = s[n]
  BY <1>1, <1>5, SpinePrefix
<1>7. \A n \in 2..(N + 1) : t[n] = Child(t[n - 1], long[n - 1]).oid
  BY <1>1, <1>5, SpineDef
<1>8. t[N + 1].kind = "tree"
  <2>1. N + 1 \in 2..(N + 1) /\ (N + 1) - 1 = N /\ N \in 1..N
    BY <1>1, <1>2
  <2>2. t[N + 1] = Child(s[N], path[N]).oid
    BY <1>1, <1>6, <1>7, <2>1
  <2>3. Child(s[N], path[N]) = Entry(path[N], "tree", EmptyTree)
    BY <1>4 DEF Absent, Child
  <2> HIDE DEF t, s
  <2> QED
    BY <2>2, <2>3, KindOfTree DEF Entry, EmptyTree
<1> HIDE DEF t, s
<1>9. ASSUME NEW n \in 1..(N + 1)
       PROVE  t[n].kind = "tree"
  <2>1. CASE n = N + 1
    BY <1>8, <2>1
  <2>2. CASE n # N + 1
    <3>1. n \in 1..N
      BY <1>1, <2>2
    <3> QED
      BY <1>3, <1>6, <3>1 DEF OnlyTrees, s
  <2> QED
    BY <2>1, <2>2
<1> QED
  BY <1>1, <1>9 DEF OnlyTrees, t, long

\* An edit that the handler's checks let through.
LEMMA EditedKeepsForm ==
  ASSUME NEW held, Closed(held), WellFormed(held),
         NEW tree \in held, tree.kind = "tree", tree # NoTree, NEW e, IsRequest(e),
         HandlerCheck(held, tree, e) = Proceed, Edited(held, tree, e).ok
  PROVE  KeepsForm(Edited(held, tree, e), held)
<1>1. CASE e.op = "put"
  <2>1. Edited(held, tree, e) = WriteFile(held, tree, e.path, Blob(e.data))
    BY <1>1 DEF Edited
  <2>2. IsDirectory(held, tree, Parent(e.path))
    BY <1>1, ChecksHold
  <2>3. IsPath(e.path) /\ Len(e.path) \in Nat /\ Len(e.path) # 0
    <3>1. WriteFile(held, tree, e.path, Blob(e.data)).ok /\ IsPath(e.path)
      BY <2>1 DEF IsRequest
    <3>2. ModifyTreeEntry(held \cup {Blob(e.data)}, tree, e.path, Leaf("blob", Blob(e.data))).ok
      BY <3>1 DEF WriteFile
    <3>3. Len(e.path) # 0
      BY <3>1, <3>2, Modified
    <3> QED
      BY <3>1, <3>3 DEF IsPath
  <2>4. OnlyTrees(tree, e.path)
    BY <2>2, <2>3, ParentIsWalked, DirsAreTrees
  <2> QED
    BY <2>1, <2>3, <2>4, WriteKeepsForm
<1>2. CASE e.op = "delete"
  <2>1. Edited(held, tree, e) = RemoveTreeEntry(held, tree, e.path)
    BY <1>2 DEF Edited
  <2> QED
    BY <2>1, RemoveKeepsForm DEF IsRequest
<1>3. CASE e.op = "mkcol"
  <2>1. Edited(held, tree, e) = WriteFile(held, tree, Append(e.path, Marker), Blob(""))
    BY <1>3 DEF Edited, CreateDir
  <2>2. ~Exists(held, tree, e.path) /\ IsDirectory(held, tree, Parent(e.path))
    BY <1>3, ChecksHold
  <2>3. OnlyTrees(tree, Append(e.path, Marker)) /\ IsPath(Append(e.path, Marker))
    BY <2>2, NewDirIsTree, MarkerPath DEF IsRequest
  <2> QED
    BY <2>1, <2>3, WriteKeepsForm
<1>4. CASE e.op \in {"copy", "move"}
  <2>1. PICK isMove : Edited(held, tree, e) = CopyOrMove(held, tree, e.path, e.dest, isMove)
    BY <1>4 DEF Edited
  <2>2. IsDirectory(held, tree, Parent(e.dest))
    BY <1>4, ChecksHold
  <2>3. IsPath(e.path) /\ IsPath(e.dest)
    BY <1>4 DEF IsRequest
  <2>4. Len(e.dest) # 0 => IsDir(Walk(held, tree, e.dest)[Len(e.dest) - 1])
    BY <2>2, <2>3, ParentIsWalked
  <2> QED
    BY <2>1, <2>3, <2>4, MoveKeepsForm
<1> QED
  BY <1>1, <1>2, <1>3, <1>4 DEF IsRequest

-------------------------------------------------------------------------------
(* What is seen after an edit.                                              *)

\* Sequences that begin with another: IsPrefix is Along, and what is left is a path.
LEMMA PrefixIsAlong ==
  ASSUME NEW names, NEW p \in Seq(names), NEW q \in Seq(names)
  PROVE  IsPrefix(p, q) <=> Along(p, q)
<1> DEFINE N == Len(p)
           s == SubSeq(p, 1, N)
           t == SubSeq(q, 1, N)
<1>1. N \in Nat /\ Len(q) \in Nat /\ IsPrefix(p, q) <=> N <= Len(q) /\ s = t
  BY DEF IsPrefix
<1>2. N \in Int /\ 1 \in Int
  OBVIOUS
<1> SUFFICES ASSUME N <= Len(q)
             PROVE  s = t <=> \A n \in 1..N : p[n] = q[n]
  BY <1>1 DEF Along, Agree
<1>3. \A n \in 1..N : p[n] \in names /\ q[n] \in names
  <2>1. \A n \in 1..N : n \in 1..Len(p) /\ n \in 1..Len(q)
    OBVIOUS
  <2> QED
    BY <2>1, ElementOfSeq
<1>4. /\ s \in Seq(names) /\ Len(s) = N /\ \A n \in 1..N : s[n] = p[n]
      /\ t \in Seq(names) /\ Len(t) = N /\ \A n \in 1..N : t[n] = q[n]
  <2>1. /\ s \in Seq(names) /\ Len(s) = (IF 1 <= N THEN N - 1 + 1 ELSE 0)
        /\ \A n \in 1..(N - 1 + 1) : s[n] = p[1 + n - 1]
    BY <1>2, <1>3, SubSeqProperties
  <2>2. /\ t \in Seq(names) /\ Len(t) = (IF 1 <= N THEN N - 1 + 1 ELSE 0)
        /\ \A n \in 1..(N - 1 + 1) : t[n] = q[1 + n - 1]
    BY <1>2, <1>3, SubSeqProperties
  <2>3. N - 1 + 1 = N /\ (IF 1 <= N THEN N - 1 + 1 ELSE 0) = N /\ \A n \in 1..N : 1 + n - 1 = n
    OBVIOUS
  <2> HIDE DEF s, t, N
  <2> QED
    BY <2>1, <2>2, <2>3
<1> HIDE DEF s, t, N
<1>5. (\A n \in 1..N : p[n] = q[n]) => s = t
  BY <1>4, SeqEqual
<1> QED
  BY <1>4, <1>5

LEMMA TheRest ==
  ASSUME NEW names, NEW p \in Seq(names), NEW q \in Seq(names), Along(p, q)
  PROVE  LET rest == SubSeq(q, Len(p) + 1, Len(q))
         IN  rest \in Seq(names) /\ IsRest(rest, q, Len(p))
<1> DEFINE N    == Len(p)
           M    == Len(q)
           rest == SubSeq(q, N + 1, M)
<1>1. N \in Nat /\ M \in Nat /\ N <= M /\ N + 1 \in Int /\ M \in Int
  BY DEF Along, Agree
<1>2. \A n \in (N + 1)..M : q[n] \in names
  <2>1. \A n \in (N + 1)..M : n \in 1..Len(q)
    BY <1>1
  <2> QED
    BY <2>1, ElementOfSeq
<1>3. /\ rest \in Seq(names) /\ Len(rest) = (IF N + 1 <= M THEN M - (N + 1) + 1 ELSE 0)
      /\ \A i \in 1..(M - (N + 1) + 1) : rest[i] = q[(N + 1) + i - 1]
  BY <1>1, <1>2, SubSeqProperties
<1> HIDE DEF rest
<1>4. Len(rest) = M - N
  BY <1>1, <1>3
<1>5. \A i \in 1..(M - N) : rest[i] = q[N + i]
  <2> TAKE i \in 1..(M - N)
  <2>1. i \in 1..(M - (N + 1) + 1) /\ (N + 1) + i - 1 = N + i
    BY <1>1
  <2> QED
    BY <1>3, <2>1
<1> QED
  BY <1>3, <1>4, <1>5 DEF IsRest, rest

\* The same rest below another path.
LEMMA Below ==
  ASSUME NEW names, NEW p \in Seq(names), NEW rest \in Seq(names)
  PROVE  LET long == p \o rest
         IN  long \in Seq(names) /\ Along(p, long) /\ IsRest(rest, long, Len(p))
<1> DEFINE long == p \o rest
<1>1. /\ long \in Seq(names) /\ Len(long) = Len(p) + Len(rest)
      /\ \A i \in 1..Len(p) + Len(rest) :
           long[i] = IF i <= Len(p) THEN p[i] ELSE rest[i - Len(p)]
  BY ConcatProperties
<1> HIDE DEF long
<1>2. Len(p) \in Nat /\ Len(rest) \in Nat
  OBVIOUS
<1>3. Along(p, long)
  BY <1>1, <1>2 DEF Along, Agree
<1>4. IsRest(rest, long, Len(p))
  <2>1. ASSUME NEW i \in 1..Len(rest)
        PROVE  rest[i] = long[Len(p) + i]
    <3>1. Len(p) + i \in 1..Len(p) + Len(rest) /\ ~(Len(p) + i <= Len(p)) /\ (Len(p) + i) - Len(p) = i
      BY <1>2
    <3> QED
      BY <1>1, <3>1
  <2> QED
    BY <1>1, <1>2, <2>1 DEF IsRest
<1> QED
  BY <1>1, <1>3, <1>4 DEF long

LEMMA SameLength ==
  ASSUME NEW names, NEW p \in Seq(names), NEW q \in Seq(names), Along(p, q), ~(Len(p) < Len(q))
  PROVE  p = q
<1>1. Len(p) = Len(q) /\ \A n \in 1..Len(p) : p[n] = q[n]
  BY DEF Along, Agree
<1> QED
  BY <1>1, SeqEqual

\* A walk that finds directories on its way reaches them.
LEMMA DirsAreReached ==
  ASSUME NEW objects, Closed(objects), WellFormed(objects),
         NEW tree \in objects, tree.kind = "tree", NEW path, Len(path) \in Nat,
         NEW k \in 0..Len(path), IsDir(Walk(objects, tree, path)[k]),
         NEW q, Len(q) \in Nat, Along(q, path), Len(q) <= k
  PROVE  Reached(tree, q)[Len(q)] # {}
<1> DEFINE K == Len(q)
<1>1. K \in 0..k /\ K \in 0..K /\ Len(q) <= Len(path) /\ \A n \in 1..Len(q) : q[n] = path[n]
  BY DEF Along, Agree
<1>2. IsDir(Walk(objects, tree, path)[K])
  <2>1. \A n \in 0..k : IsDir(Walk(objects, tree, path)[n])
    BY WalkThroughDirs
  <2> QED
    BY <1>1, <2>1
<1>3. Walk(objects, tree, q)[K] = Walk(objects, tree, path)[K]
  <2>1. \A n \in 0..Len(q) : Walk(objects, tree, q)[n] = Walk(objects, tree, path)[n]
    BY <1>1, WalkPrefix
  <2> QED
    BY <1>1, <2>1
<1>4. Reached(tree, q)[K] = {Walk(objects, tree, q)[K].oid}
  <2>1. \A n \in 0..Len(q) :
           LET at == Walk(objects, tree, q)[n]
           IN  Reached(tree, q)[n] = IF at.answer = "some" THEN {at.oid} ELSE {}
    BY ReachedByWalk
  <2> QED
    BY <1>1, <1>2, <1>3, <2>1 DEF IsDir
<1> QED
  BY <1>4

\* A path that does not begin with that of the edit sees what it saw before,
\* provided that directories on the way were there.
LEMMA BesideIsSame ==
  ASSUME NEW objects, Closed(objects), WellFormed(objects), NEW tree \in objects,
         NEW path, Len(path) \in Nat, NEW leaf,
         NEW q, Len(q) \in Nat, ~Along(path, q),
         Along(q, path) => /\ Spine(tree, path)[Len(q) + 1].kind = "tree"
                           /\ Reached(tree, q)[Len(q)] # {}
  PROVE  Seen(NewOf(tree, path, leaf)[1], q) = Seen(tree, q)
<1>1. CASE ~Along(q, path)
  BY <1>1, ReachedAside DEF Seen
<1>2. CASE Along(q, path)
  <2>1. Len(q) < Len(path)
    BY <1>2 DEF Along, Agree
  <2>2. Seen(NewOf(tree, path, leaf)[1], q) = {Directory}
    BY <1>2, <2>1, SeenAbove
  <2>3. Seen(tree, q) = {Directory}
    BY <1>2, <2>1, SeenAboveBefore
  <2> QED
    BY <2>2, <2>3
<1> QED
  BY <1>1, <1>2

\* A removal.
LEMMA RemoveSeen ==
  ASSUME NEW objects, NEW held, Closed(held), WellFormed(held), NEW tree \in held,
         NEW path, IsPath(path), RemoveTreeEntry(objects, tree, path).ok,
         NEW q, Len(q) \in Nat
  PROVE  Seen(RemoveTreeEntry(objects, tree, path).root, q) =
           IF Along(path, q) THEN {} ELSE Seen(tree, q)
<1> DEFINE s == Spine(tree, path)
<1>1. /\ Len(path) # 0 /\ RemoveTreeEntry(objects, tree, path).root = NewOf(tree, path, Removal)[1]
      /\ \A n \in 1..Len(path) : ~Absent(tree, path, n)
  BY Modified DEF RemoveTreeEntry
<1>2. OnlyTrees(tree, path)
  BY RemovedFromTrees DEF RemoveTreeEntry
<1>3. Len(path) \in Nat
  BY DEF IsPath
<1>4. CASE Along(path, q)
  BY <1>1, <1>3, <1>4, SeenAtRemoval
<1>5. CASE ~Along(path, q)
  <2>1. ASSUME Along(q, path)
        PROVE  s[Len(q) + 1].kind = "tree" /\ Reached(tree, q)[Len(q)] # {}
    <3> DEFINE K == Len(q)
    <3>1. K < Len(path) /\ Agree(path, q, K) /\ K \in 0..K /\ K + 1 \in 1..Len(path)
      BY <1>3, <1>5, <2>1 DEF Along, Agree
    <3>2. OnSpine(tree, path, q, K)
      BY <1>3, <3>1, ReachedSpine
    <3>3. Named(s[K + 1], path[K + 1]) # {}
      BY <1>1, <3>1 DEF Absent
    <3>4. s[K + 1] # EmptyTree
      BY <3>3, EntriesOfTree DEF Named, EmptyTree
    <3> QED
      BY <1>2, <3>1, <3>2, <3>4 DEF OnlyTrees, OnSpine
  <2> QED
    BY <1>1, <1>3, <1>5, <2>1, BesideIsSame
<1> QED
  BY <1>4, <1>5

IsBlob(blob) == blob.kind = "blob" /\ Entries(blob) = {}

LEMMA BlobIs == \A data : IsBlob(Blob(data))
<1>1. \A data : Blob(data).kind = "blob"
  BY DEF Blob
<1> QED
  BY <1>1, BlobHasNoEntries DEF IsBlob

\* A blob that was put at a path, and nothing below it.
LEMMA BlobSeen ==
  ASSUME NEW tree, NEW names, NEW path \in Seq(names), Len(path) # 0,
         NEW blob, IsBlob(blob), NEW q \in Seq(names), Along(path, q)
  PROVE  Seen(NewOf(tree, path, Leaf("blob", blob))[1], q) = IF q = path THEN {blob} ELSE {}
<1> DEFINE N    == Len(path)
           leaf == Leaf("blob", blob)
           new  == NewOf(tree, path, leaf)
           v    == Reached(new[1], q)
<1>1. N \in Nat /\ Len(q) \in Nat /\ N \in 0..Len(q) /\ (N < Len(q) => N + 1 \in 1..Len(q))
  BY DEF Along, Agree
<1>2. leaf.oid = blob /\ leaf.mode = "blob" /\ Removal.mode = "none"
  BY DEF Leaf, Removal
<1>3. leaf # Removal
  BY <1>2
<1> HIDE DEF leaf
<1>4. v[N] = {blob}
  <2>1. IsPut(v[N], leaf)
    BY <1>1, ReachedAt
  <2> HIDE DEF v
  <2> QED
    BY <1>2, <1>3, <2>1 DEF IsPut
<1>5. \A n \in 1..Len(q) : v[n] = Led(v[n - 1], q[n])
  BY <1>1, ReachedDef
<1>6. CASE N < Len(q)
  <2>1. v[N + 1] = Led({blob}, q[N + 1])
    <3>1. (N + 1) - 1 = N
      BY <1>1
    <3> HIDE DEF v
    <3> QED
      BY <1>1, <1>4, <1>5, <1>6, <3>1
  <2>2. Named(blob, q[N + 1]) = {}
    BY DEF IsBlob, Named
  <2>3. Reached(new[1], q)[N + 1] = {}
    BY <2>1, <2>2, LedByOne
  <2>4. N + 1 \in 0..Len(q) /\ Len(q) \in (N + 1)..Len(q)
    BY <1>1, <1>6
  <2> HIDE DEF new
  <2>5. Reached(new[1], q)[Len(q)] = {}
    BY <1>1, <2>3, <2>4, Nowhere
  <2>6. q # path
    BY <1>6
  <2> QED
    BY <2>5, <2>6 DEF Seen, Shown, new, leaf
<1>7. CASE ~(N < Len(q))
  <2>1. q = path
    BY <1>7, SameLength
  <2>2. v[Len(q)] = {blob}
    BY <1>4, <2>1
  <2> HIDE DEF v
  <2> QED
    BY <2>1, <2>2 DEF Seen, Shown, IsBlob, v, new, leaf
<1> QED
  BY <1>6, <1>7

\* What a directory's path to a new entry looks like.
InDir(objects, tree, path) ==
  IsPath(path) /\ Len(path) # 0 /\ IsDir(Walk(objects, tree, path)[Len(path) - 1])

\* Something new in a directory: all that is not at its path or below is as it was.
LEMMA BesideNew ==
  ASSUME NEW held, Closed(held), WellFormed(held), NEW tree \in held, tree.kind = "tree",
         NEW path, InDir(held, tree, path), NEW leaf, NEW q, Len(q) \in Nat, ~Along(path, q)
  PROVE  Seen(NewOf(tree, path, leaf)[1], q) = Seen(tree, q)
<1>1. Len(path) \in Nat /\ Len(path) # 0 /\ Len(path) - 1 \in 0..Len(path)
  BY DEF InDir, IsPath
<1>2. IsDir(Walk(held, tree, path)[Len(path) - 1])
  BY DEF InDir
<1>3. OnlyTrees(tree, path)
  BY <1>1, <1>2, DirsAreTrees
<1>4. ASSUME Along(q, path)
      PROVE  Spine(tree, path)[Len(q) + 1].kind = "tree" /\ Reached(tree, q)[Len(q)] # {}
  <2>1. Len(q) + 1 \in 1..Len(path) /\ Len(q) <= Len(path) - 1
    BY <1>1, <1>4 DEF Along, Agree
  <2>2. Reached(tree, q)[Len(q)] # {}
    BY <1>1, <1>2, <1>4, <2>1, DirsAreReached
  <2> QED
    BY <1>3, <2>1, <2>2 DEF OnlyTrees
<1> QED
  BY <1>1, <1>4, BesideIsSame

\* A new file.
SeenWithFile(tree, path, blob, q) ==
  IF q = path THEN {blob} ELSE IF Along(path, q) THEN {} ELSE Seen(tree, q)

LEMMA WriteSeen ==
  ASSUME NEW objects, NEW held, Closed(held), WellFormed(held), NEW tree \in held,
         tree.kind = "tree", NEW names, NEW path \in Seq(names), InDir(held, tree, path),
         NEW data, WriteFile(objects, tree, path, Blob(data)).ok, NEW q \in Seq(names)
  PROVE  Seen(WriteFile(objects, tree, path, Blob(data)).root, q) =
           SeenWithFile(tree, path, Blob(data), q)
<1> DEFINE blob == Blob(data)
           leaf == Leaf("blob", blob)
           r    == WriteFile(objects, tree, path, blob)
           m    == ModifyTreeEntry(objects \cup {blob}, tree, path, leaf)
<1>1. IsBlob(blob) /\ Entries(blob) = {} /\ Len(path) # 0 /\ Len(q) \in Nat /\ IsPath(path)
  BY BlobIs DEF IsBlob, InDir
<1> HIDE DEF blob
<1>2. m.ok /\ r.root = m.root
  <2>1. Writes(r, m, blob)
    BY <1>1, WriteMakes DEF blob
  <2> HIDE DEF m, r
  <2> QED
    BY <2>1 DEF Writes
<1>3. m.root = NewOf(tree, path, leaf)[1]
  BY <1>1, <1>2, Modified
<1> HIDE DEF m
<1>4. CASE Along(path, q)
  <2>1. Seen(r.root, q) = IF q = path THEN {blob} ELSE {}
    <3>1. Seen(NewOf(tree, path, Leaf("blob", blob))[1], q) = IF q = path THEN {blob} ELSE {}
      BY <1>1, <1>4, BlobSeen
    <3> QED
      BY <1>2, <1>3, <3>1
  <2> QED
    BY <1>4, <2>1 DEF SeenWithFile, blob
<1>5. CASE ~Along(path, q)
  <2>1. Seen(r.root, q) = Seen(tree, q)
    BY <1>1, <1>2, <1>3, <1>5, BesideNew
  <2>2. q # path
    BY <1>1, <1>5 DEF Along, Agree
  <2> QED
    BY <1>5, <2>1, <2>2 DEF SeenWithFile, blob
<1> QED
  BY <1>4, <1>5

\* A copy: what was at the source is at the destination.
SeenWithCopy(tree, src, dest, q) ==
  IF Along(dest, q) THEN Seen(tree, src \o SubSeq(q, Len(dest) + 1, Len(q))) ELSE Seen(tree, q)

LEMMA CopySeen ==
  ASSUME NEW objects, NEW held, held \subseteq objects, Closed(held), WellFormed(held),
         NEW tree \in held, tree.kind = "tree", NEW names,
         NEW src \in Seq(names), NEW dest \in Seq(names), InDir(held, tree, dest),
         CopyTreeEntry(objects, tree, src, dest).ok, NEW q \in Seq(names)
  PROVE  Seen(CopyTreeEntry(objects, tree, src, dest).root, q) = SeenWithCopy(tree, src, dest, q)
<1> DEFINE found == FindTreeEntry(objects, tree, src)
           leaf  == Leaf(found.mode, found.oid)
           new   == NewOf(tree, dest, leaf)
           r     == CopyTreeEntry(objects, tree, src, dest)
<1>1. found.answer = "some"
  BY DEF CopyTreeEntry, Failed
<1>2. r = ModifyTreeEntry(objects, tree, dest, leaf)
  BY <1>1 DEF CopyTreeEntry
<1>3. Len(src) \in Nat /\ Len(dest) \in Nat /\ Len(q) \in Nat /\ Len(dest) # 0 /\ IsPath(dest)
  BY DEF InDir
<1>4. r.root = new[1]
  BY <1>2, <1>3, Modified
<1>5. CASE ~Along(dest, q)
  BY <1>3, <1>4, <1>5, BesideNew DEF SeenWithCopy
<1>6. CASE Along(dest, q)
  <2> DEFINE rest == SubSeq(q, Len(dest) + 1, Len(q))
             long == src \o rest
  <2>1. rest \in Seq(names) /\ IsRest(rest, q, Len(dest))
    BY <1>6, TheRest
  <2>2. long \in Seq(names) /\ Along(src, long) /\ IsRest(rest, long, Len(src))
    BY <2>1, Below
  <2> HIDE DEF rest, long
  <2>3. found = FindTreeEntry(held, tree, src)
    BY <1>3, FindAmongAll, FindAmongMore
  <2>4. Reached(tree, src)[Len(src)] = {found.oid}
    <3>1. \A n \in 0..Len(src) :
            LET at == Walk(held, tree, src)[n]
            IN  Reached(tree, src)[n] = IF at.answer = "some" THEN {at.oid} ELSE {}
      BY <1>3, ReachedByWalk
    <3>2. Len(src) \in 0..Len(src)
      BY <1>3
    <3> QED
      BY <1>1, <2>3, <3>1, <3>2 DEF FindTreeEntry
  <2>5. Reached(tree, long)[Len(src)] = {found.oid}
    <3>1. SameNames(src, 0, long, 0, Len(src)) /\ 0 + Len(src) <= Len(src) /\ 0 + Len(src) <= Len(long)
      <4>1. ASSUME NEW i \in 1..Len(src)
            PROVE  src[0 + i] = long[0 + i]
        <5>1. 0 + i = i
          BY <1>3
        <5> QED
          BY <2>2, <5>1 DEF Along, Agree
      <4> QED
        BY <1>3, <2>2, <4>1 DEF SameNames, Along, Agree
    <3>2. Reached(tree, src)[0] = Reached(tree, long)[0]
      <4>1. Reached(tree, src)[0] = {tree}
        BY <1>3, ReachedDef
      <4>2. Len(long) \in Nat
        BY <2>2
      <4>3. Reached(tree, long)[0] = {tree}
        BY <4>2, ReachedDef
      <4> QED
        BY <4>1, <4>3
    <3>3. Reached(tree, src)[0 + Len(src)] = Reached(tree, long)[0 + Len(src)]
      BY <1>3, <2>2, <3>1, <3>2, InStep
    <3>4. 0 + Len(src) = Len(src)
      BY <1>3
    <3> QED
      BY <2>4, <3>3, <3>4
  <2>6. leaf.oid = found.oid /\ leaf # Removal
    <3>1. leaf.mode = found.mode /\ leaf.oid = found.oid /\ Removal.mode = "none"
      BY DEF Leaf, Removal
    <3>2. found.mode = found.oid.kind /\ found.oid \in held
      <4>1. Len(src) \in 0..Len(src)
        BY <1>3
      <4> QED
        BY <1>1, <1>3, <2>3, <4>1, FoundCarriesMode, FindAmongAll DEF FindTreeEntry
    <3>3. leaf = [mode |-> found.mode, oid |-> found.oid]
      BY DEF Leaf
    <3>4. "oid" \in DOMAIN leaf /\ "oid" \notin DOMAIN Removal
      BY DEF Leaf, Removal
    <3> QED
      BY <3>1, <3>4
  <2> HIDE DEF found, leaf
  <2>7. Reached(new[1], q)[Len(dest)] = {found.oid}
    <3>1. IsPut(Reached(new[1], q)[Len(dest)], leaf)
      BY <1>3, <1>6, ReachedAt
    <3> QED
      BY <2>6, <3>1 DEF IsPut
  <2> HIDE DEF new
  <2>8. Seen(new[1], q) = Seen(found.oid, rest)
    <3>1. Len(dest) \in 0..Len(q)
      BY <1>3, <1>6 DEF Along, Agree
    <3> QED
      BY <1>3, <2>1, <2>7, <3>1, SeenFrom, SMTT(30)
  <2>9. Seen(tree, long) = Seen(found.oid, rest)
    <3>1. Len(src) \in 0..Len(long) /\ Len(long) \in Nat
      BY <1>3, <2>2 DEF Along, Agree
    <3> QED
      BY <2>2, <2>5, <3>1, SeenFrom, SMTT(30)
  <2> QED
    BY <1>4, <1>6, <2>8, <2>9 DEF SeenWithCopy, long, rest
<1> QED
  BY <1>5, <1>6

\* Among objects that are whole, a lookup finds what is seen.
LEMMA FoundIsSeen ==
  ASSUME NEW objects, Closed(objects), WellFormed(objects),
         NEW tree \in objects, tree.kind = "tree", NEW path, Len(path) \in Nat
  PROVE  FindTreeEntry(objects, tree, path).answer = "some" <=> Seen(tree, path) # {}
<1> DEFINE at == Walk(objects, tree, path)[Len(path)]
           v  == Reached(tree, path)[Len(path)]
<1>1. v = IF at.answer = "some" THEN {at.oid} ELSE {}
  <2>1. \A n \in 0..Len(path) :
          LET there == Walk(objects, tree, path)[n]
          IN  Reached(tree, path)[n] = IF there.answer = "some" THEN {there.oid} ELSE {}
    BY ReachedByWalk
  <2>2. Len(path) \in 0..Len(path)
    OBVIOUS
  <2> QED
    BY <2>1, <2>2
<1> HIDE DEF at
<1>2. v # {} <=> at.answer = "some"
  BY <1>1
<1> HIDE DEF v
<1>3. Shown(v) # {} <=> v # {}
  BY DEF Shown
<1> QED
  BY <1>2, <1>3 DEF FindTreeEntry, Seen, at, v

\* Nothing is below a path where nothing is found.
LEMMA NothingBelow ==
  ASSUME NEW objects, Closed(objects), WellFormed(objects),
         NEW tree \in objects, tree.kind = "tree", NEW path, Len(path) \in Nat,
         Walk(objects, tree, path)[Len(path)].answer # "some",
         NEW q, Len(q) \in Nat, Along(path, q)
  PROVE  Seen(tree, q) = {}
<1> DEFINE N == Len(path)
<1>1. N \in 0..N /\ N \in 0..Len(q) /\ Len(q) \in N..Len(q) /\ N <= Len(q) /\ \A n \in 1..N : path[n] = q[n]
  BY DEF Along, Agree
<1>2. Walk(objects, tree, path)[N] = Walk(objects, tree, q)[N]
  <2>1. \A n \in 0..N : Walk(objects, tree, path)[n] = Walk(objects, tree, q)[n]
    BY <1>1, WalkPrefix
  <2> QED
    BY <1>1, <2>1
<1>3. Reached(tree, q)[N] = {}
  <2>1. \A n \in 0..Len(q) :
          LET at == Walk(objects, tree, q)[n]
          IN  Reached(tree, q)[n] = IF at.answer = "some" THEN {at.oid} ELSE {}
    BY ReachedByWalk
  <2> QED
    BY <1>1, <1>2, <2>1
<1>4. Reached(tree, q)[Len(q)] = {}
  BY <1>1, <1>3, Nowhere
<1> QED
  BY <1>4 DEF Seen, Shown

\* A new directory, with its marker.
SeenWithDir(tree, path, q) ==
  IF q = path THEN {Directory} ELSE IF q = Append(path, Marker) THEN {Blob("")}
  ELSE Seen(tree, q)

LEMMA MkcolSeen ==
  ASSUME NEW objects, NEW held, Closed(held), WellFormed(held), NEW tree \in held,
         tree.kind = "tree", tree # NoTree, NEW names, Marker \in names, NEW path \in Seq(names),
         IsDirectory(held, tree, Parent(path)), ~Exists(held, tree, path),
         CreateDir(objects, tree, path).ok, NEW q \in Seq(names)
  PROVE  Seen(CreateDir(objects, tree, path).root, q) = SeenWithDir(tree, path, q)
<1> DEFINE blob == Blob("")
           long == Append(path, Marker)
           leaf == Leaf("blob", blob)
           r    == WriteFile(objects, tree, long, blob)
           m    == ModifyTreeEntry(objects \cup {blob}, tree, long, leaf)
           N    == Len(path)
           w    == Walk(held, tree, path)
<1>1. CreateDir(objects, tree, path) = r
  BY DEF CreateDir
<1>2. /\ N \in Nat /\ IsPath(path) /\ long \in Seq(names) /\ IsPath(long) /\ Len(long) = N + 1
      /\ \A n \in 1..N : long[n] = path[n]
  BY AppendProperties DEF IsPath
<1>3. IsBlob(blob)
  BY BlobIs
<1>4. N # 0 /\ IsDir(w[N - 1]) /\ w[N].answer = "none" /\ Len(q) \in Nat
  BY <1>2, NewPathIsAbsent
<1>5. OnlyTrees(tree, long)
  BY <1>2, NewDirIsTree
<1> HIDE DEF SeenWithDir, long, blob
<1>6. m.ok /\ r.root = m.root
  <2>1. Writes(r, m, blob)
    BY <1>1, <1>2, WriteMakes
  <2> HIDE DEF m, r
  <2> QED
    BY <2>1 DEF Writes
<1>7. m.root = NewOf(tree, long, leaf)[1]
  BY <1>2, <1>6, Modified
<1> HIDE DEF m, r
<1>8. Along(path, long) /\ N < Len(long) /\ Len(long) \in Nat /\ Len(long) # 0
  BY <1>2 DEF Along, Agree
<1>9. CASE Along(long, q)
  <2>1. Seen(r.root, q) = IF q = long THEN {blob} ELSE {}
    <3>1. Seen(NewOf(tree, long, Leaf("blob", blob))[1], q) = IF q = long THEN {blob} ELSE {}
      BY <1>2, <1>3, <1>8, <1>9, BlobSeen
    <3> QED
      BY <1>6, <1>7, <3>1
  <2>2. N < Len(q) /\ Along(path, q)
    BY <1>2, <1>9 DEF Along, Agree
  <2>3. Seen(tree, q) = {}
    BY <1>2, <1>4, <2>2, NothingBelow
  <2>4. q # path
    BY <2>2
  <2> QED
    BY <1>1, <2>1, <2>3, <2>4 DEF SeenWithDir, long, blob
<1>10. CASE q = path
  <2> HIDE DEF leaf
  <2>1. /\ Len(path) \in Nat /\ Len(long) \in Nat
        /\ Along(path, long) /\ Len(path) < Len(long)
    BY <1>2, <1>8
  <2>2. Seen(NewOf(tree, long, leaf)[1], path) = {Directory}
    BY <2>1, SeenAbove
  <2> QED
    BY <1>1, <1>6, <1>7, <1>10, <2>2 DEF SeenWithDir, long, blob
<1>11. CASE ~Along(long, q) /\ q # path
  <2>1. q # long
    BY <1>2, <1>11 DEF Along, Agree
  <2>2. ASSUME Along(q, long)
        PROVE  Spine(tree, long)[Len(q) + 1].kind = "tree" /\ Reached(tree, q)[Len(q)] # {}
    <3>1. Len(q) <= N
      <4>1. Len(q) # N + 1
        BY <1>2, <1>11, <2>2 DEF Along, Agree
      <4> QED
        BY <1>2, <1>4, <2>2, <4>1 DEF Along, Agree
    <3>2. Along(q, path)
      BY <1>2, <2>2, <3>1 DEF Along, Agree
    <3>3. Len(q) <= N - 1
      <4>1. Len(q) < N
        BY <1>11, <3>2, SameLength
      <4> QED
        BY <1>2, <1>4, <4>1
    <3>4. Reached(tree, q)[Len(q)] # {}
      <4>1. N - 1 \in 0..Len(path)
        BY <1>2, <1>4
      <4> QED
        BY <1>2, <1>4, <3>2, <3>3, <4>1, DirsAreReached
    <3>5. Len(q) + 1 \in 1..Len(long)
      BY <1>2, <1>4, <3>1
    <3> QED
      BY <1>5, <3>4, <3>5 DEF OnlyTrees
  <2>3. Seen(NewOf(tree, long, leaf)[1], q) = Seen(tree, q)
    BY <1>2, <1>4, <1>8, <1>11, <2>2, BesideIsSame
  <2> QED
    BY <1>1, <1>6, <1>7, <1>11, <2>1, <2>3 DEF SeenWithDir, long
<1> QED
  BY <1>9, <1>10, <1>11

-------------------------------------------------------------------------------
\* A leaf is never the request to remove one.
LEMMA LeafIsPut == \A mode, oid : Leaf(mode, oid) # Removal /\ Leaf(mode, oid).oid = oid
<1> SUFFICES ASSUME NEW mode, NEW oid
             PROVE  Leaf(mode, oid) # Removal /\ Leaf(mode, oid).oid = oid
  OBVIOUS
<1>1. "oid" \in DOMAIN Leaf(mode, oid) /\ "oid" \notin DOMAIN Removal
  BY DEF Leaf, Removal
<1>2. Leaf(mode, oid).oid = oid
  BY DEF Leaf
<1> QED
  BY <1>1, <1>2

\* With the whole tree at hand an edit fails only at a name that is not there.
LEMMA ModifySucceeds ==
  ASSUME NEW objects, NEW held, held \subseteq objects, Closed(held), NEW tree \in held,
         NEW path, IsPath(path), Len(path) # 0, NEW leaf,
         leaf # Removal \/ FindTreeEntry(held, tree, path).answer = "some"
  PROVE  ModifyTreeEntry(objects, tree, path, leaf).ok
<1>1. Len(path) \in Nat
  BY DEF IsPath
<1>2. \A n \in 1..Len(path) : OnTheWay(objects, tree, path, n)
  BY <1>1, AlwaysOnTheWay
<1>3. leaf = Removal => \A n \in 1..Len(path) : ~Absent(tree, path, n)
  BY <1>1, FoundIsNamed
<1>4. ModifyTreeEntry(objects, tree, path, leaf).ok <=>
        /\ Len(path) # 0
        /\ \A n \in 1..Len(path) : /\ OnTheWay(objects, tree, path, n)
                                   /\ leaf = Removal => ~Absent(tree, path, n)
  BY Modified
<1> QED
  BY <1>2, <1>3, <1>4

LEMMA WriteSucceeds ==
  ASSUME NEW objects, NEW held, held \subseteq objects, Closed(held), NEW tree \in held,
         NEW path, IsPath(path), Len(path) # 0, NEW blob
  PROVE  WriteFile(objects, tree, path, blob).ok
<1> DEFINE leaf == Leaf("blob", blob)
           m    == ModifyTreeEntry(objects \cup {blob}, tree, path, leaf)
<1>1. leaf # Removal
  BY LeafIsPut
<1>2. held \subseteq objects \cup {blob}
  OBVIOUS
<1> HIDE DEF leaf
<1>3. m.ok
  BY <1>1, <1>2, ModifySucceeds
<1>4. IsSuccess(m)
  BY <1>3, Modified
<1>5. WriteFile(objects, tree, path, blob) = [m EXCEPT !.pack = Append(m.pack, blob)]
  BY <1>3 DEF WriteFile, leaf
<1> HIDE DEF m
<1> QED
  BY <1>4, <1>5 DEF IsSuccess

\* An edit that succeeds and leaves a whole and well formed tree.
Sound(r, held) == r.ok /\ Delivers(r, held, held) /\ KeepsForm(r, held)

\* A new directory, to be written into, is where a new tree was made.
LEMMA InNewDir ==
  ASSUME NEW objects, Closed(objects), WellFormed(objects), NEW tree, NEW path, IsPath(path),
         Len(path) # 0, NEW leaf, NewOf(tree, path, leaf)[1] \in objects
  PROVE  InDir(objects, NewOf(tree, path, leaf)[1], path)
<1> DEFINE new == NewOf(tree, path, leaf)
           K   == Len(path) - 1
           w   == Walk(objects, new[1], path)
<1>1. /\ Len(path) \in Nat /\ K \in Nat /\ K < Len(path) /\ K \in 0..K /\ K \in 0..Len(path)
      /\ K + 1 = Len(path) /\ 1 \in 1..Len(path) /\ Len(path) \in 1..Len(path)
  BY DEF IsPath
<1>2. Agree(path, path, K)
  BY <1>1 DEF Agree
<1>3. new[1].kind = "tree" /\ new[Len(path)].kind = "tree"
  BY <1>1, SpineOfNew
<1>4. Reached(new[1], path)[K] = {new[Len(path)]}
  <2>1. \A n \in 0..K : IsAt(new[1], path, n, new[n + 1])
    BY <1>1, <1>2, ReachedNew
  <2> QED
    BY <1>1, <2>1 DEF IsAt
<1> HIDE DEF new
<1>5. new[1] \in objects
  BY DEF new
<1>6. Reached(new[1], path)[K] = IF w[K].answer = "some" THEN {w[K].oid} ELSE {}
  <2>1. \A n \in 0..Len(path) :
          LET at == Walk(objects, new[1], path)[n]
          IN  Reached(new[1], path)[n] = IF at.answer = "some" THEN {at.oid} ELSE {}
    BY <1>1, <1>3, <1>5, ReachedByWalk
  <2> QED
    BY <1>1, <2>1
<1>7. w[K].answer = "some" => w[K].mode = w[K].oid.kind
  <2>1. \A n \in 0..Len(path) :
          LET at == Walk(objects, new[1], path)[n]
          IN  at.answer = "some" => at.mode = at.oid.kind
    BY <1>1, <1>3, <1>5, FoundCarriesMode
  <2> QED
    BY <1>1, <2>1
<1> HIDE DEF w
<1>8. IsDir(w[K])
  BY <1>3, <1>4, <1>6, <1>7 DEF IsDir
<1> QED
  BY <1>8 DEF InDir, w, new

\* What CopyOrMove does first: nothing is at the destination or below it.
SeenCleared(tree, dest, q) == IF Along(dest, q) THEN {} ELSE Seen(tree, q)

LEMMA ClearedSeen ==
  ASSUME NEW held, Closed(held), WellFormed(held), NEW tree \in held, tree.kind = "tree",
         NEW names, NEW dest \in Seq(names), InDir(held, tree, dest)
  PROVE  LET r == ClearedAt(held, tree, dest)
         IN  /\ Sound(r, held) /\ InDir(held \cup PackOf(r), r.root, dest)
             /\ \A q \in Seq(names) : Seen(r.root, q) = SeenCleared(tree, dest, q)
<1> DEFINE target == FindTreeEntry(held, tree, dest)
           r      == ClearedAt(held, tree, dest)
<1>1. IsPath(dest) /\ Len(dest) \in Nat /\ Len(dest) # 0 /\ Len(dest) \in 0..Len(dest)
  BY DEF InDir
<1>2. target.answer \in {"some", "none"}
  <2>1. target.answer \in {"some", "none", "err"}
    BY <1>1, WalkAnswers, Answers DEF FindTreeEntry, IsAnswer
  <2>2. target.answer # "err"
    BY <1>1, FindAmongAll
  <2> QED
    BY <2>1, <2>2
<1>3. CASE target.answer = "some"
  <2>1. r = RemoveTreeEntry(held, tree, dest)
    BY <1>3 DEF ClearedAt
  <2>2. RemoveTreeEntry(held, tree, dest).ok
    BY <1>1, <1>3, ModifySucceeds DEF RemoveTreeEntry
  <2>3. Sound(r, held)
    BY <1>1, <2>1, <2>2, RemoveDelivers, RemoveKeepsForm DEF Sound
  <2>4. r.root = NewOf(tree, dest, Removal)[1]
    BY <1>1, <2>1, <2>2, Modified DEF RemoveTreeEntry
  <2>5. InDir(held \cup PackOf(r), r.root, dest)
    BY <1>1, <2>3, <2>4, InNewDir DEF Sound, Delivers, KeepsForm
  <2>6. ASSUME NEW q \in Seq(names)
        PROVE  Seen(r.root, q) = SeenCleared(tree, dest, q)
    BY <1>1, <2>1, <2>2, RemoveSeen DEF SeenCleared
  <2> HIDE DEF r
  <2> QED
    BY <2>3, <2>5, <2>6 DEF r
<1>4. CASE target.answer = "none"
  <2>1. r = Unchanged(held, tree)
    BY <1>4 DEF ClearedAt
  <2>2. r.root = tree /\ PackOf(r) = {}
    BY <2>1 DEF Unchanged, PackOf, Members
  <2>3. r.ok /\ Delivers(r, held, held)
    BY <2>1, UnchangedDelivers
  <2>4. held \cup PackOf(r) = held
    BY <2>2
  <2>5. ASSUME NEW q \in Seq(names), Along(dest, q)
        PROVE  Seen(tree, q) = {}
    <3>1. Walk(held, tree, dest)[Len(dest)].answer # "some" /\ Len(q) \in Nat
      BY <1>4 DEF FindTreeEntry
    <3> QED
      BY <1>1, <2>5, <3>1, NothingBelow
  <2> HIDE DEF r
  <2> QED
    BY <2>2, <2>3, <2>4, <2>5 DEF Sound, KeepsForm, SeenCleared, r
<1> QED
  BY <1>2, <1>3, <1>4

\* Two edits that succeed, the second on what the first has left.
LEMMA ThenSound ==
  ASSUME NEW held, NEW first, NEW second, Sound(first, held), second.ok,
         Delivers(second, held \cup PackOf(first), first.objects),
         KeepsForm(second, held \cup PackOf(first))
  PROVE  Sound(Then(first, second), held) /\ Then(first, second).root = second.root
<1> DEFINE r == Then(first, second)
<1>1. first.ok /\ Delivers(first, held, held)
  BY DEF Sound
<1>2. IsSuccess(r) /\ r.root = second.root
  BY <1>1, ThenMakes DEF Delivers
<1>3. Delivers(r, held, held)
  BY <1>1, ThenDelivers
<1>4. KeepsForm(r, held)
  BY <1>1, ThenKeepsForm DEF Delivers
<1> HIDE DEF r
<1>5. r.ok
  BY <1>2 DEF IsSuccess
<1> QED
  BY <1>2, <1>3, <1>4, <1>5 DEF Sound, r

\* The destination emptied and the source copied there.
CopiedAt(objects, tree, src, dest) ==
  LET cleared == ClearedAt(objects, tree, dest)
  IN  Then(cleared, CopyTreeEntry(cleared.objects, cleared.root, src, dest))

\* What is seen at a path once the destination is filled.
SeenCopied(tree, src, dest, q) ==
  IF Along(dest, q) THEN SeenCleared(tree, dest, src \o SubSeq(q, Len(dest) + 1, Len(q)))
  ELSE Seen(tree, q)

LEMMA CopiedSeen ==
  ASSUME NEW held, Closed(held), WellFormed(held), NEW tree \in held, tree.kind = "tree",
         NEW names, NEW dest \in Seq(names), InDir(held, tree, dest),
         NEW src \in Seq(names), ~Along(dest, src), Seen(tree, src) # {}
  PROVE  LET r == CopiedAt(held, tree, src, dest)
         IN  /\ Sound(r, held)
             /\ \A q \in Seq(names) : Seen(r.root, q) = SeenCopied(tree, src, dest, q)
<1> DEFINE cleared == ClearedAt(held, tree, dest)
           more    == held \cup PackOf(cleared)
           copy    == CopyTreeEntry(cleared.objects, cleared.root, src, dest)
           found   == FindTreeEntry(cleared.objects, cleared.root, src)
           leaf    == Leaf(found.mode, found.oid)
           r       == Then(cleared, copy)
<1>1. IsPath(dest) /\ IsPath(src) /\ Len(dest) \in Nat /\ Len(dest) # 0 /\ Len(src) \in Nat
  BY DEF InDir, IsPath
<1>2. /\ Sound(cleared, held) /\ InDir(more, cleared.root, dest)
      /\ \A q \in Seq(names) : Seen(cleared.root, q) = SeenCleared(tree, dest, q)
  BY ClearedSeen
<1> HIDE DEF cleared
<1>3. /\ cleared.root \in more /\ Closed(more) /\ WellFormed(more)
      /\ more \subseteq cleared.objects /\ cleared.root.kind = "tree"
  BY <1>2 DEF Sound, Delivers, KeepsForm
<1> HIDE DEF more
<1>4. FindTreeEntry(more, cleared.root, src).answer = "some"
  <2>1. Seen(cleared.root, src) # {}
    BY <1>2 DEF SeenCleared
  <2> QED
    BY <1>1, <1>3, <2>1, FoundIsSeen
<1>5. found.answer = "some"
  BY <1>1, <1>3, <1>4, FindAmongMore
<1>6. copy = ModifyTreeEntry(cleared.objects, cleared.root, dest, leaf)
  BY <1>5 DEF CopyTreeEntry
<1>7. copy.ok
  <2>1. leaf # Removal
    BY LeafIsPut
  <2> HIDE DEF leaf
  <2>2. ModifyTreeEntry(cleared.objects, cleared.root, dest, leaf).ok
    BY <1>1, <1>3, <2>1, ModifySucceeds
  <2> QED
    BY <1>6, <2>2
<1>8. OnlyTrees(cleared.root, dest)
  BY <1>1, <1>2, <1>3, DirsAreTrees DEF InDir
<1>9. Delivers(copy, more, cleared.objects)
  BY <1>1, <1>3, <1>7, CopyDelivers
<1>10. KeepsForm(copy, more)
  BY <1>1, <1>3, <1>7, <1>8, CopyKeepsForm
<1>11. ASSUME NEW q \in Seq(names)
       PROVE  Seen(copy.root, q) = SeenCopied(tree, src, dest, q)
  <2> DEFINE long == src \o SubSeq(q, Len(dest) + 1, Len(q))
  <2>1. Seen(copy.root, q) = SeenWithCopy(cleared.root, src, dest, q)
    BY <1>2, <1>3, <1>7, CopySeen
  <2>2. Along(dest, q) => long \in Seq(names)
    <3> DEFINE rest == SubSeq(q, Len(dest) + 1, Len(q))
    <3>1. Along(dest, q) => rest \in Seq(names)
      BY TheRest
    <3> HIDE DEF rest
    <3>2. rest \in Seq(names) => src \o rest \in Seq(names)
      BY ConcatProperties
    <3> QED
      BY <3>1, <3>2 DEF rest
  <2>3. Along(dest, q) => Seen(cleared.root, long) = SeenCleared(tree, dest, long)
    BY <1>2, <2>2
  <2>4. ~Along(dest, q) => Seen(cleared.root, q) = Seen(tree, q)
    BY <1>2 DEF SeenCleared
  <2> HIDE DEF copy
  <2> QED
    BY <2>1, <2>3, <2>4 DEF SeenCopied, SeenWithCopy
<1> HIDE DEF copy
<1>12. Sound(r, held) /\ r.root = copy.root
  BY <1>2, <1>7, <1>9, <1>10, ThenSound DEF more
<1>13. r = CopiedAt(held, tree, src, dest)
  BY DEF CopiedAt, cleared, copy
<1> HIDE DEF r
<1> QED
  BY <1>11, <1>12, <1>13

\* A move: the source goes once it is copied.
LEMMA MovedSeen ==
  ASSUME NEW held, Closed(held), WellFormed(held), NEW tree \in held, tree.kind = "tree",
         NEW names, NEW dest \in Seq(names), InDir(held, tree, dest),
         NEW src \in Seq(names), Len(src) # 0, ~Along(dest, src), Seen(tree, src) # {}
  PROVE  LET copied == CopiedAt(held, tree, src, dest)
             r      == Then(copied, RemoveTreeEntry(copied.objects, copied.root, src))
         IN  /\ r.ok
             /\ \A q \in Seq(names) :
                  Seen(r.root, q) = IF Along(src, q) THEN {} ELSE SeenCopied(tree, src, dest, q)
<1> DEFINE copied  == CopiedAt(held, tree, src, dest)
           more    == held \cup PackOf(copied)
           removed == RemoveTreeEntry(copied.objects, copied.root, src)
           r       == Then(copied, removed)
<1>1. IsPath(src) /\ Len(src) \in Nat
  BY DEF IsPath
<1>2. /\ Sound(copied, held)
      /\ \A q \in Seq(names) : Seen(copied.root, q) = SeenCopied(tree, src, dest, q)
  BY CopiedSeen
<1> HIDE DEF copied
<1>3. /\ copied.root \in more /\ Closed(more) /\ WellFormed(more)
      /\ more \subseteq copied.objects /\ copied.root.kind = "tree"
  BY <1>2 DEF Sound, Delivers, KeepsForm
<1> HIDE DEF more
<1>4. FindTreeEntry(more, copied.root, src).answer = "some"
  <2>1. Seen(copied.root, src) # {}
    BY <1>2 DEF SeenCopied
  <2> QED
    BY <1>1, <1>3, <2>1, FoundIsSeen
<1>5. removed.ok
  BY <1>1, <1>3, <1>4, ModifySucceeds DEF RemoveTreeEntry
<1>6. Delivers(removed, more, copied.objects) /\ KeepsForm(removed, more)
  BY <1>1, <1>3, <1>5, RemoveDelivers, RemoveKeepsForm
<1>7. ASSUME NEW q \in Seq(names)
      PROVE  Seen(removed.root, q) = IF Along(src, q) THEN {} ELSE SeenCopied(tree, src, dest, q)
  <2>1. Len(q) \in Nat
    OBVIOUS
  <2>2. Seen(removed.root, q) = IF Along(src, q) THEN {} ELSE Seen(copied.root, q)
    BY <1>1, <1>3, <1>5, <2>1, RemoveSeen
  <2> HIDE DEF removed
  <2> QED
    BY <1>2, <2>2
<1> HIDE DEF removed
<1>8. Sound(r, held) /\ r.root = removed.root
  BY <1>2, <1>5, <1>6, ThenSound DEF more
<1> HIDE DEF r
<1>9. r.ok /\ \A q \in Seq(names) :
        Seen(r.root, q) = IF Along(src, q) THEN {} ELSE SeenCopied(tree, src, dest, q)
  BY <1>7, <1>8 DEF Sound
<1> QED
  BY <1>9 DEF r, removed, copied

-------------------------------------------------------------------------------
\* What exists below the root is found.
LEMMA ExistingIsFound ==
  ASSUME NEW objects, NEW tree, tree # NoTree, NEW path, path # <<>>, Exists(objects, tree, path)
  PROVE  FindTreeEntry(objects, tree, path).answer = "some"
  BY DEF Exists, IsDirectory, IsFile, Lookup

\* The path of a write, in a directory.
LEMMA ParentIsDir ==
  ASSUME NEW held, NEW tree, NEW names, NEW path \in Seq(names), path # <<>>,
         IsDirectory(held, tree, Parent(path))
  PROVE  IsPath(path) /\ Len(path) # 0 /\ InDir(held, tree, path)
<1>1. IsPath(path) /\ Len(path) # 0
  BY EmptySeq DEF IsPath
<1> QED
  BY <1>1, ParentIsWalked DEF InDir

-------------------------------------------------------------------------------
\* The edit that was made is the one requested, on the whole tree.
EditInv ==
  /\ root \in Roots
  /\ request = NoTree \/ (request \in Requests /\ outcome = Edited(Parts(root), root, request))

LEMMA EditHolds == Spec => []EditInv
<1>1. Init => EditInv
  BY DEF Init, EditInv
<1>2. EditInv /\ [Next]_vars => EditInv'
  BY DEF EditInv, Next, Edit, Finished, vars
<1> QED
  BY <1>1, <1>2, PTL DEF Spec

LEMMA RequestsAre == \A e \in Requests : IsRequest(e) /\ e # NoTree
  BY RequestsAssumption DEF IsRequest, IsPath

\* An edit made on a whole tree, if it succeeds, delivers a whole tree.
LEMMA Delivered ==
  ASSUME EditInv, Succeeded
  PROVE  Delivers(outcome, Parts(root), Parts(root)) /\ Closed(Parts(root))
<1>1. /\ root \in Parts(root) /\ Closed(Parts(root))
      /\ IsRequest(request) /\ outcome = Edited(Parts(root), root, request) /\ outcome.ok
  BY RequestsAre, PartsAssumption DEF EditInv, Succeeded, Done
<1> QED
  BY <1>1, EditedDelivers

\* A write never pushes a pack that is short of an object: with what the remote
\* has of the base commit's tree, the pack that the four edits (repo.rs:372-462)
\* hand to push_with_cache makes the new tree whole, whatever the tree and
\* whatever the paths.
THEOREM PackAlwaysSuffices == Spec => []PackSuffices
<1>1. EditInv => PackSuffices
  <2> SUFFICES ASSUME EditInv, Succeeded
               PROVE  outcome.root \in Parts(root) \cup Pushed /\ Closed(Parts(root) \cup Pushed)
    BY DEF PackSuffices
  <2>1. Pushed = PackOf(outcome)
    BY DEF Pushed, PackOf, Members
  <2> QED
    BY <2>1, Delivered DEF Delivers
<1> QED
  BY <1>1, EditHolds, PTL

\* The object map after an edit has the new tree whole, so the second edit of a
\* move (repo.rs:389-398) never misses an object the first one made.
THEOREM MapAlwaysSuffices == Spec => []MapSuffices
<1>1. EditInv => MapSuffices
  BY Delivered DEF MapSuffices, Delivers
<1> QED
  BY <1>1, EditHolds, PTL

\* modify_tree_entry and find_tree_entry (objects.rs:52-235) on a map that lacks
\* objects either fail or return what they return on the whole map.
THEOREM EditsStayLocal == Spec => []EditIsLocal
<1>1. EditInv => EditIsLocal
  <2> SUFFICES ASSUME EditInv, Done, NEW held \in SUBSET Parts(root),
                      Edited(held, root, request).ok
               PROVE  /\ outcome.ok /\ Edited(held, root, request).root = outcome.root
                      /\ Edited(held, root, request).pack = outcome.pack
    BY DEF EditIsLocal
  <2>1. IsRequest(request) /\ outcome = Edited(Parts(root), root, request)
    BY RequestsAre DEF EditInv, Done
  <2>2. Same(Edited(held, root, request), outcome)
    BY <2>1, EditedSame
  <2> QED
    BY <2>2 DEF Same, IsSuccess
<1> QED
  BY <1>1, EditHolds, PTL

\* An edit the handler's checks let through on the tree it is made on leaves a
\* tree whose entries have unique names and the mode of what they point to.
\* The checks are needed: that the parent is a directory, and that a new
\* directory is not there yet (handler.rs:132-404).
THEOREM TreesStayWellFormed == Spec => []TreeStaysWellFormed
<1>1. EditInv => TreeStaysWellFormed
  <2> SUFFICES ASSUME EditInv, Succeeded, Checked
               PROVE  WellFormed(Parts(root) \cup Pushed)
    BY DEF TreeStaysWellFormed
  <2>1. /\ root \in Parts(root) /\ root.kind = "tree" /\ root # NoTree
        /\ Closed(Parts(root)) /\ WellFormed(Parts(root))
    BY PartsAssumption DEF EditInv
  <2>2. /\ IsRequest(request) /\ outcome = Edited(Parts(root), root, request) /\ outcome.ok
        /\ HandlerCheck(Parts(root), root, request) = Proceed
    BY RequestsAre DEF EditInv, Succeeded, Checked, Done
  <2>3. KeepsForm(outcome, Parts(root))
    BY <2>1, <2>2, EditedKeepsForm
  <2>4. Pushed = PackOf(outcome)
    BY DEF Pushed, PackOf, Members
  <2> QED
    BY <2>3, <2>4 DEF KeepsForm
<1> QED
  BY <1>1, EditHolds, PTL

LEMMA RootIsFound ==
  ASSUME NEW objects, NEW tree
  PROVE  FindTreeEntry(objects, tree, <<>>).answer = "some"
<1>1. Len(<<>>) = 0 /\ Len(<<>>) \in Nat
  OBVIOUS
<1>2. Walk(objects, tree, <<>>)[0] = Found("tree", tree)
  BY <1>1, WalkDef
<1> QED
  BY <1>1, <1>2, Answers DEF FindTreeEntry

\* The root is no entry: there is nothing to put in its place or to remove.
LEMMA RootStays ==
  ASSUME NEW objects, NEW tree, NEW leaf
  PROVE  ~ModifyTreeEntry(objects, tree, <<>>, leaf).ok
  BY DEF ModifyTreeEntry, Failed

LEMMA NoCopyFails ==
  ASSUME NEW objects, NEW tree, NEW src, NEW dest,
         FindTreeEntry(objects, tree, src).answer # "some"
  PROVE  ~CopyTreeEntry(objects, tree, src, dest).ok
  BY DEF CopyTreeEntry, Failed

\* The source is gone once the destination is emptied.
LEMMA SourceIsGone ==
  ASSUME NEW held, Closed(held), WellFormed(held), NEW tree \in held, tree.kind = "tree",
         NEW names, NEW dest \in Seq(names), InDir(held, tree, dest),
         NEW src \in Seq(names), Along(dest, src)
  PROVE  ~CopiedAt(held, tree, src, dest).ok
<1> DEFINE cleared == ClearedAt(held, tree, dest)
           more    == held \cup PackOf(cleared)
           copy    == CopyTreeEntry(cleared.objects, cleared.root, src, dest)
<1>1. Len(src) \in Nat
  OBVIOUS
<1>2. Sound(cleared, held) /\ Seen(cleared.root, src) = {}
  BY ClearedSeen DEF SeenCleared
<1>3. CopiedAt(held, tree, src, dest) = Then(cleared, copy)
  BY DEF CopiedAt
<1> HIDE DEF cleared
<1>4. /\ cleared.root \in more /\ Closed(more) /\ WellFormed(more)
      /\ more \subseteq cleared.objects /\ cleared.root.kind = "tree"
  BY <1>2 DEF Sound, Delivers, KeepsForm
<1> HIDE DEF more
<1>5. FindTreeEntry(more, cleared.root, src).answer \notin {"some", "err"}
  BY <1>1, <1>2, <1>4, FoundIsSeen, FindAmongAll
<1>6. FindTreeEntry(cleared.objects, cleared.root, src).answer # "some"
  BY <1>1, <1>4, <1>5, FindAmongMore
<1>7. ~copy.ok
  BY <1>6, NoCopyFails
<1> HIDE DEF copy
<1> QED
  BY <1>3, <1>7, ThenSucceeds

\* A request that cannot be carried out fails.
LEMMA ImpossibleFails ==
  ASSUME EditInv, Checked, Impossible
  PROVE  ~outcome.ok
<1> DEFINE held == Parts(root)
           path == request.path
           dest == request.dest
<1>1. /\ root \in held /\ root.kind = "tree" /\ root # NoTree /\ Closed(held) /\ WellFormed(held)
      /\ request \in Requests /\ outcome = Edited(held, root, request)
      /\ HandlerCheck(held, root, request) = Proceed
  BY PartsAssumption DEF EditInv, Checked, Done
<1>2. /\ request.op \in {"put", "delete", "mkcol", "copy", "move"}
      /\ path \in Seq(STRING) /\ (request.op \in {"copy", "move"} => dest \in Seq(STRING))
  BY <1>1, RequestsAssumption
<1>3. /\ request.op = "mkcol" => ~Exists(held, root, path)
      /\ request.op \in {"copy", "move"} => IsDirectory(held, root, Parent(dest))
  BY <1>1, ChecksHold
<1> HIDE DEF held, path, dest
<1>4. CASE request.op = "put"
  <2>1. path = <<>>
    BY <1>4 DEF Impossible, SourceInTarget, OfTheRoot, path
  <2>2. outcome = WriteFile(held, root, <<>>, Blob(request.data))
    BY <1>1, <1>4, <2>1 DEF Edited, path
  <2> QED
    BY <2>2, RootStays DEF WriteFile
<1>5. CASE request.op = "delete"
  <2>1. path = <<>>
    BY <1>5 DEF Impossible, SourceInTarget, OfTheRoot, path
  <2>2. outcome = RemoveTreeEntry(held, root, <<>>)
    BY <1>1, <1>5, <2>1 DEF Edited, path
  <2> QED
    BY <2>2, RootStays DEF RemoveTreeEntry
<1>6. CASE request.op = "mkcol"
  <2>1. path = <<>>
    BY <1>6 DEF Impossible, SourceInTarget, OfTheRoot, path
  <2> QED
    BY <1>3, <1>6, <2>1 DEF Exists, IsDirectory
<1>7. CASE request.op \in {"copy", "move"}
  <2> DEFINE copied  == CopiedAt(held, root, path, dest)
             removed == RemoveTreeEntry(copied.objects, copied.root, path)
             moved   == Then(copied, removed)
  <2>1. outcome = copied \/ (request.op = "move" /\ outcome = moved)
    BY <1>1, <1>7 DEF Edited, CopyOrMove, CopiedAt, ClearedAt, path, dest
  <2>2. ASSUME dest = <<>>
        PROVE  ~copied.ok
    <3> DEFINE cleared == ClearedAt(held, root, dest)
    <3>1. cleared = RemoveTreeEntry(held, root, <<>>)
      BY <2>2, RootIsFound DEF ClearedAt
    <3>2. ~cleared.ok
      BY <3>1, RootStays DEF RemoveTreeEntry
    <3> HIDE DEF cleared
    <3> QED
      BY <3>2, ThenSucceeds DEF CopiedAt, cleared
  <2>3. ASSUME Along(dest, path), dest # <<>>
        PROVE  ~copied.ok
    <3>1. dest \in Seq(STRING) /\ InDir(held, root, dest)
      BY <1>2, <1>3, <1>7, <2>3, ParentIsDir
    <3> QED
      BY <1>1, <1>2, <2>3, <3>1, SourceIsGone
  <2>4. ASSUME path = <<>>
        PROVE  ~removed.ok
    BY <2>4, RootStays DEF RemoveTreeEntry
  <2>5. SourceInTarget => Along(dest, path)
    BY <1>2, <1>7, PrefixIsAlong DEF SourceInTarget, path, dest
  <2>6. (request.op = "move" /\ path = <<>>) \/ Along(dest, path)
    BY <1>7, <2>5 DEF Impossible, OfTheRoot, path
  <2> HIDE DEF copied, removed
  <2>7. moved.ok => copied.ok /\ removed.ok
    BY ThenSucceeds
  <2> HIDE DEF moved
  <2>8. CASE Along(dest, path)
    BY <2>1, <2>2, <2>3, <2>7, <2>8
  <2>9. CASE request.op = "move" /\ path = <<>> /\ ~Along(dest, path)
    <3>1. outcome = moved
      BY <1>1, <2>9 DEF Edited, CopyOrMove, CopiedAt, ClearedAt, path, dest, copied, removed, moved
    <3> QED
      BY <2>4, <2>7, <2>9, <3>1
  <2> QED
    BY <2>6, <2>8, <2>9
<1> QED
  BY <1>2, <1>4, <1>5, <1>6, <1>7

\* Of two paths along a third one, one is along the other.
LEMMA OneIsAlong ==
  ASSUME NEW p, NEW d, NEW q, Len(p) \in Nat, Len(d) \in Nat, Len(q) \in Nat,
         Along(p, q), Along(d, q)
  PROVE  Along(p, d) \/ Along(d, p)
<1>1. CASE Len(p) <= Len(d)
  BY <1>1 DEF Along, Agree
<1>2. CASE Len(d) <= Len(p)
  BY <1>2 DEF Along, Agree
<1> QED
  BY <1>1, <1>2

\* What the checked request that was made asks for is what is seen.
AsAsked ==
  outcome.ok /\ \A q \in Seq(STRING) :
                  \/ IntoItself /\ IsPrefix(request.path, q)
                  \/ Seen(outcome.root, q) = Asked(q)

LEMMA EditIsAsAsked ==
  ASSUME EditInv, Checked, ~Impossible
  PROVE  AsAsked
<1> DEFINE held == Parts(root)
           path == request.path
           dest == request.dest
<1>1. /\ root \in held /\ root.kind = "tree" /\ root # NoTree /\ Closed(held) /\ WellFormed(held)
      /\ request \in Requests /\ outcome = Edited(held, root, request)
      /\ HandlerCheck(held, root, request) = Proceed
  BY PartsAssumption DEF EditInv, Checked, Done
<1>2. /\ request.op \in {"put", "delete", "mkcol", "copy", "move"}
      /\ path \in Seq(STRING) /\ (request.op \in {"copy", "move"} => dest \in Seq(STRING))
  BY <1>1, RequestsAssumption
<1>3. /\ request.op = "put" => IsDirectory(held, root, Parent(path))
      /\ request.op = "delete" => Exists(held, root, path)
      /\ request.op = "mkcol" => ~Exists(held, root, path) /\ IsDirectory(held, root, Parent(path))
      /\ request.op \in {"copy", "move"} => Exists(held, root, path) /\ IsDirectory(held, root, Parent(dest))
  BY <1>1, ChecksHold
<1>4. /\ IsPath(path) /\ Len(path) \in Nat
      /\ request.op # "copy" => path # <<>> /\ Len(path) # 0
  BY <1>2, EmptySeq DEF IsPath, Impossible, OfTheRoot
<1>5. \A p, q \in Seq(STRING) : IsPrefix(p, q) <=> Along(p, q)
  BY PrefixIsAlong
<1>6. request.op # "put" /\ request.op # "mkcol" =>
        FindTreeEntry(held, root, path).answer = "some"
  <2>1. CASE path = <<>>
    BY <2>1, RootIsFound
  <2>2. CASE path # <<>>
    BY <1>1, <1>2, <1>3, <2>2, ExistingIsFound
  <2> QED
    BY <2>1, <2>2
<1> HIDE DEF held, path, dest
<1>7. CASE request.op = "put"
  <2> DEFINE blob == Blob(request.data)
             r    == WriteFile(held, root, path, blob)
  <2>1. outcome = r
    BY <1>1, <1>7 DEF Edited, path
  <2>2. r.ok
    BY <1>1, <1>4, <1>7, WriteSucceeds
  <2>3. InDir(held, root, path)
    BY <1>2, <1>3, <1>4, <1>7, ParentIsDir DEF path
  <2>4. ASSUME NEW q \in Seq(STRING)
        PROVE  Seen(r.root, q) = Asked(q)
    <3>1. Seen(r.root, q) = SeenWithFile(root, path, blob, q)
      BY <1>1, <1>2, <2>2, <2>3, WriteSeen
    <3> HIDE DEF r
    <3> QED
      BY <1>2, <1>5, <1>7, <3>1 DEF SeenWithFile, Asked, Before, path
  <2> HIDE DEF r
  <2> QED
    BY <2>1, <2>2, <2>4 DEF AsAsked
<1>8. CASE request.op = "delete"
  <2> DEFINE r == RemoveTreeEntry(held, root, path)
  <2>1. outcome = r
    BY <1>1, <1>8 DEF Edited, path
  <2>2. r.ok
    BY <1>1, <1>4, <1>6, <1>8, ModifySucceeds DEF RemoveTreeEntry
  <2>3. ASSUME NEW q \in Seq(STRING)
        PROVE  Seen(r.root, q) = Asked(q)
    <3>1. Len(q) \in Nat
      OBVIOUS
    <3>2. Seen(r.root, q) = IF Along(path, q) THEN {} ELSE Seen(root, q)
      BY <1>1, <1>4, <1>8, <2>2, <3>1, RemoveSeen
    <3> HIDE DEF r
    <3> QED
      BY <1>2, <1>5, <1>8, <3>2 DEF Asked, Before, path
  <2> HIDE DEF r
  <2> QED
    BY <2>1, <2>2, <2>3 DEF AsAsked
<1>9. CASE request.op = "mkcol"
  <2> DEFINE r == CreateDir(held, root, path)
  <2>1. outcome = r
    BY <1>1, <1>9 DEF Edited, path
  <2>2. r.ok
    <3>1. IsPath(Append(path, Marker)) /\ Len(Append(path, Marker)) # 0
      BY <1>2, <1>4, MarkerPath, AppendProperties
    <3> QED
      BY <1>1, <3>1, WriteSucceeds DEF CreateDir
  <2>3. path \in Seq(STRING \cup {Marker})
    BY <1>2, SeqMonotonic
  <2>4. ASSUME NEW q \in Seq(STRING)
        PROVE  Seen(r.root, q) = Asked(q)
    <3>1. q \in Seq(STRING \cup {Marker})
      BY SeqMonotonic
    <3>2. Seen(r.root, q) = SeenWithDir(root, path, q)
      BY <1>1, <1>3, <1>9, <2>2, <2>3, <3>1, MkcolSeen DEF path
    <3> HIDE DEF r
    <3> QED
      BY <1>9, <3>2 DEF SeenWithDir, Asked, Before, path
  <2> HIDE DEF r
  <2> QED
    BY <2>1, <2>2, <2>4 DEF AsAsked
<1>10. CASE request.op \in {"copy", "move"}
  <2> DEFINE copied == CopiedAt(held, root, path, dest)
             moved  == Then(copied, RemoveTreeEntry(copied.objects, copied.root, path))
  <2>1. dest \in Seq(STRING) /\ ~Along(dest, path)
    BY <1>2, <1>5, <1>10 DEF Impossible, SourceInTarget, path, dest
  <2>2. dest # <<>>
    BY <2>1 DEF Along, Agree
  <2>3. InDir(held, root, dest)
    BY <1>3, <1>10, <2>1, <2>2, ParentIsDir
  <2>4. Seen(root, path) # {}
    BY <1>1, <1>4, <1>6, <1>10, FoundIsSeen
  <2>5. ASSUME NEW q \in Seq(STRING)
        PROVE  SeenCopied(root, path, dest, q) = Copied(q)
    <3> DEFINE long == path \o SubSeq(q, Len(dest) + 1, Len(q))
    <3>1. long = Rebased(q, dest, path)
      BY DEF Rebased
    <3>2. Along(dest, q) => long \in Seq(STRING)
      <4> DEFINE rest == SubSeq(q, Len(dest) + 1, Len(q))
      <4>1. Along(dest, q) => rest \in Seq(STRING)
        BY <2>1, TheRest
      <4> HIDE DEF rest
      <4>2. rest \in Seq(STRING) => path \o rest \in Seq(STRING)
        BY <1>2, ConcatProperties
      <4> QED
        BY <4>1, <4>2 DEF rest
    <3> HIDE DEF long
    <3>3. Along(dest, q) => SeenCleared(root, dest, long) = Cleared(long)
      BY <1>5, <2>1, <3>2 DEF SeenCleared, Cleared, Before, dest
    <3>4. SeenCopied(root, path, dest, q) =
            IF Along(dest, q) THEN SeenCleared(root, dest, long) ELSE Seen(root, q)
      BY DEF SeenCopied, long
    <3>5. Copied(q) = IF IsPrefix(dest, q) THEN Cleared(long) ELSE Seen(root, q)
      BY <3>1 DEF Copied, Before, dest, path
    <3> QED
      BY <1>5, <2>1, <3>3, <3>4, <3>5
  <2>6. CASE request.op = "copy"
    <3>1. outcome = copied
      BY <1>1, <2>6 DEF Edited, CopyOrMove, CopiedAt, ClearedAt, path, dest
    <3>2. Sound(copied, held) /\ \A q \in Seq(STRING) : Seen(copied.root, q) = SeenCopied(root, path, dest, q)
      BY <1>1, <1>2, <2>1, <2>3, <2>4, CopiedSeen
    <3> HIDE DEF copied
    <3>3. \A q \in Seq(STRING) : Asked(q) = Copied(q)
      BY <2>6 DEF Asked
    <3> QED
      BY <2>5, <3>1, <3>2, <3>3 DEF AsAsked, Sound
  <2>7. CASE request.op = "move"
    <3>1. outcome = moved
      BY <1>1, <2>7 DEF Edited, CopyOrMove, CopiedAt, ClearedAt, path, dest
    <3>2. /\ moved.ok
          /\ \A q \in Seq(STRING) :
               Seen(moved.root, q) = IF Along(path, q) THEN {} ELSE SeenCopied(root, path, dest, q)
      BY <1>1, <1>2, <1>4, <2>1, <2>3, <2>4, <2>7, MovedSeen
    <3> HIDE DEF moved
    <3>3. ASSUME NEW q \in Seq(STRING), ~(IntoItself /\ IsPrefix(request.path, q))
          PROVE  Seen(moved.root, q) = Asked(q)
      <4>1. Asked(q) = IF IsPrefix(path, q) /\ ~IsPrefix(dest, q) THEN {} ELSE Copied(q)
        BY <2>7 DEF Asked, path, dest
      <4>2. Along(path, q) /\ Along(dest, q) => Along(path, dest)
        <5>1. Len(q) \in Nat /\ Len(dest) \in Nat
          BY <2>1
        <5> QED
          BY <1>4, <2>1, <5>1, OneIsAlong
      <4>3. IntoItself <=> Along(path, dest)
        BY <1>2, <1>5, <2>1, <2>7 DEF IntoItself, path, dest
      <4>4. ~(Along(path, q) /\ Along(dest, q))
        BY <1>2, <1>5, <3>3, <4>2, <4>3 DEF path
      <4>5. Seen(moved.root, q) = IF Along(path, q) THEN {} ELSE Copied(q)
        BY <2>5, <3>2
      <4>6. (IsPrefix(path, q) <=> Along(path, q)) /\ (IsPrefix(dest, q) <=> Along(dest, q))
        BY <1>2, <1>5, <2>1
      <4> QED
        BY <4>1, <4>4, <4>5, <4>6
    <3> QED
      BY <3>1, <3>2, <3>3 DEF AsAsked
  <2> QED
    BY <1>10, <2>6, <2>7
<1> QED
  BY <1>2, <1>7, <1>8, <1>9, <1>10

\* The handler's promise for a single write, with nothing changed between the
\* checks and the edit: PUT, DELETE, MKCOL, COPY and MOVE (repo.rs:372-462)
\* succeed, and what the new tree has at every path is what was asked for, all
\* else as it was, whatever the tree and whatever the paths.  A source that is
\* the destination or lies below it, and the root, which cannot be written or
\* removed, make the request fail without an effect.  Only what a MOVE to a place
\* below its own source leaves there is not told: MoveKeepsContent refutes it.
THEOREM EditsDoWhatWasAsked == Spec => []EditDoesWhatWasAsked
<1>1. EditInv => EditDoesWhatWasAsked
  BY EditIsAsAsked, ImpossibleFails, PathsAssumption DEF EditDoesWhatWasAsked, AsAsked
<1> QED
  BY <1>1, EditHolds, PTL
===============================================================================
