------------------------------- MODULE Packfile -------------------------------
(***************************************************************************)
(* parse_packfile and build_packfile of src/git/packfile.rs: what is left  *)
(* of a pack after a connection, and which objects davgit finds in it.     *)
(*                                                                         *)
(* A pack is a sequence of entries.  An entry is an object, or a delta     *)
(* against an object named by its distance back in the pack (OFS_DELTA) or *)
(* by its id (REF_DELTA).  The program reads the bytes of its header, the  *)
(* id of its base and, from zlen compressed bytes, the content of the      *)
(* object or the delta.  The kind of the entry and the object it stands    *)
(* for, where it starts and the entry of its base (on, 0 if the base is    *)
(* not in the pack) are there for the properties.                          *)
(*                                                                         *)
(* An id is the hash of type and content: Hash finds the object that has   *)
(* them.  As an object has one type, a set of objects stands for both maps *)
(* of the program, objects and obj_types.                                  *)
(***************************************************************************)
EXTENDS PackBytes

CONSTANTS
  Obj,         \* ids of objects
  None,        \* the id of what is no object of Obj
  TypeOf(_),   \* an object's type
  Content(_),  \* and its bytes
  Packs,       \* packs that servers send
  Lists        \* lists of objects that davgit builds packs of

\* An id is the hash of a type and of bytes: no two objects have the same.
ASSUME ObjAssumption ==
  /\ \A o \in Obj : Content(o) \in Seq(0..255)
  /\ \A o \in Obj, q \in Obj : TypeOf(o) = TypeOf(q) /\ Content(o) = Content(q) => o = q

Plain         == {1, 2, 3}   \* OBJ_COMMIT, OBJ_TREE, OBJ_BLOB
OBJ_OFS_DELTA == 6
OBJ_REF_DELTA == 7
Kinds         == Plain \cup {OBJ_OFS_DELTA, OBJ_REF_DELTA}

\* push_with_cache (src/git/repo.rs) puts commits, trees and blobs in a pack, each once.
ASSUME ListsAssumption ==
  \A list \in Lists :
    /\ list \in Seq(Obj)
    /\ \A i \in DOMAIN list : TypeOf(list[i]) \in Plain
    /\ \A i \in DOMAIN list, j \in DOMAIN list : list[i] = list[j] => i = j

Hash(type, content) ==
  IF \E o \in Obj : TypeOf(o) = type /\ Content(o) = content
  THEN CHOOSE o \in Obj : TypeOf(o) = type /\ Content(o) = content
  ELSE None

Width(e)   == Len(e.head) + e.idlen + e.zlen
Size(p)    == IF p = <<>> THEN 32 ELSE p[Len(p)].start + Width(p[Len(p)]) + 20

\* build_packfile: whole objects, after the 12 bytes in front of every pack.
HeadOf(o) == EncodeSizeType(TypeOf(o), Len(Content(o)))
Starts(list) ==
  LET start[i \in DOMAIN list] ==
        IF i = 1 THEN 12 ELSE start[i - 1] + Len(HeadOf(list[i - 1])) + 1
  IN  start
BuildPackfile(list) ==
  [i \in DOMAIN list |->
    [kind |-> TypeOf(list[i]), head |-> HeadOf(list[i]), idlen |-> 0, id |-> None,
     delta |-> <<>>, zlen |-> 1, start |-> Starts(list)[i], obj |-> list[i], on |-> 0]]

VARIABLES
  pack,      \* the pack sent
  got,       \* how many of its bytes arrived
  phase,     \* of reading it, or how that ended
  next,      \* the entry to read
  pos,       \* where it begins, by the program's count
  objects,   \* the objects found
  byOffset,  \* and those of them found at a position
  deferred   \* REF_DELTAs met before their base
vars == <<pack, got, phase, next, pos, objects, byOffset, deferred>>
found == <<objects, byOffset, deferred>>

Ended == {"nothing new", "error", "panic", "ok"}

\* A connection that ends early leaves a prefix: each kind of prefix there is.
Arrivals(p) == {0, 3, 4, 11, 12, 19, 20, Size(p) - 1, Size(p)}

-------------------------------------------------------------------------------
\* try_fetch looks for the four bytes PACK, parse_packfile for the header, the
\* checksum (12 to 19 bytes: the difference of two lengths is below zero) and
\* only then for the entries.  That the last 20 bytes are the digest of the others
\* of a whole pack only is taken for granted, hashes being free of collisions.
Verify ==
  /\ phase = "received"
  /\ \/ got < 4 /\ phase' = "nothing new"
     \/ got \in 4..11 /\ phase' = "error"
     \/ got \in 12..19 /\ phase' = "panic"
     \/ got \in 20..(Size(pack) - 1) /\ phase' = "error"
     \/ got = Size(pack) /\ phase' = "entries"
  /\ UNCHANGED <<pack, got, next, pos, found>>

Header(e)   == DecodeSizeType(e.head, 1)
Distance(e) == DecodeOffset(e.head, Header(e).pos)

\* Bytes read before the compressed data.
Read(e) ==
  CASE Header(e).kind = OBJ_OFS_DELTA -> Distance(e).pos - 1
    [] Header(e).kind = OBJ_REF_DELTA -> Header(e).pos - 1 + 20
    [] OTHER                          -> Header(e).pos - 1

Entry == pack[next]

Resolved(base, delta) == Hash(TypeOf(base), ApplyDelta(Content(base), delta))

Store(object, at) ==
  /\ objects' = objects \cup {object}
  /\ byOffset' = byOffset \cup {[at |-> at, obj |-> object]}

Bases == {b \in byOffset : b.at = pos - Distance(Entry).off}

ParsePlain ==
  /\ Header(Entry).kind \in Plain
  /\ Store(Hash(Header(Entry).kind, Content(Entry.obj)), pos)
  /\ UNCHANGED deferred

ParseOfsDelta ==
  /\ Header(Entry).kind = OBJ_OFS_DELTA
  /\ \E b \in Bases : Store(Resolved(b.obj, Entry.delta), pos)
  /\ UNCHANGED deferred

ParseRefDelta ==
  /\ Header(Entry).kind = OBJ_REF_DELTA
  /\ \/ /\ Entry.id \in objects
        /\ Store(Resolved(Entry.id, Entry.delta), pos) /\ UNCHANGED deferred
     \/ /\ Entry.id \notin objects
        /\ deferred' = Append(deferred, [id |-> Entry.id, delta |-> Entry.delta, at |-> pos])
        /\ UNCHANGED <<objects, byOffset>>

\* Any other kind is inflated and forgotten.
ParseOther == Header(Entry).kind \notin Kinds /\ UNCHANGED found

\* The compressed data is where the header ends, or inflating it fails.
Aligned == Read(Entry) = Len(Entry.head) + Entry.idlen

ParseEntry ==
  /\ phase = "entries" /\ next <= Len(pack) /\ Aligned
  /\ ParsePlain \/ ParseOfsDelta \/ ParseRefDelta \/ ParseOther
  /\ next' = next + 1 /\ pos' = pos + Read(Entry) + Entry.zlen
  /\ UNCHANGED <<pack, got, phase>>

ParseFails ==
  /\ phase = "entries" /\ next <= Len(pack)
  /\ ~Aligned \/ (Header(Entry).kind = OBJ_OFS_DELTA /\ Bases = {})
  /\ phase' = "error"
  /\ UNCHANGED <<pack, got, next, pos, found>>

EndOfEntries ==
  /\ phase = "entries" /\ next > Len(pack)
  /\ phase' = "deferred"
  /\ UNCHANGED <<pack, got, next, pos, found>>

\* A mistake: the deltas are resolved from the last one to the first.
MutantResolveDeferred ==
  /\ phase = "deferred" /\ deferred # <<>>
  /\ LET d == deferred[Len(deferred)]
     IN  \/ d.id \in objects /\ Store(Resolved(d.id, d.delta), d.at)
         \/ d.id \notin objects /\ UNCHANGED <<objects, byOffset>>
  /\ deferred' = SubSeq(deferred, 1, Len(deferred) - 1)
  /\ UNCHANGED <<pack, got, phase, next, pos>>

\* One pass: a delta whose base is still not there is skipped.
ResolveDeferred ==
  /\ phase = "deferred" /\ deferred # <<>>
  /\ LET d == Head(deferred)
     IN  \/ d.id \in objects /\ Store(Resolved(d.id, d.delta), d.at)
         \/ d.id \notin objects /\ UNCHANGED <<objects, byOffset>>
  /\ deferred' = Tail(deferred)
  /\ UNCHANGED <<pack, got, phase, next, pos>>

Finish ==
  /\ phase = "deferred" /\ deferred = <<>>
  /\ phase' = "ok"
  /\ UNCHANGED <<pack, got, next, pos, found>>

-------------------------------------------------------------------------------
Init ==
  /\ pack \in Packs \cup {BuildPackfile(list) : list \in Lists}
  /\ got \in Arrivals(pack)
  /\ phase = "received" /\ next = 1 /\ pos = 12
  /\ objects = {} /\ byOffset = {} /\ deferred = <<>>

Done == phase \in Ended /\ UNCHANGED vars

Next == \/ Verify \/ ParseEntry \/ ParseFails \/ EndOfEntries
        \/ ResolveDeferred \/ Finish \/ Done

Spec == Init /\ [][Next]_vars

-------------------------------------------------------------------------------
(* What the entries of a pack stand for                                     *)

EntryType ==
  [kind : 0..7, head : Seq(0..255), idlen : Nat, id : Obj \cup {None}, delta : Seq(0..255),
   zlen : Nat, start : Nat, obj : Obj, on : Nat]

\* How git writes the entries of a pack: one after the other, each for an object
\* of its own.  The steps of the delta of entry i are how[i]; they copy nothing
\* that the base does not have, and they make the object of the base.
DeltaByGit(base, steps, e) ==
  /\ TypeOf(e.obj) = TypeOf(base) /\ e.delta = GitDelta(Content(base), steps)
  /\ \A k \in DOMAIN steps : steps[k].offset + steps[k].size <= Len(Content(base))
  /\ Content(e.obj) = Target(Content(base), steps)

EntryByGit(p, how, i) ==
  LET e    == p[i]
      size == IF e.kind \in {OBJ_OFS_DELTA, OBJ_REF_DELTA} THEN Len(e.delta)
              ELSE Len(Content(e.obj))
  IN  /\ e.start = IF i = 1 THEN 12 ELSE p[i - 1].start + Width(p[i - 1])
      /\ e.kind \in Plain => e.kind = TypeOf(e.obj)
      /\ e.kind = OBJ_OFS_DELTA => /\ e.on \in 1..(i - 1)
                                   /\ DeltaByGit(p[e.on].obj, how[i], e)
      /\ e.kind = OBJ_REF_DELTA => /\ e.on # 0 => e.on \in DOMAIN p /\ e.id = p[e.on].obj
                                   /\ e.id \in Obj /\ DeltaByGit(e.id, how[i], e)
      /\ e.on # 0 => p[e.on].kind \in Kinds
      /\ e.idlen = IF e.kind = OBJ_REF_DELTA THEN 20 ELSE 0
      /\ e.head = GitHeader(e.kind, size) \o
           (IF e.kind = OBJ_OFS_DELTA THEN GitOffset(e.start - p[e.on].start) ELSE <<>>)

WrittenByGit(p, how) ==
  /\ p \in Seq(EntryType) /\ how \in [DOMAIN p -> Seq(Step)]
  /\ \A i \in DOMAIN p : EntryByGit(p, how, i)
  /\ \A i \in DOMAIN p, j \in DOMAIN p : p[i].obj = p[j].obj => i = j

\* The program reads of an entry what was written: its kind, where its data is,
\* how far back its base is, and the object that its bytes or its delta make.
EntryReadsBack(p, i) ==
  LET e == p[i]
  IN  /\ Header(e).kind = e.kind /\ Read(e) = Len(e.head) + e.idlen
      /\ e.kind \in Plain => Hash(e.kind, Content(e.obj)) = e.obj
      /\ e.kind = OBJ_OFS_DELTA => /\ e.on \in 1..(i - 1)
                                   /\ e.start - Distance(e).off = p[e.on].start
                                   /\ Resolved(p[e.on].obj, e.delta) = e.obj
      /\ e.kind = OBJ_REF_DELTA => /\ e.on # 0 => e.on \in DOMAIN p /\ e.id = p[e.on].obj
                                   /\ Resolved(e.id, e.delta) = e.obj
      /\ e.on # 0 => p[e.on].kind \in Kinds

\* A pack has its entries one after the other, each for an object of its own.
ReadsBack(p) ==
  /\ p \in Seq(EntryType) /\ (p # <<>> => p[1].start = 12)
  /\ \A i \in DOMAIN p : EntryReadsBack(p, i) /\ p[i].head # <<>>
  /\ \A i \in DOMAIN p, j \in DOMAIN p :
       /\ i < j => p[i].start + Width(p[i]) <= p[j].start
       /\ i + 1 = j => p[j].start = p[i].start + Width(p[i])
       /\ p[i].obj = p[j].obj => i = j

\* Numbers and deltas of every pack, git's and davgit's own, are read as they
\* were written, at every length at which they take one byte more.
PackReadsBack == ReadsBack(pack)

Entries     == DOMAIN pack
IsDelta(i)  == pack[i].kind \in {OBJ_OFS_DELTA, OBJ_REF_DELTA}
Lost(i)     == pack[i].kind \in Kinds /\ pack[i].obj \notin objects

\* What is found is what the pack stands for, and what is found at a position
\* is the object of the entry that starts there: a delta is never resolved
\* against another base than the one its writer meant.
ParseSound ==
  /\ \A o \in objects : \E i \in Entries : pack[i].obj = o
  /\ \A b \in byOffset : \E i \in Entries : pack[i].start = b.at /\ pack[i].obj = b.obj

\* A pack that arrives whole with each base before its deltas, as git writes
\* one and as davgit builds one, is read without an error to its last object.
BasesFirst == \A i \in Entries : IsDelta(i) => pack[i].on \in 1..(i - 1)
WholePackIsParsed ==
  got = Size(pack) /\ BasesFirst =>
    /\ phase \notin {"nothing new", "error", "panic"}
    /\ phase = "ok" => \A i \in Entries : ~Lost(i)

\* In any order, a parse that ends well lost only REF_DELTAs whose base is not
\* in the pack, was lost too, or is itself a REF_DELTA further on.
OnlyLateBasesAreSkipped ==
  phase = "ok" => \A i \in Entries : Lost(i) =>
    /\ pack[i].kind = OBJ_REF_DELTA
    /\ pack[i].on = 0 \/ Lost(pack[i].on)
       \/ (pack[pack[i].on].kind = OBJ_REF_DELTA /\ pack[i].on > i)

-------------------------------------------------------------------------------
(* Why that is so: what has been made of the entries read.                  *)

BeforeNext == 1..(next - 1)
FoundAt(i) == [at |-> pack[i].start, obj |-> pack[i].obj]
DeltaAt(i) == [id |-> pack[i].id, delta |-> pack[i].delta, at |-> pack[i].start]
Waits(i)   == \E k \in DOMAIN deferred : deferred[k].at = pack[i].start

PhaseInv ==
  /\ next \in 1..(Len(pack) + 1)
  /\ phase = "received" => next = 1
  /\ phase \in {"received", "entries"} /\ next <= Len(pack) => pos = pack[next].start
  /\ phase \in {"deferred", "ok"} => next = Len(pack) + 1
  /\ phase = "ok" => deferred = <<>>
  /\ phase \in {"entries", "deferred", "ok"} \/ objects = {}
     \/ (phase = "error" /\ got = Size(pack))
  /\ phase \in {"entries", "deferred", "ok"} => got = Size(pack)

\* What is found or put off is that of an entry, and REF_DELTAs are put off in
\* the order of the pack.
FoundInv ==
  /\ \A o \in objects : \E i \in BeforeNext : pack[i].obj = o
  /\ \A b \in byOffset : \E i \in BeforeNext : b = FoundAt(i)
  /\ deferred \in Seq({DeltaAt(i) : i \in {j \in BeforeNext : pack[j].kind = OBJ_REF_DELTA}})
  /\ \A k \in DOMAIN deferred, l \in DOMAIN deferred :
       k < l => deferred[k].at < deferred[l].at

\* An object that has not been found is put off, or was skipped when its turn
\* came, as what comes later in the pack was still put off.
Skipped(i) ==
  /\ phase \in {"deferred", "ok"}
  /\ \A k \in DOMAIN deferred : pack[i].start < deferred[k].at
  /\ pack[i].on = 0 \/ Lost(pack[i].on)
     \/ (pack[pack[i].on].kind = OBJ_REF_DELTA /\ pack[i].on > i)
LostInv ==
  phase \in {"entries", "deferred", "ok"} => \A i \in BeforeNext : Lost(i) =>
    pack[i].kind = OBJ_REF_DELTA /\ (Waits(i) \/ Skipped(i))

\* When bases come first, everything read is found at once.
AllFoundInv ==
  got = Size(pack) /\ BasesFirst =>
    /\ phase \in {"received", "entries", "deferred", "ok"} /\ deferred = <<>>
    /\ \A i \in BeforeNext : pack[i].kind \in Kinds =>
         pack[i].obj \in objects /\ FoundAt(i) \in byOffset

\* The inductive invariant behind the theorems of PackfileProofs.
PackInv == PhaseInv /\ FoundInv /\ LostInv /\ AllFoundInv
===============================================================================
