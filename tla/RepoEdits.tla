------------------------------ MODULE RepoEdits -------------------------------
(***************************************************************************)
(* What each WebDAV request asks of the tree at the head of the branch:    *)
(* the checks src/handler.rs makes against the cached objects before a     *)
(* write (they answer the request or let it through), and the tree edits   *)
(* src/git/repo.rs composes from the operators of GitObjects.              *)
(*                                                                         *)
(* An edit is a record: op, path and, where the request has them, data,    *)
(* cond (If-None-Match or If-Match with a star), dest, overwrite and       *)
(* body (whether MKCOL comes with one).  A path is a sequence of names.    *)
(***************************************************************************)
EXTENDS GitObjects

CONSTANT NoTree    \* stands for the tree of a head commit that is not cached

Put(path, data, cond)   == [op |-> "put", path |-> path, data |-> data, cond |-> cond]
Delete(path)            == [op |-> "delete", path |-> path]
Mkcol(path, body)       == [op |-> "mkcol", path |-> path, body |-> body]
Copy(path, dest, over)  == [op |-> "copy", path |-> path, dest |-> dest, overwrite |-> over]
Move(path, dest, over)  == [op |-> "move", path |-> path, dest |-> dest, overwrite |-> over]

-------------------------------------------------------------------------------
\* The lookups of repo.rs.  A head commit that is not held, or a tree on the
\* way that is not held, makes everything but the root look absent.
Lookup(objects, root, path) ==
  IF root = NoTree THEN Broken ELSE FindTreeEntry(objects, root, path)

IsDirectory(objects, root, path) ==
  \/ path = <<>>
  \/ LET e == Lookup(objects, root, path) IN e.answer = "some" /\ e.mode = "tree"

\* file_size(path).is_some(): the blob itself has to be held.
IsFile(objects, root, path) ==
  LET e == Lookup(objects, root, path)
  IN  e.answer = "some" /\ e.mode # "tree" /\ e.oid \in objects

Exists(objects, root, path) ==
  IsDirectory(objects, root, path) \/ IsFile(objects, root, path)

Marker          == ".DAV"
IsDavPath(path) == path # <<>> /\ path[Len(path)] = Marker
Parent(path)    == IF path = <<>> THEN <<>> ELSE SubSeq(path, 1, Len(path) - 1)

-------------------------------------------------------------------------------
\* read_file, and handle_get around it.
Content(object) == [status |-> 200, body |-> object]
Status(code)    == [status |-> code, body |-> NoTree]

FileContent(objects, root, path) ==
  LET e == Lookup(objects, root, path)
  IN  IF root # NoTree /\ e.answer = "err" THEN Status(500)
      ELSE IF IsFile(objects, root, path) THEN Content(e.oid)
      ELSE Status(404)

Get(objects, root, path) ==
  IF IsDavPath(path) \/ IsDirectory(objects, root, path) THEN Status(404)
  ELSE FileContent(objects, root, path)

\* list_dir: a row for each entry, none where there is no directory.  A length
\* is told by a blob that has it; without the blob it is 0.
Row(name, isDir, length) == [name |-> name, is_dir |-> isDir, len |-> length]
Zero                     == Blob("")
Length(objects, entry)   ==
  IF entry.mode # "tree" /\ entry.oid \in objects THEN entry.oid ELSE Zero

ListDir(objects, root, path) ==
  LET e == Lookup(objects, root, path)
  IN  IF e.answer = "some" /\ e.mode = "tree" /\ e.oid \in objects
      THEN {Row(f.name, f.mode = "tree", Length(objects, f)) : f \in Entries(e.oid)}
      ELSE {}

-------------------------------------------------------------------------------
\* The checks before a write: Proceed, or the status the handler answers with.
Proceed == 100

\* Alternatives in the order of the handler's early returns.
FirstOf(checks) ==
  LET failing == {i \in DOMAIN checks : checks[i].when}
  IN  IF failing = {} THEN Proceed
      ELSE checks[CHOOSE i \in failing : \A j \in failing : i <= j].status
Check(when, status) == [when |-> when, status |-> status]

PutAnswer(e, parentIsDir, exists) ==
  FirstOf(<< Check(IsDavPath(e.path), 405),
             Check(~parentIsDir, 409),
             Check(e.cond = "If-None-Match" /\ exists, 412),
             Check(e.cond = "If-Match" /\ ~exists, 412),
             Check(e.data = "" /\ ~exists, 201) >>)

DeleteAnswer(e, exists) ==
  FirstOf(<< Check(IsDavPath(e.path), 405),
             Check(~exists, 404) >>)

MkcolAnswer(e, exists, parentIsDir) ==
  FirstOf(<< Check(e.body, 415),
             Check(exists, 405),
             Check(~parentIsDir, 409) >>)

CopyMoveAnswer(e, sourceExists, parentIsDir, destExists) ==
  FirstOf(<< Check(IsDavPath(e.path) \/ IsDavPath(e.dest), 404),
             Check(~sourceExists, 404),
             Check(~parentIsDir, 409),
             Check(destExists /\ ~e.overwrite, 412) >>)

\* The checks when nothing changes between their lookups.
HandlerCheck(objects, root, e) ==
  LET exists(path) == Exists(objects, root, path)
      isDir(path)  == IsDirectory(objects, root, path)
  IN  CASE e.op = "put"    -> PutAnswer(e, isDir(Parent(e.path)), exists(e.path))
        [] e.op = "delete" -> DeleteAnswer(e, exists(e.path))
        [] e.op = "mkcol"  -> MkcolAnswer(e, exists(e.path), isDir(Parent(e.path)))
        [] e.op \in {"copy", "move"} ->
             CopyMoveAnswer(e, exists(e.path), isDir(Parent(e.dest)), exists(e.dest))

-------------------------------------------------------------------------------
\* The edits, each with the objects it leaves in the local map and the list of
\* objects to push.  Then(first, second) is the second edit, made on the result
\* of the first, with both lists, or the first failure.
Unchanged(objects, root) ==
  [ok |-> TRUE, root |-> root, pack |-> <<>>, objects |-> objects]

\* A mistake: the list of the second edit replaces that of the first.
MutantThen(first, second) == IF ~first.ok THEN first ELSE second

Then(first, second) ==
  IF first.ok /\ second.ok THEN [second EXCEPT !.pack = first.pack \o @]
  ELSE IF first.ok THEN second ELSE first

\* A mistake: the blob is pushed but not cached.
MutantWriteFile(objects, root, path, blob) ==
  LET r == ModifyTreeEntry(objects, root, path, Leaf("blob", blob))
  IN  IF r.ok THEN [r EXCEPT !.pack = Append(@, blob)] ELSE r

\* A blob is put into the local map before the trees and into the pack after.
WriteFile(objects, root, path, blob) ==
  LET r == ModifyTreeEntry(objects \cup {blob}, root, path, Leaf("blob", blob))
  IN  IF r.ok THEN [r EXCEPT !.pack = Append(@, blob)] ELSE r

CreateDir(objects, root, path) ==
  WriteFile(objects, root, Append(path, Marker), Blob(""))

\* A mistake: a move removes the source from the tree before the copy.
MutantCopyOrMove(objects, root, src, dest, isMove) ==
  LET copied == CopyTreeEntry(objects, root, src, dest)
  IN  IF isMove THEN Then(copied, RemoveTreeEntry(copied.objects, root, src)) ELSE copied

\* try_copy_or_move: what is at the destination goes first, then the copy is
\* made, then, for a move, the source is removed from the copied tree.
CopyOrMove(objects, root, src, dest, isMove) ==
  LET target  == FindTreeEntry(objects, root, dest)
      cleared == CASE target.answer = "some" -> RemoveTreeEntry(objects, root, dest)
                   [] target.answer = "none" -> Unchanged(objects, root)
                   [] target.answer = "err"  -> Failed(objects)
      copied  == Then(cleared, CopyTreeEntry(cleared.objects, cleared.root, src, dest))
      moved   == Then(copied, RemoveTreeEntry(copied.objects, copied.root, src))
  IN  IF isMove THEN moved ELSE copied

Edited(objects, root, e) ==
  CASE e.op = "put"    -> WriteFile(objects, root, e.path, Blob(e.data))
    [] e.op = "delete" -> RemoveTreeEntry(objects, root, e.path)
    [] e.op = "mkcol"  -> CreateDir(objects, root, e.path)
    [] e.op = "copy"   -> CopyOrMove(objects, root, e.path, e.dest, FALSE)
    [] e.op = "move"   -> CopyOrMove(objects, root, e.path, e.dest, TRUE)
===============================================================================
