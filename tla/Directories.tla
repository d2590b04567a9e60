------------------------------ MODULE Directories ------------------------------
(***************************************************************************)
(* Files and directories: opening a file (cFile), copying and renaming one  *)
(* (cFileCopier), listing a directory (cFileFind, cFileDir), and the        *)
(* operations on a whole directory with all that is in it.                  *)
(* A path is absolute, the sequence of its names.  A world is a record:     *)
(*   fs    what is at each path that exists: a directory, or a file's bytes *)
(*   bad   the paths on which the system refuses whatever is asked          *)
(*   order all names, in the order in which the system lists them           *)
(* A result is the world after a call and an HRESULT.  The system's calls   *)
(* are external; there are no links, and no file is marked read only.       *)
(***************************************************************************)
EXTENDS Integers, Sequences
LOCAL INSTANCE SequencesExt

CONSTANT Os        \* "windows" or "linux"

S_OK == 0
S_FALSE == 1
FILE_NOT_FOUND == -2
PATH_NOT_FOUND == -3
ACCESS_DENIED == -5
INVALIDARG == -87
DIR_NOT_EMPTY == -145
ALREADY_EXISTS == -183

Directory == [dir |-> TRUE, bytes |-> <<>>]
FileOf(bytes) == [dir |-> FALSE, bytes |-> bytes]
Exists(w, p) == p \in DOMAIN w.fs
IsDir(w, p) == Exists(w, p) /\ w.fs[p].dir
IsUnder(p, d) == IsPrefix(d, p)
Below(w, d) == {p \in DOMAIN w.fs : IsUnder(p, d)}
Result(w, res) == [w |-> w, res |-> res]
With(w, p, node) == [w EXCEPT !.fs = [q \in DOMAIN @ \cup {p} |-> IF q = p THEN node ELSE @[q]]]
WithoutAll(w, S) == [w EXCEPT !.fs = [q \in DOMAIN @ \ S |-> @[q]]]
(* errno does not tell a missing directory from a missing file.             *)
NoParent == IF Os = "linux" THEN FILE_NOT_FOUND ELSE PATH_NOT_FOUND

-----------------------------------------------------------------------------
(* What the system does.                                                    *)
MkDir(w, p) ==
  IF Exists(w, p) THEN Result(w, ALREADY_EXISTS)
  ELSE IF ~IsDir(w, Front(p)) THEN Result(w, NoParent)
  ELSE IF p \in w.bad THEN Result(w, ACCESS_DENIED)
  ELSE Result(With(w, p, Directory), S_OK)
RmDir(w, p) ==
  IF ~IsDir(w, p) THEN Result(w, FILE_NOT_FOUND)
  ELSE IF p \in w.bad THEN Result(w, ACCESS_DENIED)
  ELSE IF Below(w, p) # {p} THEN Result(w, DIR_NOT_EMPTY)
  ELSE Result(WithoutAll(w, {p}), S_OK)
Unlink(w, p) ==
  IF Os = "linux" /\ IsDir(w, p) THEN RmDir(w, p)
  ELSE IF ~Exists(w, p) THEN Result(w, IF IsDir(w, Front(p)) THEN FILE_NOT_FOUND ELSE NoParent)
  ELSE IF p \in w.bad \/ IsDir(w, p) THEN Result(w, ACCESS_DENIED)
  ELSE Result(WithoutAll(w, {p}), S_OK)
Move(w, old, new) ==
  LET gone == Below(w, old)
      To(p) == new \o SubSeq(p, Len(old) + 1, Len(p))
      come == {To(p) : p \in gone}
  IN IF ~Exists(w, old) THEN Result(w, FILE_NOT_FOUND)
     ELSE IF ~IsDir(w, Front(new)) THEN Result(w, NoParent)
     ELSE IF {old, new} \cap w.bad # {} \/ IsDir(w, new) THEN Result(w, ACCESS_DENIED)
     ELSE Result([w EXCEPT !.fs = [p \in (DOMAIN @ \ gone) \cup come |->
                    IF p \in come THEN @[CHOOSE q \in gone : To(q) = p] ELSE @[p]]], S_OK)
CopyFileW(w, src, dst, failIfExists) ==
  IF ~Exists(w, src) THEN Result(w, FILE_NOT_FOUND)
  ELSE IF ~IsDir(w, Front(dst)) THEN Result(w, NoParent)
  ELSE IF {src, dst} \cap w.bad # {} \/ IsDir(w, src) \/ IsDir(w, dst) THEN Result(w, ACCESS_DENIED)
  ELSE IF failIfExists /\ Exists(w, dst) THEN Result(w, ALREADY_EXISTS)
  ELSE Result(With(w, dst, w.fs[src]), S_OK)

-----------------------------------------------------------------------------
CreateDirectory1(w, p) ==
  LET r == MkDir(w, p) IN IF r.res = ALREADY_EXISTS THEN Result(w, S_FALSE) ELSE r
RemoveDirectory1(w, p) == RmDir(w, p)

(* One directory after the other, until one fails.                          *)
CreateDirectoryX(w, p) ==
  LET Step(r, n) == IF r.res < 0 THEN r ELSE CreateDirectory1(r.w, SubSeq(p, 1, n))
  IN FoldLeft(Step, Result(w, S_FALSE), [n \in DOMAIN p |-> n])
CreateDirForFileX(w, p) == CreateDirectoryX(w, Front(p))

(* Opening.  flags is a subset of WRITE, READWRITE, CREATE and EXIST.       *)
Truncates(flags) == "CREATE" \in flags /\ (Os = "linux" \/ ("WRITE" \in flags /\ "EXIST" \notin flags))
Creates(flags) == "CREATE" \in flags /\ (Os = "linux" \/ "EXIST" \notin flags)
OpenCreate2(w, p, flags) ==
  IF Exists(w, p) THEN
    IF p \in w.bad \/ IsDir(w, p) THEN Result(w, ACCESS_DENIED)
    ELSE Result(IF Truncates(flags) THEN With(w, p, FileOf(<<>>)) ELSE w, S_OK)
  ELSE IF ~IsDir(w, Front(p)) THEN Result(w, NoParent)
  ELSE IF ~Creates(flags) THEN Result(w, FILE_NOT_FOUND)
  ELSE IF p \in w.bad THEN Result(w, ACCESS_DENIED)
  ELSE Result(With(w, p, FileOf(<<>>)), S_OK)
Reopened(first, made, p, flags) ==
  IF first.res # PATH_NOT_FOUND \/ "CREATE" \notin flags THEN first
  ELSE IF made.res < 0 THEN made ELSE OpenCreate2(made.w, p, flags)
OpenCreate(w, p, flags) == Reopened(OpenCreate2(w, p, flags), CreateDirForFileX(w, p), p, flags)

(* A cFile f = [path, flags, valid], and how many are open in the process.  *)
Closed == [path |-> <<>>, flags |-> {}, valid |-> FALSE]
OpenSetup(f, p, flags) ==
  IF f.valid /\ f.flags = flags /\ p \in {<<>>, f.path} THEN f
  ELSE [path |-> IF p = <<>> THEN f.path ELSE p, flags |-> flags, valid |-> FALSE]
CountClosed(f, g, n) == IF f.valid /\ ~g.valid THEN n - 1 ELSE n
OpenX(w, n, f, p, flags) ==
  LET g == OpenSetup(f, p, flags)
      r == OpenCreate(w, g.path, flags)
      closed == CountClosed(f, g, n)
  IN IF g.valid THEN [w |-> w, n |-> n, f |-> g, res |-> S_OK]
     ELSE IF r.res < 0 THEN [w |-> r.w, n |-> closed, f |-> g, res |-> r.res]
     ELSE [w |-> r.w, n |-> closed + 1, f |-> [g EXCEPT !.valid = TRUE], res |-> S_OK]
Close(n, f) == [n |-> IF f.valid THEN n - 1 ELSE n, f |-> [f EXCEPT !.valid = FALSE]]

(* Deleting what is not there is fine.                                      *)
DeletePath(w, p) ==
  LET r == Unlink(w, p) IN IF r.res = FILE_NOT_FOUND THEN Result(w, S_FALSE) ELSE r

-----------------------------------------------------------------------------
(* Without the system's own copy (linux) the stream is copied: as many      *)
(* bytes as the destination has, once it has been opened.                   *)
CopyFileInto(opened, data, dst, offset) ==
  LET old == opened.w.fs[dst].bytes
      copied == SubSeq(data, offset + 1, offset + Len(old))
  IN IF opened.res < 0 THEN opened
     ELSE Result(With(opened.w, dst, FileOf(SubSeq(old, 1, offset) \o copied)), S_OK)
CopyFileStream(w, data, dst, failIfExists, offset) ==
  IF failIfExists /\ OpenCreate(w, dst, {"EXIST"}).res < 0 THEN OpenCreate(w, dst, {"EXIST"})
  ELSE CopyFileInto(OpenCreate(w, dst, {"WRITE", "CREATE"}), data, dst, offset)
CopyFileX(w, src, dst, failIfExists) ==
  LET opened == OpenCreate(w, src, {})
  IN IF Os = "windows" THEN CopyFileW(w, src, dst, failIfExists)
     ELSE IF opened.res < 0 THEN opened
     ELSE CopyFileStream(w, w.fs[src].bytes, dst, failIfExists, 0)
RenamePath(w, old, new) == Move(w, old, new)

-----------------------------------------------------------------------------
(* A wildcard is {}, none, or {S}, where S is the set of names it fits.  In *)
(* linux the names that it fits are left out, and no wildcard fits all.     *)
Passes(name, wild) ==
  IF Os = "linux" THEN wild # {} /\ \A S \in wild : name \notin S ELSE \A S \in wild : name \in S
ReadDir(w, d, wild) ==
  LET names == SelectSeq(w.order, LAMBDA name : Exists(w, Append(d, name)) /\ Passes(name, wild))
  IN IF ~Exists(w, d)
     THEN [res |-> IF Os = "linux" THEN 0 ELSE PATH_NOT_FOUND, names |-> <<>>]
     ELSE IF ~IsDir(w, d) THEN [res |-> PATH_NOT_FOUND, names |-> <<>>]
     ELSE IF d \in w.bad THEN [res |-> ACCESS_DENIED, names |-> <<>>]
     ELSE [res |-> Len(names), names |-> names]
(* Of the files found, whose extensions are exts, the last that has the     *)
(* extension preferred most; 0 is none.                                     *)
ReadDirPreferredExt(exts, preferred) ==
  LET has == {i \in DOMAIN preferred : \E k \in DOMAIN exts : exts[k] = preferred[i]}
      best == CHOOSE i \in has : \A j \in has : i <= j
      files == {k \in DOMAIN exts : exts[k] = preferred[best]}
  IN IF has = {} THEN 0 ELSE CHOOSE k \in files : \A j \in files : j <= k

FileOpCopyDelete(w, op, src, dst) ==
  LET copied == CopyFileX(w, src, dst, FALSE)
  IN IF op = "Copy" THEN copied ELSE DeletePath(copied.w, src)
FileOp(w, op, src, dst) ==
  CASE op \in {"Move", "Rename"} -> RenamePath(w, src, dst)
    [] op = "Copy" -> CopyFileX(w, src, dst, FALSE)
    [] op = "Delete" -> DeletePath(w, src)

(* A file that fails is logged; a directory that fails ends it all.  The    *)
(* wildcard goes on down only to delete.  The answer is how many were found.*)
RECURSIVE DirFileOps(_, _, _, _, _, _)
EachFile(w, op, src, dst, wild, filesOnly) ==
  IF ~IsDir(w, src) THEN Result(FileOp(w, op, src, dst).w, S_OK)
  ELSE IF filesOnly THEN Result(w, S_OK)
  ELSE DirFileOps(w, op, src, dst, IF op = "Delete" THEN wild ELSE {}, filesOnly)
DirFilesDone(done, count, whole, src) ==
  IF done.res < 0 THEN done
  ELSE Result(IF whole THEN RemoveDirectory1(done.w, src).w ELSE done.w, count)
DirFileOps(w, op, src, dst, wild, filesOnly) ==
  LET found == ReadDir(w, src, wild)
      made == IF op \in {"Move", "Copy"} THEN CreateDirectoryX(w, dst) ELSE Result(w, S_OK)
      Step(r, name) == IF r.res < 0 THEN r
                       ELSE EachFile(r.w, op, Append(src, name), Append(dst, name), wild, filesOnly)
      whole == op = "Move" \/ (op = "Delete" /\ wild = {})
  IN IF op = "Rename" /\ wild # {} THEN Result(w, INVALIDARG)
     ELSE IF found.res <= 0 THEN Result(w, found.res)
     ELSE DirFilesDone(FoldLeft(Step, made, found.names), found.res, whole, src)

DeletePathX(w, p, filesOnly) ==
  IF ~IsDir(w, p) THEN DeletePath(w, p)
  ELSE IF filesOnly THEN Result(w, S_FALSE)
  ELSE DirFileOps(w, "Delete", p, <<>>, {}, filesOnly)
(* A directory goes there by what is in it.                                 *)
MovePathToTrash(w, p, trash) ==
  IF IsDir(w, p) THEN DirFileOps(w, "Move", p, trash, {}, FALSE)
  ELSE RenamePath(w, p, Append(trash, Last(p)))

-----------------------------------------------------------------------------
(* The copier's other side is below root.  No source (<<>>) deletes there.  *)
SentAgain(first, made, local, dst) ==
  IF first.res # PATH_NOT_FOUND THEN first
  ELSE IF made.res < 0 THEN made ELSE CopyFileX(made.w, local, dst, FALSE)
SendFile(w, root, local, remote, offset) ==
  LET dst == root \o remote
      opened == OpenCreate(w, local, {})
  IN IF remote = <<>> THEN Result(w, INVALIDARG)
     ELSE IF local = <<>> THEN DeletePathX(w, dst, FALSE)
     ELSE IF offset > 0
     THEN IF opened.res < 0 THEN opened ELSE CopyFileStream(w, w.fs[local].bytes, dst, FALSE, offset)
     ELSE SentAgain(CopyFileX(w, local, dst, FALSE), CreateDirForFileX(w, dst), local, dst)
RequestFile(w, root, remote, local, offset) ==
  LET src == root \o remote
      opened == OpenCreate(w, src, {})
  IN IF local = <<>> THEN Result(w, IF Exists(w, src) THEN S_OK ELSE FILE_NOT_FOUND)
     ELSE IF offset = 0 THEN CopyFileX(w, src, local, FALSE)
     ELSE IF opened.res < 0 THEN opened
     ELSE CopyFileStream(w, w.fs[src].bytes, local, FALSE, offset)
=============================================================================
