-------------------------------- MODULE Paths --------------------------------
(***************************************************************************)
(* cFilePath on a system whose names are case sensitive: the parts of a     *)
(* path, what kind of path it is, and paths that are combined, resolved and *)
(* made relative.  A place in a path counts from 0; -1 is none.             *)
(***************************************************************************)
EXTENDS TextBlocks

IsCharDirSep(ch) == ch \in {47, 92}
k_DirSep == 47
k_MaxLen == 4096
Colon == 58
Dot == 46
IsDevEnd(ch) == IsCharDirSep(ch) \/ ch = Colon

k_szBadChars == {60, 62, 34, 124}
k_szAllowedDOS == {94, 36, 126, 33, 35, 37, 38, 45, 123, 125, 40, 41, 64, 39, 96}
Systems == {"DEFAULT", "FAT", "FAT32", "NTFS", "NFS"}
GetFileCharType(ch, sys) ==
  LET other == IF sys = "FAT" THEN "Invalid" ELSE "Name3"
      unless(kind) == IF sys = "FAT" THEN "Invalid" ELSE kind
  IN CASE ch >= 255 -> other
       [] ch < k_Space \/ ch \in k_szBadChars \/ ch = 165 -> "Invalid"
       [] IsAlNum(ch) \/ ch = 95 -> "Name"
       [] IsRegEx(ch) -> "Wildcard"
       [] ch \in k_szAllowedDOS -> "Name2"
       [] ch = 47 -> unless("Dirs")
       [] ch = 92 -> IF sys = "NFS" THEN "Name" ELSE "Dirs"
       [] ch = Colon -> "Device"
       [] ch = Dot -> "Ext"
       [] ch \in {43, 91, 93} -> IF sys \in {"NFS", "NTFS"} THEN "Name2" ELSE "Invalid"
       [] ch \in {k_Space, 44} -> unless("Name2")
       [] OTHER -> other
FILECHR_All == {"Device", "Dirs", "Name", "Name2", "Name3", "Ext"}
IsFileNameValid(name, mask, sys) ==
  /\ \A i \in DOMAIN name : GetFileCharType(name[i], sys) \in mask
  /\ name # <<>> => name[Len(name)] \notin {Dot, k_Space}

IsFilePathTitle(name) == Len(name) < k_MaxLen /\ ~\E i \in DOMAIN name : IsDevEnd(name[i])
HasFilePathRelatives(name, orDevices) ==
  \/ Len(name) >= k_MaxLen
  \/ \E i \in 0..(Len(name) - 1) :
       \/ Ch(name, i) = Dot /\ Ch(name, i + 1) = Dot
       \/ orDevices /\ \/ IsCharDirSep(Ch(name, i)) /\ IsCharDirSep(Ch(name, i + 1))
                       \/ Ch(name, i) = Colon

GetFilePathDeviceLen(name) ==
  LET n == HeadLen(name, IsAlpha) IN IF n > 0 /\ Ch(name, n) = Colon THEN n + 1 ELSE 0
FileColon == <<102, 105, 108, 101, 58>>
IsFileDeviceRemote(path) ==
  CmpIN(path, FileColon, 5) # 0 /\ GetFilePathDeviceLen(path) > 2
IsFilePathRooted(name) ==
  LET dev == GetFilePathDeviceLen(name)
  IN name # <<>> /\ ((dev > 0 /\ Len(name) = dev) \/ IsCharDirSep(Ch(name, dev)))
IsFilePathRoot(name) ==
  LET dev == GetFilePathDeviceLen(name)
  IN Len(name) = dev + 1 /\ IsCharDirSep(Ch(name, dev))

-----------------------------------------------------------------------------
(* The name behind the directories, and its extension with its dot: the     *)
(* last one, or all of them.                                                *)
After(text, Stops(_)) == Max({0} \cup {i \in DOMAIN text : Stops(text[i])})
GetFileNameI(path) == After(path, IsDevEnd)
GetFileName(path) == From(path, GetFileNameI(path))
EndsExt(ch) == ch # Dot /\ GetFileCharType(ch, "DEFAULT") # "Name"
GetFileNameExt(name, multiDot) ==
  LET dots == {i \in After(name, EndsExt)..(Len(name) - 1) : Ch(name, i) = Dot}
  IN IF dots = {} THEN -1 ELSE IF multiDot THEN Min(dots) ELSE Max(dots)
StripFileExt(name, multiDot) ==
  LET ext == GetFileNameExt(name, multiDot) IN IF ext < 0 THEN name ELSE Slice(name, 0, ext)
ReplaceFileExt(path, extNew) == StripFileExt(CopyLen(path, k_MaxLen), FALSE) \o extNew
HasTitleWildcards(path) == HasRegEx(GetFileName(path))
GetFileNameNE(path, multiDot) == StripFileExt(GetFileName(path), multiDot)
IsFileNameExt(name, ext) == EndsWithI(name, ext)
GetNameExtStar(path) == ReplaceFileExt(GetFileName(path), <<Dot, Star>>)

(* A symbol made of a path: what is no letter becomes the substitute, or is *)
(* left out where that is 0; a device starts over, dots beyond the first of *)
(* a row and separators at the start are dropped.                           *)
k_LEN_MAX_CSYM == 128
SymStep(sym, ch, sub, flags) ==
  LET n == Len(sym.text)
      dot == ch = Dot
      kept == IF dot \/ IsCharDirSep(ch) THEN sub
              ELSE IF IsDigitA(ch) THEN IF n = 0 /\ "Name2" \notin flags THEN sub ELSE ch
              ELSE IF IsAlpha(ch) THEN ch ELSE sub
      marked == IF dot THEN n ELSE sym.lastDot
  IN IF n >= k_LEN_MAX_CSYM - 1 THEN sym
     ELSE IF ch = Colon THEN [text |-> <<>>, lastDot |-> -1]
     ELSE IF (dot /\ (n = 0 \/ sym.lastDot = n - 1)) \/ (n = 0 /\ IsCharDirSep(ch)) THEN sym
     ELSE [text |-> IF kept = 0 THEN sym.text ELSE Append(sym.text, kept), lastDot |-> marked]
MakeSymName(path, sub, flags) ==
  LET sym == FoldLeft(LAMBDA s, ch : SymStep(s, ch, sub, flags), [text |-> <<>>, lastDot |-> -1],
                      Slice(path, 0, Min({Len(path), 2 * k_LEN_MAX_CSYM})))
  IN IF sym.lastDot > 0 /\ "Ext" \notin flags THEN Slice(sym.text, 0, sym.lastDot) ELSE sym.text

(* Either separator is the same, and one at the end does not count.         *)
SepOf(ch) == IF IsCharDirSep(ch) THEN k_DirSep ELSE ch
ComparePath(a, b, max) ==
  LET i == Min({k \in 0..max : \/ k = max \/ SepOf(Ch(a, k)) # SepOf(Ch(b, k)) \/ Ch(a, k) = 0})
      x == SepOf(Ch(a, i))
      y == SepOf(Ch(b, i))
      trailing == (x = k_DirSep /\ y = 0 /\ i + 1 = Len(a)) \/ (y = k_DirSep /\ x = 0 /\ i + 1 = Len(b))
  IN IF i = max \/ trailing THEN 0 ELSE x - y

-----------------------------------------------------------------------------
SkipRelativePrefix(name) ==
  LET n == Min({k \in 0..Len(name) : ~(Ch(name, 2 * k) = Dot /\ IsCharDirSep(Ch(name, 2 * k + 1)))})
  IN From(name, 2 * n)
AddFileDirSepTwice(text, max, sep) == IF max > 0 /\ Len(text) + 2 < max THEN Append(text, sep) ELSE text
AddFileDirSep(text, max, sep) ==
  IF max > 0 /\ Len(text) + 2 < max /\ ~IsCharDirSep(text[Len(text)]) THEN Append(text, sep) ELSE text
RemoveFileDirSep(dir) ==
  IF Len(dir) > 1 /\ IsCharDirSep(dir[Len(dir)]) THEN Slice(dir, 0, Len(dir) - 1) ELSE dir
CombineFilePathA(text, max, name, sep) ==
  LET dir == IF text # <<>> /\ Len(text) < max - 1 THEN AddFileDirSep(text, max, sep) ELSE text
      rest == IF text = <<>> THEN name ELSE From(name, HeadLen(name, IsCharDirSep))
  IN dir \o CopyLen(SkipRelativePrefix(rest), max - Len(dir))
MakeFullPath(current, name, sep) ==
  IF IsFilePathRooted(name) THEN CopyLen(name, k_MaxLen)
  ELSE CombineFilePathA(current, k_MaxLen, name, sep)

(* The place behind the separator that many directories up from the end, or,*)
(* negative, down from the device.                                          *)
GetFilePathUpDir2(name, len, qty) ==
  LET from == IF qty < 0 THEN GetFilePathDeviceLen(name) ELSE 0
      end == IF len < 0 THEN Len(name) ELSE Min({len, Len(name)})
      seps == SetToSortSeq({i \in from..(end - 1) : IsCharDirSep(Ch(name, i))}, LAMBDA i, j : i < j)
      found == Len(seps)
  IN CASE qty = 0 -> 0
       [] qty < 0 -> IF found >= -qty THEN seps[-qty] + 1 ELSE -1
       [] qty > 0 -> IF found >= qty THEN seps[found - qty + 1] + 1
                     ELSE IF IsFilePathRooted(name) \/ qty - found > 1 THEN -1 ELSE 0
GetFilePathUpDir1(path, len, qty) ==
  LET at == GetFilePathUpDir2(path, len, qty) IN IF at < 0 THEN <<>> ELSE Slice(path, 0, at - 1)
(* The same name one directory up; none when there is no such directory.    *)
MakeFilePathUpDir(path) ==
  LET title == GetFileNameI(path)
      at == GetFilePathUpDir2(path, title, 2)
  IN IF at < 0 THEN <<>> ELSE <<Slice(path, 0, at) \o From(path, title)>>

(* Dots before a separator go up a directory for each dot but the first; if *)
(* there are not so many, they stay.  What was in the buffer before, which  *)
(* is the path itself when it is resolved in place, decides whether the     *)
(* path is rooted as long as nothing has been written.                      *)
RECURSIVE ProperFrom(_, _, _, _, _)
ProperFrom(inp, out, before, sep, max) ==
  LET dots == HeadLen(inp, LAMBDA ch : ch = Dot)
      up == GetFilePathUpDir2(out \o From(before, Len(out)), Len(out), dots)
      ch == IF IsCharDirSep(inp[1]) THEN sep ELSE inp[1]
  IN IF inp = <<>> \/ Len(out) >= max THEN out
     ELSE IF dots > 0 /\ IsCharDirSep(Ch(inp, dots))
     THEN IF up < 0 THEN ProperFrom(From(inp, dots), out \o CopyLen(Slice(inp, 0, dots), max - Len(out)),
                                    before, sep, max)
          ELSE ProperFrom(From(inp, dots + 1), Slice(out, 0, up), before, sep, max)
     ELSE ProperFrom(Tail(inp), Append(out, ch), before, sep, max)
MakeProperPath(inp, before, sep) == ProperFrom(inp, <<>>, before, sep, k_MaxLen)
CombineFilePath(dir, name, sep) ==
  LET both == CombineFilePathA(dir, k_MaxLen, name, sep) IN MakeProperPath(both, both, sep)
CombineFilePathF(sep, base, parts) ==
  LET all == FoldLeft(LAMBDA text, part : CombineFilePathA(text, k_MaxLen, part, sep),
                      CopyLen(base, k_MaxLen), Slice(parts, 0, Min({Len(parts), 256})))
  IN MakeProperPath(all, all, sep)

-----------------------------------------------------------------------------
(* A root is compared character by character, whether it ends at a separator*)
(* or inside a name.                                                        *)
IsRelativeRoot(full, root) == ComparePath(full, root, Len(root)) = 0
IsRelativePath(full, relative) ==
  /\ Len(relative) <= Len(full)
  /\ ComparePath(From(full, Len(full) - Len(relative)), relative, Len(relative)) = 0
SkipRoot(full, n) == From(full, IF IsCharDirSep(Ch(full, n)) THEN n + 1 ELSE n)
MakeRelativePath(full, root, current) ==
  LET dir == IF IsFilePathRooted(root) THEN root ELSE CombineFilePathA(current, k_MaxLen, root, k_DirSep)
  IN IF root = <<>> THEN full
     ELSE IF ~IsFilePathRooted(root) /\ IsRelativeRoot(full, root) THEN SkipRoot(full, Len(root))
     ELSE IF IsRelativeRoot(full, dir) THEN SkipRoot(full, Len(dir)) ELSE full

(* A root alone is lost: the first character is never looked at.            *)
ExtractDir(path, trailingSep) ==
  LET title == GetFileNameI(path)
      withEnd == trailingSep \/ Ch(path, title - 1) = Colon
  IN IF title <= 1 THEN <<>> ELSE Slice(path, 0, IF withEnd THEN title ELSE title - 1)
GetFileDir(path, trailingSep) == ExtractDir(CopyLen(path, k_MaxLen), trailingSep)
-----------------------------------------------------------------------------
(***************************************************************************)
(* cAppArgs: the arguments an app is started with, out of main()'s array or *)
(* out of one line, and how they are looked up; how a command is matched and*)
(* described (cAppCommand); and the directories cAppState derives from the  *)
(* environment.  args[1] is the app's own name, place 0 of the code.        *)
(***************************************************************************)

Equals == 61
k_ARG_ARRAY_MAX == 256
IsArgSwitch(ch) == ch \in {45, 47}
NoSwitch(arg) == From(arg, HeadLen(arg, IsArgSwitch))
IsArgMod(arg) == ~IsWhitespace(arg) /\ ~IsArgSwitch(Ch(arg, 0))

(* "Cmd=Val" are two arguments.  The app's own name is split as well.       *)
AppendArg(args, text, sepEquals) ==
  LET eq == FindCharN(text, Equals, Len(text) + 1)
  IN IF sepEquals /\ eq >= 0 THEN args \o <<Slice(text, 0, eq), From(text, eq + 1)>> ELSE Append(args, text)
InitArgsArray(texts, sepEquals) == FoldLeft(LAMBDA args, text : AppendArg(args, text, sepEquals), <<>>, texts)
InitArgsPosix(texts) ==
  [line |-> FlattenSeq([i \in 1..(Len(texts) - 1) |-> (IF i > 1 THEN <<k_Space>> ELSE <<>>) \o texts[i + 1]]),
   args |-> InitArgsArray(texts, TRUE)]
(* Without separators of its own the line is taken for that of a WinMain,   *)
(* and place 0 is kept for the app.                                         *)
InitArgsLine(line, seps) ==
  LET own == seps = <<>>
      sep == IF own THEN <<HT, k_Space>> ELSE seps
      tokens == ParseArray(line, k_ARG_ARRAY_MAX - (IF own THEN 1 ELSE 0), sep, STRP_DEF)
  IN [line |-> line, args |-> InitArgsArray((IF own THEN <<<<>>>> ELSE <<>>) \o tokens, IsSpace(sep[1]))]

FirstArg(args, Fits(_)) == First({i \in 0..(Len(args) - 1) : Fits(NoSwitch(args[i + 1]))}, -1)
FindCommandArg(args, find, regex, ignoreCase) ==
  FirstArg(args, LAMBDA arg : IF regex THEN MatchRegEx(arg, find, -1) > 0
                              ELSE (IF ignoreCase THEN CmpI(arg, find) ELSE Cmp(arg, find)) = 0)
(* The list of what is looked for ends at its first empty text.             *)
FindCommandArgs(args, finds, ignoreCase) ==
  LET some == {k \in DOMAIN finds : \A j \in 1..k : finds[j] # <<>>}
  IN FirstArg(args, LAMBDA arg : \E k \in some : (IF ignoreCase THEN CmpI(arg, finds[k]) ELSE Cmp(arg, finds[k])) = 0)

(* A command has a name, whose case does not matter, and may have a short   *)
(* one, whose case does.                                                    *)
IsMatch(cmd, arg) == (cmd.abbrev # <<>> /\ Cmp(cmd.abbrev, arg) = 0) \/ CmpI(cmd.name, arg) = 0
RegisterCommand(table, cmd) ==
  IF \E k \in DOMAIN table : CmpI(table[k].name, cmd.name) = 0 THEN table ELSE Append(table, cmd)
FindCommand(table, arg) == First({k \in DOMAIN table : IsMatch(table[k], arg)}, 0)
CommandOf(table, arg) == FindCommand(table, NoSwitch(arg))
Joined(texts, sep) ==
  FlattenSeq([i \in DOMAIN texts |-> IF i = 1 THEN texts[i] ELSE sep \o texts[i]])
GetHelpText(cmd) ==
  LET Switch(text) == IF text = <<>> THEN <<>> ELSE <<<<45>> \o text>>
  IN Joined(Switch(cmd.abbrev) \o Switch(cmd.name) \o (IF cmd.takes = <<>> THEN <<>> ELSE <<cmd.takes>>) \o <<cmd.help>>,
            <<Comma, k_Space>>)
get_HelpText(table) ==
  FlattenSeq([k \in DOMAIN table |-> IF table[k].help = <<>> THEN <<>> ELSE Append(GetHelpText(table[k]), NL)])
get_InvalidArgs(args, valid) ==
  LET left == SelectSeq([i \in 1..(Len(args) - 1) |-> i], LAMBDA i : i \notin valid)
  IN Joined([k \in DOMAIN left |-> args[left[k] + 1]], <<Comma>>)

-----------------------------------------------------------------------------
(* env gives the value of each variable of the environment, nothing when it *)
(* is not set.                                                              *)
TmpDir == <<47, 116, 109, 112>>
HomeDir == <<47, 104, 111, 109, 101>>
get_TempDir(env) ==
  LET set == SelectSeq(<<env.TMP, env.TEMP, env.USERPROFILE>>, LAMBDA dir : dir # <<>>)
  IN AddFileDirSep(IF set = <<>> THEN TmpDir ELSE set[1], k_MaxLen, k_DirSep)
GetTempFile(env, title) == CombineFilePath(get_TempDir(env), title, k_DirSep)
GetCurrentUserDir(user, sub) ==
  LET home == CombineFilePath(HomeDir, user, k_DirSep)
  IN IF sub = <<>> THEN home ELSE CombineFilePathA(home, k_MaxLen, sub, k_DirSep)
=============================================================================
