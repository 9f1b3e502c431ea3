------------------------------- MODULE FsPath -------------------------------
(***************************************************************************)
(* FileSystem::InferType (src/xenia/kernel/fs/filesystem.cc, lines 35-51): *)
(* the kind of container a host path names, from its last separator and    *)
(* its last dot.  A path is a sequence of characters over a small          *)
(* alphabet; positions are 0-based as in std::wstring, and find_last_of    *)
(* answers std::wstring::npos when the character does not occur.           *)
(***************************************************************************)
EXTENDS Naturals, Sequences, SequencesExt

CONSTANTS
  Chars,      \* the characters paths are made of
  Separator,  \* poly::path_separator
  Npos,       \* std::wstring::npos: the largest size_t
  MaxPathLen  \* bound on the length of the paths examined

\* poly::path_separator is '\\' or '/', never the dot of an extension.
ASSUME FsPathAssumption ==
  /\ Separator \in Chars
  /\ Separator # "."
  /\ "." \in Chars
  /\ MaxPathLen \in Nat
  /\ Npos \in Nat /\ Npos > MaxPathLen

\* The extension InferType compares with, L".xex".
XexExt == <<".", "x", "e", "x">>

\* The paths a caller may pass.
Paths == SeqOf(Chars, MaxPathLen)

\* std::wstring::find_last_of(c): the 0-based position of the last c.
FindLastOf(s, c) ==
  LET i == SelectLastInSeq(s, LAMBDA x : x = c)
  IN IF i = 0 THEN Npos ELSE i - 1

\* std::wstring::find_first_of(c): the 0-based position of the first c.
FindFirstOf(s, c) ==
  LET i == SelectInSeq(s, LAMBDA x : x = c)
  IN IF i = 0 THEN Npos ELSE i - 1

\* std::wstring::substr(pos): the characters from 0-based position pos on.
Substr(s, pos) == SubSeq(s, pos + 1, Len(s))

\* InferType with the separator looked up from the front of the path.
InferTypeFirstSlash(s) ==
  LET last_slash == FindFirstOf(s, Separator)
      dot0 == FindLastOf(s, ".")
      last_dot == IF dot0 < last_slash THEN Npos ELSE dot0
  IN  IF last_dot = Npos THEN "STFS_TITLE"
      ELSE IF Substr(s, last_dot) = XexExt THEN "XEX_FILE"
      ELSE "DISC_IMAGE"

\* FileSystem::InferType: a dot before the last separator does not count;
\* no dot means an STFS container, ".xex" a naked executable, anything else
\* a disc image.
InferType(s) ==
  LET last_slash == FindLastOf(s, Separator)
      dot0 == FindLastOf(s, ".")
      last_dot == IF dot0 < last_slash THEN Npos ELSE dot0
  IN  IF last_dot = Npos THEN "STFS_TITLE"
      ELSE IF Substr(s, last_dot) = XexExt THEN "XEX_FILE"
      ELSE "DISC_IMAGE"

-----------------------------------------------------------------------------
(* The reference: what the comments of InferType say it decides.          *)

\* The last component of the path: what follows the last separator.
FileName(s) ==
  SubSeq(s, SelectLastInSeq(s, LAMBDA x : x = Separator) + 1, Len(s))

\* The kind a path names by the extension of its file name.
InferTypeRef(s) ==
  LET name == FileName(s)
      d == SelectLastInSeq(name, LAMBDA x : x = ".")
  IN  IF d = 0 THEN "STFS_TITLE"
      ELSE IF SubSeq(name, d, Len(name)) = XexExt THEN "XEX_FILE"
      ELSE "DISC_IMAGE"

-----------------------------------------------------------------------------
(* Every path is examined, one after the other.                           *)

VARIABLE path

Init == path \in Paths

\* A caller asks InferType about a path.
Next == path' \in Paths

Spec == Init /\ [][Next]_path

-----------------------------------------------------------------------------

\* For a path with a directory part, InferType decides by the extension of
\* the file name: a dot in a directory name is ignored, ".xex" is a naked
\* executable, no extension an STFS container.
InferTypeWithDirectory ==
  Separator \in Range(path) => InferType(path) = InferTypeRef(path)

\* The comments of InferType: a bare file name is inferred from its
\* extension like any other path ("game.xex" is a naked executable).  With
\* no separator last_slash is npos, so last_dot < last_slash always holds
\* and every bare name is taken for an STFS container.
InferTypeCorrect == InferType(path) = InferTypeRef(path)

=============================================================================
