---------------------------- MODULE FsPath_proofs ----------------------------
(***************************************************************************)
(* Proof, for paths of every length and every alphabet, of what the run    *)
(* MC_FsPath checks on paths of up to five characters: for a path with a   *)
(* separator, FileSystem::InferType decides by the extension of the file   *)
(* name (InferTypeWithDirectory).  The argument is about the last          *)
(* separator and the last dot, whose positions are maxima of finite sets   *)
(* of indices; that such a maximum exists comes from the well-foundedness  *)
(* of < on Nat.                                                            *)
(***************************************************************************)
EXTENDS FsPath, TLAPS, WellFoundedInduction, SequenceTheorems

\* The 1-based positions of c in s.
Idx(s, c) == {i \in 1 .. Len(s) : s[i] = c}

\* Every non-empty set of naturals has a least element.
LEMMA LeastNat ==
  ASSUME NEW T \in SUBSET Nat, T # {}
  PROVE  \E m \in T : \A y \in T : m <= y
<1>1. PICK x \in T : \A y \in T : ~(<<y, x>> \in OpToRel(<, Nat))
  BY NatLessThanWellFounded, WFMin
<1>2. ASSUME NEW y \in T PROVE x <= y
  <2>1. y < x => <<y, x>> \in OpToRel(<, Nat)
    BY DEF OpToRel
  <2>2. ~(y < x)
    BY <1>1, <2>1, Zenon
  <2>3. QED
    BY <2>2
<1>3. QED
  BY <1>2

\* Max of a non-empty set of positions is one of them and bounds them all.
LEMMA GreatestPos ==
  ASSUME NEW n \in Nat, NEW T \in SUBSET (1 .. n), T # {}
  PROVE  Max(T) \in T /\ \A y \in T : y <= Max(T)
<1> DEFINE U == {n - i : i \in T}
<1>1. U \in SUBSET Nat /\ U # {}
  <2>1. \A i \in T : n - i \in Nat
    OBVIOUS
  <2>2. PICK i0 \in T : TRUE
    OBVIOUS
  <2>3. n - i0 \in U
    OBVIOUS
  <2>4. QED
    BY <2>1, <2>3
<1>2. PICK m \in U : \A y \in U : m <= y
  BY <1>1, LeastNat
<1>3. PICK x \in T : m = n - x
  BY <1>2
<1>4. \A y \in T : x >= y
  <2> SUFFICES ASSUME NEW y \in T PROVE x >= y
    OBVIOUS
  <2>1. n - y \in U
    OBVIOUS
  <2>2. QED
    BY <1>2, <1>3, <2>1
<1>5. \E z \in T : \A y \in T : z >= y
  BY <1>4
<1>6. Max(T) \in T /\ \A y \in T : Max(T) >= y
  BY <1>5 DEF Max
<1>7. QED
  BY <1>6

\* std::wstring::find_last_of in terms of the positions of c.
LEMMA FindLastOfIdx ==
  ASSUME NEW s \in Seq(Chars), NEW c
  PROVE  /\ Idx(s, c) = {} => FindLastOf(s, c) = Npos
         /\ Idx(s, c) # {} => FindLastOf(s, c) = Max(Idx(s, c)) - 1
<1>1. SelectLastInSeq(s, LAMBDA x : x = c) =
        IF Idx(s, c) # {} THEN Max(Idx(s, c)) ELSE 0
  BY DEF SelectLastInSeq, Idx
<1>2. ASSUME Idx(s, c) # {} PROVE Max(Idx(s, c)) \in 1 .. Len(s)
  <2>1. Len(s) \in Nat /\ Idx(s, c) \in SUBSET (1 .. Len(s))
    BY DEF Idx
  <2>2. QED
    BY <1>2, <2>1, GreatestPos
<1>3. QED
  BY <1>1, <1>2 DEF FindLastOf


\* The file name of a path with a separator starts after its last one.
LEMMA FileNameIdx ==
  ASSUME NEW s \in Seq(Chars), Idx(s, Separator) # {}
  PROVE  FileName(s) = SubSeq(s, Max(Idx(s, Separator)) + 1, Len(s))
BY DEF FileName, SelectLastInSeq, Idx

\* The last dot of the file name, in terms of the positions of its dots.
LEMMA LastDotOfName ==
  ASSUME NEW n \in Seq(Chars)
  PROVE  SelectLastInSeq(n, LAMBDA x : x = ".") =
           IF Idx(n, ".") # {} THEN Max(Idx(n, ".")) ELSE 0
BY DEF SelectLastInSeq, Idx

\* InferType and its reference agree on every path with a separator.
LEMMA InferTypeAgrees ==
  ASSUME NEW s \in Seq(Chars), Len(s) <= MaxPathLen,
         Idx(s, Separator) # {}
  PROVE  InferType(s) = InferTypeRef(s)
<1> DEFINE L == Len(s)
           k == Max(Idx(s, Separator))
           name == SubSeq(s, k + 1, L)
           DN == Idx(name, ".")
<1>1. L \in Nat /\ Idx(s, Separator) \in SUBSET (1 .. L)
       /\ Idx(s, ".") \in SUBSET (1 .. L)
  BY DEF Idx
<1>2. k \in Idx(s, Separator) /\ \A y \in Idx(s, Separator) : y <= k
  BY <1>1, GreatestPos
<1>3. k \in 1 .. L /\ s[k] = Separator
  BY <1>1, <1>2 DEF Idx
<1>4. FindLastOf(s, Separator) = k - 1
  BY FindLastOfIdx
<1>5. /\ name \in Seq(Chars)
      /\ Len(name) = L - k
      /\ \A i \in 1 .. L - k : name[i] = s[k + i]
  BY <1>3
<1>6. /\ DN = {} => InferTypeRef(s) = "STFS_TITLE"
      /\ DN # {} /\ Max(DN) # 0 =>
           InferTypeRef(s) = IF SubSeq(name, Max(DN), Len(name)) = XexExt
                             THEN "XEX_FILE" ELSE "DISC_IMAGE"
  <2>1. FileName(s) = name
    BY FileNameIdx
  <2>2. SelectLastInSeq(name, LAMBDA x : x = ".") = IF DN # {} THEN Max(DN) ELSE 0
    BY <1>5, LastDotOfName
  <2>3. QED
    BY <2>1, <2>2, Zenon DEF InferTypeRef
<1>7. Npos > L /\ Npos \in Nat
  BY FsPathAssumption
<1>8. CASE \A j \in Idx(s, ".") : j < k
  <2>1. DN = {}
    <3>1. ASSUME NEW i \in 1 .. L - k, name[i] = "." PROVE FALSE
      <4>1. k + i \in 1 .. L /\ s[k + i] = "."
        BY <1>3, <1>5, <3>1
      <4>2. k + i \in Idx(s, ".")
        BY <4>1 DEF Idx
      <4>3. QED
        BY <1>3, <1>8, <4>2
    <3>2. QED
      BY <1>5, <3>1 DEF Idx
  <2>2. InferTypeRef(s) = "STFS_TITLE"
    BY <1>6, <2>1
  <2>3. CASE Idx(s, ".") = {}
    <3>1. FindLastOf(s, ".") = Npos
      BY <2>3, FindLastOfIdx
    <3>2. ~(Npos < k - 1)
      BY <1>3, <1>7
    <3>3. QED
      BY <1>4, <2>2, <3>1, <3>2 DEF InferType
  <2>4. CASE Idx(s, ".") # {}
    <3>1. Max(Idx(s, ".")) \in Idx(s, ".")
      BY <1>1, <2>4, GreatestPos
    <3>2. FindLastOf(s, ".") = Max(Idx(s, ".")) - 1
      BY <2>4, FindLastOfIdx
    <3>3. Max(Idx(s, ".")) < k /\ Max(Idx(s, ".")) \in Nat
      BY <1>1, <1>8, <3>1
    <3>4. FindLastOf(s, ".") < k - 1
      BY <1>3, <3>2, <3>3
    <3>5. QED
      BY <1>4, <2>2, <3>4 DEF InferType
  <2>5. QED
    BY <2>3, <2>4
<1>9. CASE \E j \in Idx(s, ".") : j >= k
  <2> DEFINE jm == Max(Idx(s, "."))
  <2>1. jm \in Idx(s, ".") /\ \A y \in Idx(s, ".") : y <= jm
    BY <1>1, <1>9, GreatestPos
  <2>0. jm \in 1 .. L
    BY <1>1, <2>1
  <2>2. jm \in 1 .. L /\ s[jm] = "." /\ jm > k
    <3>1. PICK j \in Idx(s, ".") : j >= k
      BY <1>9
    <3>2. j <= jm /\ j \in 1 .. L
      BY <1>1, <2>1, <3>1
    <3>6. jm >= k
      BY <1>3, <2>0, <3>1, <3>2
    <3>3. jm # k
      BY <1>3, <2>1, FsPathAssumption DEF Idx
    <3>4. jm \in 1 .. L /\ s[jm] = "."
      BY <2>1 DEF Idx
    <3>5. QED
      BY <1>3, <3>6, <3>3, <3>4
  <2>3. FindLastOf(s, ".") = jm - 1
    BY <1>9, FindLastOfIdx
  <2>4. InferType(s) = IF SubSeq(s, jm, L) = XexExt THEN "XEX_FILE"
                                                  ELSE "DISC_IMAGE"
    <3>1. ~(jm - 1 < k - 1) /\ jm - 1 # Npos
      BY <1>3, <1>7, <2>2
    <3>2. Substr(s, jm - 1) = SubSeq(s, jm, L)
      BY <2>2 DEF Substr
    <3>3. QED
      BY <1>4, <2>3, <3>1, <3>2 DEF InferType
  <2>5. DN # {} /\ Max(DN) = jm - k
    <3>1. jm - k \in 1 .. L - k /\ name[jm - k] = "."
      BY <1>3, <1>5, <2>2
    <3>2. jm - k \in DN
      BY <1>5, <3>1 DEF Idx
    <3>3. ASSUME NEW i \in DN PROVE i <= jm - k
      <4>1. i \in 1 .. L - k /\ name[i] = "."
        BY <1>5, <3>3 DEF Idx
      <4>2. k + i \in 1 .. L /\ s[k + i] = "."
        <5>1. i \in 1 .. L - k /\ k \in 1 .. L
          BY <1>3, <4>1
        <5>2. k + i \in 1 .. L
          BY <5>1
        <5>3. s[k + i] = name[i]
          BY <1>5, <5>1
        <5>4. QED
          BY <4>1, <5>2, <5>3
      <4>3. k + i \in Idx(s, ".")
        BY <4>2 DEF Idx
      <4>4. k + i <= jm
        BY <2>1, <4>3
      <4>5. QED
        BY <1>3, <2>0, <4>1, <4>4
    <3>4. Len(name) \in Nat /\ DN \in SUBSET (1 .. Len(name))
      BY <1>5 DEF Idx
    <3>5. Max(DN) \in DN /\ \A y \in DN : y <= Max(DN)
      BY <3>2, <3>4, GreatestPos
    <3>6. Max(DN) \in Int
      BY <3>4, <3>5
    <3>7. QED
      BY <1>3, <2>2, <3>2, <3>3, <3>5, <3>6
  <2>6. SubSeq(name, jm - k, Len(name)) = SubSeq(s, jm, L)
    <3> HIDE DEF name
    <3> DEFINE A == SubSeq(name, jm - k, L - k)
               B == SubSeq(s, jm, L)
    <3>1. jm - k \in Int /\ L - k \in Int /\ jm \in Int
      BY <1>3, <2>2
    <3>2. /\ A \in Seq(Chars) /\ Len(A) = L - jm + 1
          /\ \A i \in 1 .. L - jm + 1 : A[i] = name[jm - k + i - 1]
      <4>1. \A i \in (jm - k) .. (L - k) : name[i] \in Chars
        <5>1. \A i \in 1 .. Len(name) : name[i] \in Chars
          BY <1>5, ElementOfSeq
        <5>2. QED
          BY <1>3, <1>5, <2>0, <2>2, <5>1
      <4>2. /\ A \in Seq(Chars)
            /\ Len(A) = IF jm - k <= L - k THEN (L - k) - (jm - k) + 1 ELSE 0
            /\ \A i \in 1 .. (L - k) - (jm - k) + 1 : A[i] = name[(jm - k) + i - 1]
        BY <3>1, <4>1, SubSeqProperties
      <4>3. (L - k) - (jm - k) + 1 = L - jm + 1 /\ jm - k <= L - k
        BY <1>3, <2>2
      <4>4. QED
        BY <4>2, <4>3, Zenon
    <3>3. /\ B \in Seq(Chars) /\ Len(B) = L - jm + 1
          /\ \A i \in 1 .. L - jm + 1 : B[i] = s[jm + i - 1]
      <4>1. \A i \in jm .. L : s[i] \in Chars
        BY <2>2
      <4>2. /\ B \in Seq(Chars)
            /\ Len(B) = IF jm <= L THEN L - jm + 1 ELSE 0
            /\ \A i \in 1 .. L - jm + 1 : B[i] = s[jm + i - 1]
        BY <3>1, <4>1, SubSeqProperties
      <4>3. QED
        BY <2>0, <4>2
    <3>4. ASSUME NEW i \in 1 .. L - jm + 1 PROVE A[i] = B[i]
      <4>1. jm - k + i - 1 \in 1 .. L - k
        BY <1>3, <2>2
      <4>2. name[jm - k + i - 1] = s[k + (jm - k + i - 1)]
        BY <1>5, <4>1
      <4>3. k + (jm - k + i - 1) = jm + i - 1
        BY <1>3, <2>2
      <4>4. QED
        BY <3>2, <3>3, <4>2, <4>3
    <3>5. A = B
      BY <3>2, <3>3, <3>4, SeqEqual
    <3>6. QED
      BY <1>5, <3>5
  <2>7. Max(DN) # 0
    BY <1>3, <2>2, <2>5
  <2>8. InferTypeRef(s) = IF SubSeq(s, jm, L) = XexExt THEN "XEX_FILE"
                                                     ELSE "DISC_IMAGE"
    BY <1>6, <2>5, <2>6, <2>7
  <2>9. QED
    BY <2>4, <2>8
<1>10. QED
  <2>1. (\A j \in Idx(s, ".") : j < k) \/ (\E j \in Idx(s, ".") : j >= k)
    BY <1>1, <1>3
  <2>2. QED
    BY <1>8, <1>9, <2>1

\* The paths a caller passes are sequences of at most MaxPathLen characters.
LEMMA PathsBounded ==
  ASSUME NEW p \in Paths
  PROVE  p \in Seq(Chars) /\ Len(p) <= MaxPathLen
<1>1. PICK m \in 0 .. MaxPathLen : p \in [1 .. m -> Chars]
  BY DEF Paths, SeqOf
<1>2. QED
  BY <1>1, FsPathAssumption

\* The path a caller passes is one of the paths examined.
PathOK == path \in Paths

\* For every alphabet, separator and bound on the length, whatever path a
\* caller passes with a directory part, InferType decides by the extension
\* of the file name: a dot in a directory name is ignored.
THEOREM InferTypeWithDirectoryHolds == Spec => []InferTypeWithDirectory
<1>1. Init => PathOK
  BY DEF Init, PathOK
<1>2. PathOK /\ [Next]_path => PathOK'
  BY DEF Next, PathOK
<1>3. PathOK => InferTypeWithDirectory
  <2> SUFFICES ASSUME path \in Paths, Separator \in Range(path)
               PROVE  InferType(path) = InferTypeRef(path)
    BY DEF InferTypeWithDirectory, PathOK
  <2>1. path \in Seq(Chars) /\ Len(path) <= MaxPathLen
    BY PathsBounded
  <2>2. Idx(path, Separator) # {}
    BY <2>1 DEF Range, Idx
  <2>3. QED
    BY <2>1, <2>2, InferTypeAgrees
<1>4. Spec => []PathOK
  BY <1>1, <1>2, PTL DEF Spec
<1>5. QED
  BY <1>3, <1>4, PTL

=============================================================================
