--------------------------- MODULE EnsembleProofs ---------------------------
(***************************************************************************)
(* Proofs about the ensemble runner: EnsembleInv is inductive, and what it *)
(* says of the project and of the worktrees, for any number of calls,      *)
(* candidates, nodes and files.                                            *)
(***************************************************************************)
EXTENDS Ensemble, FiniteSetTheorems, TLAPS

At(e, f) == worktree[e][1][f]

Place == Node \X Cand

(* The part of the state that most steps leave alone.                      *)
USE DEF mergeVars

-----------------------------------------------------------------------------
(* Constants, directories and worktrees.                                   *)

(* Calls and candidates are numbered from one.                             *)
LEMMA Numbers ==
  /\ \A c \in Call : c \in Nat /\ c # 0
  /\ \A i \in Cand : i \in Nat /\ i # 0
  /\ 1 \in Cand
  /\ \A c \in Call, i \in Cand : <<c, i>> \in Slot /\ <<c, i>> \in Content
  /\ \A s \in Slot : s = <<s[1], s[2]>> /\ s[1] \in Call /\ s[2] \in Cand
  /\ \A x \in Content : x = Original \/ x \in Slot
PROOF BY EnsembleAssumption DEF Call, Cand, Slot, Content, Original

(* What a member of Directory is.                                          *)
LEMMA DirectoryType ==
  /\ Empty \in Directory /\ DOMAIN Empty = {}
  /\ \A d \in Directory : DOMAIN d \in SUBSET File /\ \A f \in DOMAIN d : d[f] \in Content
  /\ \A S \in SUBSET File : \A d \in [S -> Content] : d \in Directory
<1>1. \A S \in SUBSET File : \A d \in [S -> Content] : d \in Directory
  BY DEF Directory
<1>2. Empty \in [{} -> Content] /\ DOMAIN Empty = {}
  BY DEF Empty
<1>3. \A d \in Directory : DOMAIN d \in SUBSET File /\ \A f \in DOMAIN d : d[f] \in Content
  BY DEF Directory
<1> QED BY <1>1, <1>2, <1>3

(* Overlay gives the files their new content and leaves the others alone.  *)
LEMMA OverlayType ==
  ASSUME NEW d \in Directory, NEW S \in SUBSET File, NEW x \in Content
  PROVE  /\ Overlay(d, S, x) \in Directory
         /\ DOMAIN Overlay(d, S, x) = DOMAIN d \cup S
         /\ \A f \in S : Overlay(d, S, x)[f] = x
         /\ \A f \in DOMAIN d \ S : Overlay(d, S, x)[f] = d[f]
<1> DEFINE T == DOMAIN d \cup S
<1>1. T \in SUBSET File /\ \A f \in DOMAIN d : d[f] \in Content
  BY DirectoryType
<1>2. Overlay(d, S, x) = [f \in T |-> IF f \in S THEN x ELSE d[f]]
  BY DEF Overlay
<1>3. Overlay(d, S, x) \in [T -> Content]
  BY <1>1, <1>2
<1> HIDE DEF T
<1>4. Overlay(d, S, x) \in Directory
  BY <1>1, <1>3, DirectoryType
<1> QED BY <1>2, <1>4 DEF T

(* Only keeps some files as they are.                                      *)
LEMMA OnlyType ==
  ASSUME NEW d \in Directory, NEW S
  PROVE  /\ Only(d, S) \in Directory
         /\ DOMAIN Only(d, S) = DOMAIN d \cap S
         /\ \A f \in DOMAIN d \cap S : Only(d, S)[f] = d[f]
<1> DEFINE T == DOMAIN d \cap S
<1>1. T \in SUBSET File /\ \A f \in DOMAIN d : d[f] \in Content
  BY DirectoryType
<1>2. Only(d, S) = [f \in T |-> d[f]]
  BY DEF Only
<1>3. Only(d, S) \in [T -> Content]
  BY <1>1, <1>2
<1> HIDE DEF T
<1>4. Only(d, S) \in Directory
  BY <1>1, <1>3, DirectoryType
<1> QED BY <1>2, <1>4 DEF T

(* A worktree that is there is a directory.                                *)
LEMMA WorktreeType ==
  /\ Removed \in Worktree /\ \A d \in Directory : <<d>> \in Worktree /\ <<d>> # Removed
  /\ \A w \in Worktree : w # Removed => w[1] \in Directory /\ w = <<w[1]>>
PROOF BY DEF Worktree, Removed

(* The directory of a candidate, and whose it is.                          *)
LEMMA DirType ==
  ASSUME TypeOK
  PROVE  /\ \A c \in Call, i \in Cand : Dir(<<c, i>>) = <<nodeOf[c], i>> /\ Dir(<<c, i>>) \in Place
         /\ \A s \in Slot : Dir(s) \in Place
         /\ \A s, t \in Slot : Dir(s) = Dir(t) <=> nodeOf[s[1]] = nodeOf[t[1]] /\ s[2] = t[2]
PROOF BY DEF TypeOK, Dir, Place, Slot

(* What is in a worktree.                                                  *)
LEMMA FilesType ==
  ASSUME TypeOK, NEW e \in Place
  PROVE  /\ Files(e) \in SUBSET File
         /\ Files(e) # {} => Exists(e)
         /\ \A f \in Files(e) : At(e, f) \in Content
<1>1. worktree[e] \in Worktree
  BY DEF TypeOK, Place
<1>2. CASE Exists(e)
  <2>1. worktree[e][1] \in Directory
    BY <1>1, <1>2, WorktreeType DEF Exists
  <2> QED BY <1>2, <2>1, DirectoryType DEF Files, At
<1>3. CASE ~Exists(e)
  BY <1>3 DEF Files
<1> QED BY <1>2, <1>3

(* A worktree that no step touched.                                        *)
LEMMA SameWorktree ==
  ASSUME NEW e, worktree'[e] = worktree[e]
  PROVE  /\ Exists(e)' <=> Exists(e)
         /\ Files(e)' = Files(e)
         /\ \A f : At(e, f)' = At(e, f)
PROOF BY DEF Exists, Files, At

(* EnsureDir creates an empty directory or does nothing.                   *)
LEMMA EnsureEffect ==
  ASSUME TypeOK, NEW d \in Place, EnsureDir(d)
  PROVE  /\ worktree' \in [Place -> Worktree]
         /\ \A e \in Place : Exists(e)' => Exists(e) \/ e = d
         /\ \A e \in Place : Files(e)' = Files(e)
         /\ \A e \in Place : \A f \in Files(e) : At(e, f)' = At(e, f)
<1>1. worktree \in [Place -> Worktree]
  BY DEF TypeOK, Place
<1>2. /\ worktree' \in [Place -> Worktree]
      /\ worktree'[d] = IF worktree[d] = Removed THEN <<Empty>> ELSE worktree[d]
      /\ \A e \in Place : e # d => worktree'[e] = worktree[e]
  BY <1>1, WorktreeType, DirectoryType DEF EnsureDir
<1>3. ASSUME NEW e \in Place
      PROVE  /\ Exists(e)' => Exists(e) \/ e = d
             /\ Files(e)' = Files(e)
             /\ \A f \in Files(e) : At(e, f)' = At(e, f)
  <2>1. CASE worktree'[e] = worktree[e]
    BY <2>1, SameWorktree
  <2>2. CASE worktree'[e] # worktree[e]
    <3>1. e = d /\ worktree[e] = Removed /\ worktree'[e] = <<Empty>>
      BY <1>2, <2>2
    <3> QED BY <3>1, DirectoryType DEF Exists, Files, At, Removed
  <2> QED BY <2>1, <2>2
<1> QED BY <1>2, <1>3

(* Put writes the files into one worktree.                                 *)
LEMMA PutEffect ==
  ASSUME TypeOK, NEW d \in Place, NEW S \in SUBSET File, NEW x \in Content, Put(d, S, x)
  PROVE  /\ worktree' \in [Place -> Worktree]
         /\ \A e \in Place : Exists(e)' => Exists(e) \/ e = d
         /\ \A e \in Place : e # d => worktree'[e] = worktree[e]
         /\ Files(d)' = Files(d) \cup S
         /\ \A f : f \in S => At(d, f)' = x
         /\ \A f : f \in Files(d) /\ f \notin S => At(d, f)' = At(d, f)
<1> DEFINE o == IF worktree[d] = Removed THEN Empty ELSE worktree[d][1]
<1>1. worktree \in [Place -> Worktree]
  BY DEF TypeOK, Place
<1>2. o \in Directory
  BY <1>1, WorktreeType, DirectoryType
<1>3. DOMAIN o = Files(d) /\ \A f \in Files(d) : o[f] = At(d, f)
  BY DirectoryType DEF Files, At, Exists
<1>4. /\ worktree'[d] = <<Overlay(o, S, x)>>
      /\ \A e \in Place : e # d => worktree'[e] = worktree[e]
      /\ worktree' = [worktree EXCEPT ![d] = <<Overlay(o, S, x)>>]
  BY <1>1 DEF Put
<1> HIDE DEF o
<1>5. worktree' \in [Place -> Worktree]
  BY <1>1, <1>2, <1>4, OverlayType, WorktreeType
<1>6. /\ Files(d)' = DOMAIN Overlay(o, S, x)
      /\ \A f : At(d, f)' = Overlay(o, S, x)[f]
  BY <1>4 DEF Files, At, Exists, Removed
<1>7. \A e \in Place : Exists(e)' => Exists(e) \/ e = d
  BY <1>4, SameWorktree
<1>8. /\ DOMAIN Overlay(o, S, x) = Files(d) \cup S
      /\ \A f \in S : Overlay(o, S, x)[f] = x
      /\ \A f \in Files(d) \ S : Overlay(o, S, x)[f] = At(d, f)
  <2>1. /\ DOMAIN Overlay(o, S, x) = DOMAIN o \cup S
        /\ \A f \in S : Overlay(o, S, x)[f] = x
        /\ \A f \in DOMAIN o \ S : Overlay(o, S, x)[f] = o[f]
    BY <1>2, OverlayType
  <2> QED BY <1>3, <2>1
<1> QED BY <1>4, <1>5, <1>6, <1>7, <1>8

(* Copying a file puts its content in the project into the worktree.       *)
LEMMA CopyFileEffect ==
  ASSUME TypeOK, NEW c \in Call, NEW i \in Cand, NEW f \in File, CopyFile(c, i, f),
         NEW d \in Place, d = Dir(<<c, i>>)
  PROVE  /\ f \in DOMAIN root /\ root[f] \in Content
         /\ worktree' \in [Place -> Worktree]
         /\ \A e \in Place : Exists(e)' => Exists(e) \/ e = d
         /\ \A e \in Place : e # d => worktree'[e] = worktree[e]
         /\ Files(d)' = Files(d) \cup {f}
         /\ At(d, f)' = root[f]
         /\ \A g \in Files(d) \ {f} : At(d, g)' = At(d, g)
<1>1. f \in DOMAIN root /\ root[f] \in Content
  BY DirectoryType DEF CopyFile, TypeOK
<1>2. Put(d, {f}, root[f]) /\ {f} \in SUBSET File
  BY DEF CopyFile
<1>3. PICK x \in Content, S \in SUBSET File : x = root[f] /\ S = {f}
  BY <1>1
<1>4. Put(d, S, x)
  BY <1>2, <1>3
<1>5. /\ worktree' \in [Place -> Worktree]
      /\ \A e \in Place : Exists(e)' => Exists(e) \/ e = d
      /\ \A e \in Place : e # d => worktree'[e] = worktree[e]
      /\ Files(d)' = Files(d) \cup S
      /\ \A g \in S : At(d, g)' = x
      /\ \A g \in Files(d) \ S : At(d, g)' = At(d, g)
  BY <1>4, PutEffect
<1> QED BY <1>1, <1>3, <1>5

(* A worktree with no more than it had, or none.                           *)
Shrinks(e) ==
  /\ Exists(e)' => Exists(e)
  /\ Files(e)' \subseteq Files(e)
  /\ \A f \in Files(e)' : At(e, f)' = At(e, f)

LEMMA SameShrinks ==
  ASSUME NEW e, worktree'[e] = worktree[e]
  PROVE  Shrinks(e)
PROOF BY SameWorktree DEF Shrinks

(* What a failed copy leaves.                                              *)
LEMMA LosesEffect ==
  ASSUME TypeOK, NEW d \in Place, NEW f \in File, Loses(d, f)
  PROVE  /\ worktree' \in [Place -> Worktree]
         /\ \A e \in Place : Shrinks(e)
         /\ \A e \in Place : e # d => worktree'[e] = worktree[e]
         /\ \A g \in Files(d) : g # f => g \in Files(d)' /\ At(d, g)' = At(d, g)
<1> DEFINE o == worktree[d][1]
           n == Only(o, File \ {f})
<1>1. worktree \in [Place -> Worktree] /\ Exists(d)
  BY DEF TypeOK, Place, Loses
<1>2. o \in Directory /\ DOMAIN o \in SUBSET File
  BY <1>1, WorktreeType, DirectoryType DEF Exists
<1>3. DOMAIN o = Files(d) /\ \A g : At(d, g) = o[g]
  BY <1>1 DEF Files, At
<1>4. /\ worktree' = [worktree EXCEPT ![d] = <<n>>]
      /\ worktree'[d] = <<n>>
      /\ \A e \in Place : e # d => worktree'[e] = worktree[e]
  BY <1>1 DEF Loses
<1> HIDE DEF o
<1>5. /\ n \in Directory /\ DOMAIN n = DOMAIN o \cap (File \ {f})
      /\ \A g \in DOMAIN o \cap (File \ {f}) : n[g] = o[g]
  BY <1>2, OnlyType
<1> HIDE DEF n
<1>6. worktree' \in [Place -> Worktree]
  BY <1>1, <1>4, <1>5, WorktreeType
<1>7. Files(d)' = DOMAIN n /\ (\A g : At(d, g)' = n[g])
  BY <1>4 DEF Files, At, Exists, Removed
<1>8. Shrinks(d)
  BY <1>1, <1>3, <1>5, <1>7 DEF Shrinks
<1>9. \A g \in Files(d) : g # f => g \in Files(d)' /\ At(d, g)' = At(d, g)
  BY <1>2, <1>3, <1>5, <1>7
<1> QED BY <1>4, <1>6, <1>8, <1>9, SameShrinks

(* An agent writes its name into files of its worktree.                    *)
LEMMA EndEffect ==
  ASSUME TypeOK, NEW c \in Call, NEW i \in Cand, NEW S \in SUBSET File, NEW r,
         EndCandidate(c, i, S, r), NEW d \in Place, d = Dir(<<c, i>>)
  PROVE  /\ worktree' \in [Place -> Worktree]
         /\ \A e \in Place : Exists(e)' => Exists(e) \/ e = d
         /\ \A e \in Place : e # d => worktree'[e] = worktree[e]
         /\ Files(d)' = Files(d) \cup S
         /\ \A f : f \in S => At(d, f)' = <<c, i>>
         /\ \A f : f \in Files(d) /\ f \notin S => At(d, f)' = At(d, f)
<1>1. <<c, i>> \in Content
  BY Numbers
<1>2. CASE S = {}
  <2>1. worktree' = worktree
    BY <1>2 DEF EndCandidate
  <2> QED BY <1>1, <1>2, <2>1, SameWorktree DEF TypeOK, Place
<1>3. CASE S # {}
  <2>1. PICK x \in Content : x = <<c, i>>
    BY <1>1
  <2>2. Put(d, S, x)
    BY <1>3, <2>1 DEF EndCandidate
  <2>3. /\ worktree' \in [Place -> Worktree]
        /\ \A e \in Place : Exists(e)' => Exists(e) \/ e = d
        /\ \A e \in Place : e # d => worktree'[e] = worktree[e]
        /\ Files(d)' = Files(d) \cup S
        /\ \A f : f \in S => At(d, f)' = x
        /\ \A f : f \in Files(d) /\ f \notin S => At(d, f)' = At(d, f)
    BY <2>2, PutEffect
  <2> QED BY <2>1, <2>3
<1> QED BY <1>2, <1>3

(* What cleaning up a worktree leaves of it.                               *)
LEMMA RemainsType ==
  ASSUME TypeOK, NEW d \in Place, NEW w \in Remains(d)
  PROVE  /\ w \in Worktree
         /\ worktree'[d] = w => Shrinks(d)
<1>1. worktree[d] \in Worktree
  BY DEF TypeOK, Place
<1>2. CASE w = Removed
  BY <1>2, WorktreeType DEF Shrinks, Exists, Files
<1>3. CASE w # Removed
  <2>1. PICK S : Exists(d) /\ w = <<Only(worktree[d][1], S)>>
    BY <1>3 DEF Remains
  <2>2. PICK o \in Directory : o = worktree[d][1]
    BY <1>1, <2>1, WorktreeType DEF Exists
  <2>3. PICK n \in Directory : n = Only(o, S)
    BY <2>2, OnlyType
  <2>4. DOMAIN n \subseteq DOMAIN o /\ \A f \in DOMAIN n : n[f] = o[f]
    <3>1. /\ DOMAIN Only(o, S) = DOMAIN o \cap S
          /\ \A f \in DOMAIN o \cap S : Only(o, S)[f] = o[f]
      BY OnlyType
    <3> QED BY <2>3, <3>1
  <2>5. w = <<n>> /\ w \in Worktree
    BY <2>1, <2>2, <2>3, WorktreeType
  <2>6. ASSUME worktree'[d] = w PROVE Shrinks(d)
    <3>1. Files(d)' = DOMAIN n /\ \A f : At(d, f)' = n[f]
      BY <2>5, <2>6 DEF Files, At, Exists, Removed
    <3>2. Files(d) = DOMAIN o /\ \A f : At(d, f) = o[f]
      BY <2>1, <2>2 DEF Files, At
    <3> QED BY <2>1, <2>4, <3>1, <3>2 DEF Shrinks
  <2> QED BY <2>5, <2>6
<1> QED BY <1>2, <1>3

LEMMA ThrowsEffect ==
  ASSUME TypeOK, NEW c \in Call, NEW i \in Cand, CandidateThrows(c, i),
         NEW d \in Place, d = Dir(<<c, i>>)
  PROVE  /\ worktree' \in [Place -> Worktree]
         /\ \A e \in Place : Shrinks(e)
         /\ \A e \in Place : e # d => worktree'[e] = worktree[e]
<1>1. worktree \in [Place -> Worktree]
  BY DEF TypeOK, Place
<1>2. PICK rest \in Remains(d) : worktree' = [worktree EXCEPT ![d] = rest]
  BY DEF CandidateThrows
<1>3. worktree'[d] = rest /\ \A e \in Place : e # d => worktree'[e] = worktree[e]
  BY <1>1, <1>2
<1>4. rest \in Worktree /\ Shrinks(d)
  BY <1>2, <1>3, RemainsType
<1> QED BY <1>1, <1>2, <1>3, <1>4, SameShrinks

LEMMA ReturnEffect ==
  ASSUME TypeOK, NEW c \in Call, Return(c)
  PROVE  /\ worktree' \in [Place -> Worktree]
         /\ \A e \in Place : Shrinks(e)
         /\ \A e \in Place : e[1] = nodeOf[c] /\ Exists(e)' =>
              <<c, e[2]>> \in undeleted' /\ e = Dir(<<c, e[2]>>)
         /\ \A e \in Place : e[1] # nodeOf[c] => worktree'[e] = worktree[e]
         /\ undeleted \subseteq undeleted' /\ undeleted' \in SUBSET Slot
         /\ faults' \in 0 .. MaxFaults
<1> DEFINE R == {Dir(<<c, i>>) : i \in Cand}
<1>1. PICK rest \in [R -> UNION {Remains(d) : d \in R}] :
        /\ \A d \in R : rest[d] \in Remains(d)
        /\ Faults(Cardinality({d \in R : rest[d] # Removed}))
        /\ worktree' = [d \in Place |-> IF d \in R THEN rest[d] ELSE worktree[d]]
        /\ undeleted' = undeleted \cup
             {s \in Slot : s[1] = c /\ Dir(s) \in R /\ rest[Dir(s)] # Removed}
  BY DEF Return, Finish, Place
<1>2. ASSUME NEW e \in Place
      PROVE  /\ e \in R <=> e[1] = nodeOf[c]
             /\ e \in R => e = Dir(<<c, e[2]>>) /\ e[2] \in Cand
  <2>1. \A i \in Cand : Dir(<<c, i>>) = <<nodeOf[c], i>>
    BY DirType
  <2>2. e = <<e[1], e[2]>> /\ e[2] \in Cand
    BY DEF Place
  <2>3. ASSUME e \in R PROVE e[1] = nodeOf[c]
    <3>1. PICK i \in Cand : e = Dir(<<c, i>>)
      BY <2>3
    <3> QED BY <2>1, <3>1
  <2>4. e[1] = nodeOf[c] => e = Dir(<<c, e[2]>>)
    BY <2>1, <2>2
  <2> QED BY <2>2, <2>3, <2>4
<1>3. IsFiniteSet(R)
  <2>1. IsFiniteSet(Cand)
    BY FS_Interval, EnsembleAssumption DEF Cand
  <2> DEFINE F == [i \in Cand |-> Dir(<<c, i>>)]
  <2>2. F \in [Cand -> R] /\ \A d \in R : \E i \in Cand : F[i] = d
    OBVIOUS
  <2> HIDE DEF F, R
  <2>3. F \in Surjection(Cand, R)
    BY <2>2 DEF Surjection
  <2> QED BY <2>1, <2>3, FS_Surjection
<1>4. faults' \in 0 .. MaxFaults
  <2>1. IsFiniteSet({d \in R : rest[d] # Removed})
    BY <1>3, FS_Subset
  <2>2. Cardinality({d \in R : rest[d] # Removed}) \in Nat
    BY <2>1, FS_CardinalityType
  <2> HIDE DEF R
  <2> QED BY <1>1, <2>2, EnsembleAssumption DEF Faults, TypeOK
<1>5. R \subseteq Place
  BY DirType
<1> HIDE DEF R
<1>6. worktree \in [Place -> Worktree]
  BY DEF TypeOK, Place
<1>7. ASSUME NEW e \in Place
      PROVE  /\ worktree'[e] \in Worktree /\ Shrinks(e)
             /\ e[1] = nodeOf[c] /\ Exists(e)' => <<c, e[2]>> \in undeleted' /\ e = Dir(<<c, e[2]>>)
             /\ e[1] # nodeOf[c] => worktree'[e] = worktree[e]
  <2>1. CASE e \in R
    <3>1. rest[e] \in Remains(e) /\ worktree'[e] = rest[e]
      BY <1>1, <2>1
    <3>2. worktree'[e] \in Worktree /\ Shrinks(e)
      BY <3>1, RemainsType
    <3>3. e = Dir(<<c, e[2]>>) /\ <<c, e[2]>> \in Slot
      BY <1>2, <2>1, Numbers
    <3>4. Exists(e)' => <<c, e[2]>> \in undeleted'
      BY <1>1, <2>1, <3>1, <3>3 DEF Exists
    <3> QED BY <1>2, <2>1, <3>2, <3>3, <3>4
  <2>2. CASE e \notin R
    <3>1. worktree'[e] = worktree[e]
      BY <1>1, <2>2
    <3> QED BY <1>2, <1>6, <2>2, <3>1, SameShrinks
  <2> QED BY <2>1, <2>2
<1>8. worktree' \in [Place -> Worktree]
  BY <1>1, <1>7
<1> QED BY <1>1, <1>4, <1>7, <1>8 DEF TypeOK

-----------------------------------------------------------------------------
(* Calls, their candidates and the worktrees they work in.                 *)

(* The initial states satisfy the invariant.                               *)
LEMMA InitEnsemble == Init => EnsembleInv
<1> SUFFICES ASSUME Init PROVE EnsembleInv
  OBVIOUS
<1>1. root \in Directory /\ \A f \in DOMAIN root : root[f] = Original
  <2>1. PICK S \in SUBSET ProjectFile : root = [f \in S |-> Original]
    BY DEF Init
  <2>2. root \in [S -> Content] /\ S \in SUBSET File
    BY <2>1, EnsembleAssumption DEF Content
  <2> QED BY <2>1, <2>2, DirectoryType
<1>2. worktree \in [Node \X Cand -> Worktree] /\ \A e \in Node \X Cand : ~Exists(e) /\ Files(e) = {}
  BY WorktreeType DEF Init, Exists, Files
<1>3. TypeOK
  BY <1>1, <1>2, EnsembleAssumption DEF Init, TypeOK
<1>4. Courses
  BY Numbers DEF Init, Courses, CallCourse, SlotCourse, Call
<1>5. Owned /\ Traced
  BY <1>2 DEF Owned, Traced
<1>6. OnlyWinnersReachRoot
  BY <1>1 DEF OnlyWinnersReachRoot, Earned
<1>7. Overlaps /\ Delivering /\ DeliveredStays /\ Fresh
  BY DEF Init, Overlaps, Delivering, DeliveredStays, Fresh
<1> QED BY <1>3, <1>4, <1>5, <1>6, <1>7 DEF EnsembleInv

(* A candidate at work belongs to a call at work that has no winner yet.   *)
LEMMA Busy ==
  ASSUME TypeOK, Courses, NEW c \in Call, NEW i \in Cand, Working(<<c, i>>)
  PROVE  call[c] \in {"candidates", "rejected"} /\ winner[c] = 0 /\ AtWork(c)
<1>1. phase[<<c, i>>] \in {"copying", "running"}
  BY DEF Working
<1>2. winner[c] = 0
  BY <1>1 DEF Courses, CallCourse, SlotCourse
<1>3. call[c] \in {"candidates", "rejected"}
  BY <1>1, <1>2 DEF Courses, CallCourse, SlotCourse, TypeOK
<1> QED BY <1>1, <1>2, <1>3 DEF AtWork

LEMMA StartIsWork ==
  ASSUME TypeOK, Courses, NEW c \in Call, NEW i \in Cand, StartCandidate(c, i)
  PROVE  call[c] \in {"candidates", "rejected"} /\ winner[c] = 0 /\ AtWork(c)
<1>1. /\ call[c] \in {"candidates", "rejected"} /\ phase[<<c, i>>] = "waiting"
      /\ Cardinality(Occupied(c)) < MaxParallel
  BY DEF StartCandidate
<1>2. winner[c] = 0
  BY <1>1 DEF Courses, CallCourse, SlotCourse
<1> QED BY <1>1, <1>2 DEF AtWork

(* Files still to be copied: the candidate copies them, or its call threw  *)
(* or left copies under way.                                               *)
LEMMA CopyingIsWork ==
  ASSUME TypeOK, Courses, NEW c \in Call, NEW i \in Cand, left[<<c, i>>] # {}
  PROVE  /\ phase[<<c, i>>] # "waiting"
         /\ phase[<<c, i>>] = "copying" \/ c \in torn \/ call[c] = "rejected"
         /\ torn = {} => call[c] \in {"candidates", "rejected"}
<1>1. <<c, i>> \in Slot /\ <<c, i>>[1] = c
  BY Numbers
<1>2. /\ phase[<<c, i>>] # "waiting"
      /\ phase[<<c, i>>] = "copying" \/ c \in torn \/ call[c] = "rejected"
  BY <1>1 DEF Courses, CallCourse, SlotCourse
<1>3. phase[<<c, i>>] = "copying" => call[c] \in {"candidates", "rejected"}
  BY Busy DEF Working
<1> QED BY <1>2, <1>3

(* The candidates a call may choose from.                                  *)
LEMMA BestType == \A c \in Call : Best(c) \subseteq Cand
PROOF BY Numbers DEF Best, Strong

LEMMA TypePreserved ==
  ASSUME TypeOK, Courses, [Next]_vars
  PROVE  TypeOK'
<1>1. CASE UNCHANGED vars
  BY <1>1 DEF vars, TypeOK
<1>2. ASSUME NEW c \in Call, Begin(c) \/ TimeOut(c) PROVE TypeOK'
  <2>1. CASE Begin(c)
    <3>1. overlapped' \in SUBSET Call
      BY <2>1 DEF Begin, TypeOK
    <3> QED BY <2>1, <3>1 DEF Begin, TypeOK
  <2>2. CASE TimeOut(c)
    BY <2>2 DEF TimeOut, TypeOK
  <2> QED BY <1>2, <2>1, <2>2
<1>3. ASSUME NEW c \in Call, Aggregate(c) PROVE TypeOK'
  <2>1. PICK w \in Best(c) :
          /\ winner' = [winner EXCEPT ![c] = w]
          /\ toMerge' = [toMerge EXCEPT ![c] = Files(Dir(<<c, w>>))]
          /\ wrote' = [s \in Slot |-> IF s[1] = c /\ s[2] # w THEN {} ELSE wrote[s]]
    BY <1>3 DEF Aggregate, Choose
  <2>2. w \in Cand /\ Files(Dir(<<c, w>>)) \in SUBSET File
    <3>1. w \in Cand
      BY BestType
    <3>2. PICK d \in Place : d = Dir(<<c, w>>)
      BY <3>1, DirType
    <3> QED BY <3>1, <3>2, FilesType
  <2>3. /\ winner' \in [Call -> Cand \cup {0}] /\ toMerge' \in [Call -> SUBSET File]
        /\ wrote' \in [Slot -> SUBSET File]
    BY <2>1, <2>2 DEF TypeOK
  <2> QED BY <1>3, <2>3 DEF Aggregate, TypeOK
<1>4. ASSUME NEW c \in Call, NEW f \in File, MergeFile(c, f) \/ MergeFails(c, f) PROVE TypeOK'
  <2>1. winner[c] \in Cand
    BY <1>4 DEF MergeFile, Merge, MergeFails, Courses, CallCourse, TypeOK
  <2>2. PICK d \in Place : d = Dir(<<c, winner[c]>>)
    BY <2>1, DirType
  <2>3. CASE MergeFile(c, f)
    <3>1. PICK x \in Content, S \in SUBSET File :
            root' = Overlay(root, S, x) \/ root' = root
      <4>1. f \in Files(d) /\ At(d, f) \in Content /\ {f} \in SUBSET File
        BY <2>2, <2>3, FilesType DEF MergeFile, Merge
      <4> QED BY <2>2, <2>3, <4>1 DEF MergeFile, Merge, At
    <3>2. Overlay(root, S, x) \in Directory /\ root \in Directory
      BY OverlayType DEF TypeOK
    <3>3. root' \in Directory
      BY <3>1, <3>2
    <3> QED BY <2>3, <3>3 DEF MergeFile, Merge, TypeOK
  <2>4. CASE MergeFails(c, f)
    <3>1. root' \in Directory
      <4>1. Only(root, File \ {f}) \in Directory /\ root \in Directory
        BY OnlyType DEF TypeOK
      <4> QED BY <2>4, <4>1 DEF MergeFails
    <3>2. faults' \in 0 .. MaxFaults
      BY <2>4, EnsembleAssumption DEF MergeFails, Faults, TypeOK
    <3> QED BY <2>4, <3>1, <3>2 DEF MergeFails, TypeOK
  <2> QED BY <1>4, <2>3, <2>4
<1>5. ASSUME NEW c \in Call, WalkFails(c) \/ Return(c) PROVE TypeOK'
  <2>1. CASE WalkFails(c)
    <3>1. faults' \in 0 .. MaxFaults
      BY <2>1, EnsembleAssumption DEF WalkFails, Faults, TypeOK
    <3>2. toMerge' \in [Call -> SUBSET File] /\ unwalked' \in SUBSET Call
      BY <2>1 DEF WalkFails, TypeOK
    <3> QED BY <2>1, <3>1, <3>2 DEF WalkFails, TypeOK
  <2>2. CASE Return(c)
    <3>1. /\ worktree' \in [Node \X Cand -> Worktree]
          /\ undeleted' \in SUBSET Slot /\ faults' \in 0 .. MaxFaults
      BY <2>2, ReturnEffect DEF Place
    <3> QED BY <2>2, <3>1 DEF Return, Finish, TypeOK
  <2> QED BY <1>5, <2>1, <2>2
<1>6. ASSUME NEW c \in Call, NEW i \in Cand, CopyStep(c, i) \/ AgentStep(c, i) PROVE TypeOK'
  <2> DEFINE s == <<c, i>>
  <2>1. s \in Slot
    BY Numbers
  <2>2. PICK d \in Place : d = Dir(s)
    BY DirType
  <2> HIDE DEF s
  <2>3. CASE StartCandidate(c, i)
    <3>1. worktree' \in [Node \X Cand -> Worktree]
      BY <2>2, <2>3, EnsureEffect DEF StartCandidate, Place, s
    <3>2. DOMAIN root \in SUBSET File
      BY DirectoryType DEF TypeOK
    <3> QED BY <2>1, <2>3, <3>1, <3>2 DEF StartCandidate, Copying, TypeOK, s
  <2>4. ASSUME NEW f \in File, CopyFile(c, i, f) PROVE TypeOK'
    <3>1. worktree' \in [Node \X Cand -> Worktree]
      BY <2>2, <2>4, CopyFileEffect DEF Place, s
    <3> QED BY <2>1, <2>4, <3>1 DEF CopyFile, Copying, TypeOK, s
  <2>5. ASSUME NEW f \in File, CopyMissed(c, i, f) PROVE TypeOK'
    <3>1. worktree' \in [Node \X Cand -> Worktree]
      BY <2>2, <2>5, LosesEffect DEF CopyMissed, TypeOK, Place, s
    <3> QED BY <2>1, <2>5, <3>1 DEF CopyMissed, TypeOK, s
  <2>6. ASSUME NEW f \in File, CopyFails(c, i, f) PROVE TypeOK'
    <3>1. worktree' \in [Node \X Cand -> Worktree]
      BY <2>2, <2>6, EnsureEffect, LosesEffect DEF CopyFails, Place, s
    <3>2. faults' \in 0 .. MaxFaults
      BY <2>6, EnsembleAssumption DEF CopyFails, Faults, TypeOK
    <3> QED BY <2>1, <2>6, <3>1, <3>2 DEF CopyFails, TypeOK, s
  <2>7. CASE CandidateThrows(c, i)
    <3>1. worktree' \in [Node \X Cand -> Worktree]
      BY <2>2, <2>7, ThrowsEffect DEF Place, s
    <3>2. faults' \in 0 .. MaxFaults
      BY <2>7, EnsembleAssumption DEF CandidateThrows, Faults, TypeOK
    <3> QED BY <2>1, <2>7, <3>1, <3>2 DEF CandidateThrows, TypeOK, s
  <2>8. ASSUME NEW S \in SUBSET File, NEW r \in {"failure", "weak", "strong"},
               EndCandidate(c, i, S, r)
        PROVE  TypeOK'
    <3>1. worktree' \in [Node \X Cand -> Worktree]
      BY <2>2, <2>8, EndEffect DEF Place, s
    <3> QED BY <2>1, <2>8, <3>1 DEF EndCandidate, TypeOK, s
  <2> QED BY <1>6, <2>3, <2>4, <2>5, <2>6, <2>7, <2>8 DEF CopyStep, AgentStep
<1> QED BY <1>1, <1>2, <1>3, <1>4, <1>5, <1>6 DEF Next, MergeStep, Terminated

-----------------------------------------------------------------------------
(* What no step takes back.                                                *)

CallStep(c) ==
  \/ Begin(c) \/ TimeOut(c) \/ Aggregate(c) \/ WalkFails(c) \/ Return(c)
  \/ \E f \in File : MergeFile(c, f) \/ MergeFails(c, f)

CandidateStep(c, i) ==
  \/ StartCandidate(c, i) \/ CandidateThrows(c, i)
  \/ \E f \in File : CopyFile(c, i, f) \/ CopyMissed(c, i, f) \/ CopyFails(c, i, f)
  \/ \E S \in SUBSET File, r \in {"failure", "weak", "strong"} : EndCandidate(c, i, S, r)

LEMMA Steps ==
  ASSUME [Next]_vars
  PROVE  \/ UNCHANGED vars
         \/ \E c \in Call : CallStep(c)
         \/ \E c \in Call, i \in Cand : CandidateStep(c, i)
PROOF BY DEF Next, MergeStep, CopyStep, AgentStep, Terminated, CallStep, CandidateStep

LEMMA Lasting ==
  ASSUME TypeOK, Courses, [Next]_vars
  PROVE  /\ nodeOf' = nodeOf
         /\ abandoned \subseteq abandoned' /\ stale \subseteq stale'
         /\ torn \subseteq torn' /\ overlapped \subseteq overlapped'
         /\ unwalked \subseteq unwalked' /\ undeleted \subseteq undeleted'
         /\ \A c \in Call :
              /\ winner[c] # 0 => winner'[c] = winner[c]
              /\ call[c] = "rejected" => call'[c] = "rejected"
              /\ mergeErrors[c] \subseteq mergeErrors'[c]
              /\ call[c] = "failed" => call'[c] = "failed"
              /\ call[c] # "idle" => call'[c] # "idle"
<1> DEFINE Goal ==
      /\ nodeOf' = nodeOf
      /\ abandoned \subseteq abandoned' /\ stale \subseteq stale'
      /\ torn \subseteq torn' /\ overlapped \subseteq overlapped'
      /\ unwalked \subseteq unwalked' /\ undeleted \subseteq undeleted'
      /\ \A c \in Call :
           /\ winner[c] # 0 => winner'[c] = winner[c]
           /\ call[c] = "rejected" => call'[c] = "rejected"
           /\ mergeErrors[c] \subseteq mergeErrors'[c]
           /\ call[c] = "failed" => call'[c] = "failed"
           /\ call[c] # "idle" => call'[c] # "idle"
<1>1. CASE UNCHANGED vars
  BY <1>1 DEF vars
<1>2. ASSUME NEW c \in Call, Begin(c) PROVE Goal
  BY <1>2 DEF Begin, MayBegin, TypeOK
<1>3. ASSUME NEW c \in Call, TimeOut(c) PROVE Goal
  BY <1>3 DEF TimeOut, TypeOK
<1>4. ASSUME NEW c \in Call, Aggregate(c) PROVE Goal
  <2>1. winner[c] = 0 /\ call[c] = "candidates"
    BY <1>4 DEF Aggregate, Courses, CallCourse, SlotCourse
  <2> QED BY <1>4, <2>1 DEF Aggregate, Choose, TypeOK
<1>5. ASSUME NEW c \in Call, NEW f \in File, MergeFile(c, f) \/ MergeFails(c, f) PROVE Goal
  BY <1>5 DEF MergeFile, Merge, MergeFails, TypeOK
<1>6. ASSUME NEW c \in Call, WalkFails(c) \/ Return(c) PROVE Goal
  <2>1. CASE WalkFails(c)
    BY <2>1 DEF WalkFails
  <2>2. CASE Return(c)
    <3>1. undeleted \subseteq undeleted'
      BY <2>2, ReturnEffect
    <3> QED BY <2>2, <3>1 DEF Return, Finish, TypeOK
  <2> QED BY <1>6, <2>1, <2>2
<1>7. ASSUME NEW c \in Call, NEW i \in Cand, StartCandidate(c, i) PROVE Goal
  BY <1>7 DEF StartCandidate
<1>8. ASSUME NEW c \in Call, NEW i \in Cand, CandidateThrows(c, i) PROVE Goal
  <2>1. call[c] \in {"candidates", "rejected"}
    BY <1>8, Busy DEF CandidateThrows, Working
  <2> QED BY <1>8, <2>1 DEF CandidateThrows, TypeOK
<1>9. ASSUME NEW c \in Call, NEW i \in Cand, NEW f \in File,
             CopyFile(c, i, f) \/ CopyMissed(c, i, f) \/ CopyFails(c, i, f)
      PROVE  Goal
  BY <1>9 DEF CopyFile, CopyMissed, CopyFails
<1>10. ASSUME NEW c \in Call, NEW i \in Cand, NEW S, NEW r, EndCandidate(c, i, S, r) PROVE Goal
  BY <1>10 DEF EndCandidate
<1> HIDE DEF Goal
<1>11. Goal
  BY <1>1, <1>2, <1>3, <1>4, <1>5, <1>6, <1>7, <1>8, <1>9, <1>10, Steps
     DEF Goal, CallStep, CandidateStep
<1> QED BY <1>11 DEF Goal

(* A winner keeps what it has earned.                                      *)
LEMMA LastingClaims ==
  ASSUME TypeOK, Courses, [Next]_vars
  PROVE  /\ \A c \in Call : GivenUp(c) => GivenUp(c)'
         /\ \A x \in Content : Earned(x) => Earned(x)'
         /\ \A c \in Call : \A f : Undone(c, f) => Undone(c, f)'
<1>1. \A c \in Call : GivenUp(c) => GivenUp(c)'
  BY Lasting DEF GivenUp
<1>2. ASSUME NEW x \in Slot, NEW d \in Call, Strayed(x, d) PROVE Strayed(x, d)'
  BY <1>1, <1>2, Lasting, Numbers DEF Strayed
<1>3. ASSUME NEW x \in Content, Earned(x) PROVE Earned(x)'
  <2>1. CASE x = Original
    BY <2>1 DEF Earned
  <2>2. CASE x # Original
    <3>1. x \in Slot /\ x[1] \in Call /\ x[2] \in Cand /\ x[2] # 0
      BY <2>2, Numbers
    <3>2. PICK d \in Call :
            /\ winner[d] = x[2]
            /\ x[1] = d \/ (nodeOf[x[1]] = nodeOf[d] /\ Strayed(x, d))
      BY <1>3, <2>2 DEF Earned
    <3>3. winner'[d] = x[2] /\ nodeOf' = nodeOf
      BY <3>1, <3>2, Lasting
    <3>4. x[1] = d \/ (nodeOf'[x[1]] = nodeOf'[d] /\ Strayed(x, d)')
      BY <1>2, <3>1, <3>2, <3>3
    <3> QED BY <3>3, <3>4 DEF Earned
  <2> QED BY <2>1, <2>2
<1>4. \A c \in Call : \A f : Undone(c, f) => Undone(c, f)'
  BY Lasting DEF Undone, TypeOK
<1> QED BY <1>1, <1>3, <1>4

-----------------------------------------------------------------------------
(* The courses of calls and candidates.                                    *)

LEMMA Slots ==
  ASSUME NEW c \in Call, NEW i \in Cand
  PROVE  \E s \in Slot :
           /\ s = <<c, i>> /\ s[1] = c /\ s[2] = i
           /\ \A b \in Call, j \in Cand : <<b, j>> \in Slot /\ (<<b, j>> = s <=> b = c /\ j = i)
<1>1. \A b \in Call, j \in Cand :
        <<b, j>> \in Slot /\ (<<b, j>> = <<c, i>> <=> b = c /\ j = i)
  BY DEF Slot
<1>2. <<c, i>>[1] = c /\ <<c, i>>[2] = i /\ <<c, i>> \in Slot
  BY DEF Slot
<1> QED BY <1>1, <1>2

(* A call stays on course when only others move.                           *)
LEMMA OthersOnCourse ==
  ASSUME TypeOK, Courses, [Next]_vars, NEW c \in Call,
         winner'[c] = winner[c], call'[c] = call[c],
         \A j \in Cand : phase'[<<c, j>>] = phase[<<c, j>>],
         toMerge'[c] \subseteq toMerge[c],
         winner[c] # 0 \/ (c \notin unwalked' /\ mergeErrors'[c] = {})
  PROVE  CallCourse(c)'
<1>1. CallCourse(c)
  BY DEF Courses
<1>2. \A d \in 1 .. c - 1 : d \in Call
  BY EnsembleAssumption DEF Call
<1> QED BY <1>1, <1>2, Lasting, LastingClaims DEF CallCourse

LEMMA CallCourses ==
  ASSUME TypeOK, Courses, [Next]_vars
  PROVE  \A b \in Call : CallCourse(b)'
<1>1. \A b \in Call : CallCourse(b)
  BY DEF Courses
<1>2. \A b \in Call : \A d \in 1 .. b - 1 : d \in Call /\ d # b
  BY EnsembleAssumption DEF Call
<1>3. ASSUME NEW b \in Call, winner[b] = 0 PROVE b \notin unwalked /\ mergeErrors[b] = {}
  BY <1>1, <1>3 DEF CallCourse
<1>4. CASE UNCHANGED vars
  BY <1>3, <1>4, OthersOnCourse DEF vars
<1>5. ASSUME NEW c \in Call, Begin(c) PROVE \A b \in Call : CallCourse(b)'
  <2>1. \A b \in Call \ {c} : CallCourse(b)'
    BY <1>3, <1>5, OthersOnCourse DEF Begin, TypeOK
  <2>2. CallCourse(c)'
    BY <1>1, <1>2, <1>5 DEF Begin, MayBegin, CallCourse, GivenUp, TypeOK
  <2> QED BY <2>1, <2>2
<1>9. ASSUME NEW c \in Call, TimeOut(c) PROVE \A b \in Call : CallCourse(b)'
  BY <1>3, <1>9, OthersOnCourse DEF TimeOut
<1>10. ASSUME NEW c \in Call, WalkFails(c) \/ \E f \in File : MergeFile(c, f) \/ MergeFails(c, f)
       PROVE  \A b \in Call : CallCourse(b)'
  <2>1. winner[c] # 0
    BY <1>1, <1>10 DEF CallCourse, WalkFails, MergeFile, Merge, MergeFails
  <2> DEFINE Kept ==
        /\ UNCHANGED <<winner, call, phase>>
        /\ \A b \in Call : toMerge'[b] \subseteq toMerge[b]
        /\ \A b \in Call \ {c} :
             mergeErrors'[b] = mergeErrors[b] /\ (b \in unwalked' => b \in unwalked)
  <2>2. Kept
    <3>1. CASE WalkFails(c)
      BY <3>1 DEF WalkFails, TypeOK
    <3>2. ASSUME NEW f \in File, MergeFile(c, f) PROVE Kept
      BY <3>2 DEF MergeFile, Merge, TypeOK
    <3>3. ASSUME NEW f \in File, MergeFails(c, f) PROVE Kept
      BY <3>3 DEF MergeFails, TypeOK
    <3> QED BY <1>10, <3>1, <3>2, <3>3
  <2> QED BY <1>3, <2>1, <2>2, OthersOnCourse
<1>6. ASSUME NEW c \in Call, Aggregate(c) PROVE \A b \in Call : CallCourse(b)'
  <2>1. \A b \in Call \ {c} : CallCourse(b)'
    BY <1>3, <1>6, OthersOnCourse DEF Aggregate, Choose, TypeOK
  <2>2. winner'[c] # 0 /\ call'[c] = "merging" /\ call[c] = "candidates"
    <3>1. \A w \in Best(c) : w # 0
      BY BestType, Numbers
    <3> QED BY <1>6, <3>1 DEF Aggregate, Choose, TypeOK
  <2>3. \A i \in Cand : phase'[<<c, i>>] = "ended"
    BY <1>6 DEF Aggregate
  <2> QED BY <1>1, <1>2, <2>1, <2>2, <2>3, Lasting, LastingClaims DEF CallCourse
<1>7. ASSUME NEW c \in Call, Return(c) PROVE \A b \in Call : CallCourse(b)'
  <2>1. \A b \in Call \ {c} : CallCourse(b)'
    BY <1>3, <1>7, OthersOnCourse DEF Return, Finish, TypeOK
  <2>2. /\ call'[c] \in {"succeeded", "failed"} /\ call[c] = "merging"
        /\ UNCHANGED <<winner, phase, toMerge, unwalked, mergeErrors>>
        /\ toMerge[c] = {} \/ c \in unwalked
    BY <1>7 DEF Return, Finish, TypeOK
  <2> QED BY <1>1, <1>2, <2>1, <2>2, Lasting, LastingClaims DEF CallCourse
<1>8. ASSUME NEW c \in Call, NEW i \in Cand, CandidateStep(c, i)
      PROVE  \A b \in Call : CallCourse(b)'
  <2>1. PICK s \in Slot :
          /\ s = <<c, i>>
          /\ \A b \in Call, j \in Cand : <<b, j>> \in Slot /\ (<<b, j>> = s <=> b = c /\ j = i)
    BY Slots
  <2>2. /\ UNCHANGED <<winner, toMerge, unwalked, mergeErrors>>
        /\ \A b \in Call \ {c} : call'[b] = call[b]
        /\ call'[c] \in {call[c], "rejected"}
        /\ \A t \in Slot : t # s => phase'[t] = phase[t]
    BY <1>8, <2>1 DEF CandidateStep, StartCandidate, CandidateThrows, CopyFile, CopyMissed,
                      CopyFails, EndCandidate, TypeOK
  <2>3. \A b \in Call \ {c} : CallCourse(b)'
    BY <1>3, <2>1, <2>2, OthersOnCourse
  <2>4. \/ phase'[s] = phase[s] /\ call'[c] = call[c]
        \/ winner[c] = 0 /\ call[c] \in {"candidates", "rejected"}
    BY <1>8, <2>1, StartIsWork, Busy
       DEF CandidateStep, StartCandidate, CandidateThrows, CopyFile, CopyMissed, CopyFails,
           EndCandidate, TypeOK, Working
  <2>5. CASE phase'[s] = phase[s] /\ call'[c] = call[c]
    BY <1>3, <2>1, <2>2, <2>3, <2>5, OthersOnCourse
  <2>6. CASE winner[c] = 0 /\ call[c] \in {"candidates", "rejected"}
    <3>1. CallCourse(c)'
      BY <1>1, <1>2, <2>2, <2>6, Lasting, LastingClaims DEF CallCourse
    <3> QED BY <2>3, <3>1
  <2> QED BY <2>4, <2>5, <2>6
<1> QED BY <1>4, <1>5, <1>6, <1>7, <1>8, <1>9, <1>10, Steps DEF CallStep

(* A candidate stays on course when only others move.                      *)
LEMMA OthersInCourse ==
  ASSUME TypeOK, Courses, [Next]_vars, NEW s \in Slot,
         left'[s] = left[s], phase'[s] = phase[s], wrote'[s] \subseteq wrote[s]
  PROVE  SlotCourse(s)'
<1>1. SlotCourse(s) /\ s[1] \in Call
  BY Numbers DEF Courses
<1>2. s[1] \in torn \/ call[s[1]] = "rejected" => s[1] \in torn' \/ call'[s[1]] = "rejected"
  BY <1>1, Lasting
<1> QED BY <1>1, <1>2 DEF SlotCourse

LEMMA SlotCourses ==
  ASSUME TypeOK, Courses, [Next]_vars
  PROVE  \A t \in Slot : SlotCourse(t)'
<1>1. \A t \in Slot : SlotCourse(t)
  BY DEF Courses
<1>2. CASE UNCHANGED <<left, phase>> /\ \A t \in Slot : wrote'[t] \subseteq wrote[t]
  BY <1>2, OthersInCourse
<1>3. ASSUME NEW c \in Call, CallStep(c)
      PROVE  UNCHANGED <<left, phase>> /\ \A t \in Slot : wrote'[t] \subseteq wrote[t]
  BY <1>3 DEF CallStep, Begin, TimeOut, Aggregate, Choose, Return, Finish, MergeFile, Merge,
              MergeFails, WalkFails
<1>4. ASSUME NEW c \in Call, NEW i \in Cand, CandidateStep(c, i)
      PROVE  \A t \in Slot : SlotCourse(t)'
  <2>1. PICK s \in Slot : s = <<c, i>> /\ s[1] = c
    BY Slots
  <2>2. \A t \in Slot \ {s} : SlotCourse(t)'
    <3>1. \A t \in Slot \ {s} : left'[t] = left[t] /\ phase'[t] = phase[t] /\ wrote'[t] = wrote[t]
      BY <1>4, <2>1 DEF CandidateStep, StartCandidate, CandidateThrows, CopyFile, CopyMissed,
                        CopyFails, EndCandidate, TypeOK
    <3> QED BY <3>1, OthersInCourse
  <2>3. SlotCourse(s)
    BY <1>1
  <2>4. ASSUME StartCandidate(c, i) PROVE SlotCourse(s)'
    BY <2>1, <2>3, <2>4 DEF StartCandidate, Copying, SlotCourse, TypeOK
  <2>5. ASSUME CandidateThrows(c, i) PROVE SlotCourse(s)'
    BY <2>1, <2>3, <2>5 DEF CandidateThrows, SlotCourse, TypeOK
  <2>6. ASSUME NEW f \in File, CopyFile(c, i, f) PROVE SlotCourse(s)'
    BY <2>1, <2>3, <2>6 DEF CopyFile, Copying, SlotCourse, TypeOK
  <2>7. ASSUME NEW f \in File, CopyMissed(c, i, f) PROVE SlotCourse(s)'
    BY <2>1, <2>3, <2>7 DEF CopyMissed, SlotCourse, TypeOK
  <2>8. ASSUME NEW f \in File, CopyFails(c, i, f) PROVE SlotCourse(s)'
    BY <2>1, <2>3, <2>8 DEF CopyFails, SlotCourse, TypeOK
  <2>9. ASSUME NEW S, NEW r, EndCandidate(c, i, S, r) PROVE SlotCourse(s)'
    BY <2>1, <2>3, <2>9 DEF EndCandidate, SlotCourse, TypeOK
  <2>10. SlotCourse(s)'
    BY <1>4, <2>4, <2>5, <2>6, <2>7, <2>8, <2>9 DEF CandidateStep
  <2> QED BY <2>2, <2>10
<1>5. CASE UNCHANGED vars
  BY <1>5, OthersInCourse DEF vars
<1> QED BY <1>2, <1>3, <1>4, <1>5, Steps

LEMMA CoursesPreserved ==
  ASSUME TypeOK, Courses, [Next]_vars
  PROVE  Courses'
PROOF BY CallCourses, SlotCourses DEF Courses

-----------------------------------------------------------------------------
(* Calls that overlap.                                                     *)

LEMMA SameWork ==
  ASSUME NEW c \in Call, call'[c] = call[c], toMerge'[c] = toMerge[c],
         \A j \in Cand : phase'[<<c, j>>] = phase[<<c, j>>]
  PROVE  AtWork(c)' <=> AtWork(c)
<1>1. Occupied(c)' = Occupied(c)
  BY DEF Occupied
<1> QED BY <1>1 DEF AtWork

LEMMA WorkingCall ==
  ASSUME Courses
  PROVE  \A c \in Call : AtWork(c) => call[c] # "idle"
PROOF BY DEF AtWork, Courses, CallCourse

(* Only Begin puts a call to work.                                         *)
LEMMA WorkLasts ==
  ASSUME TypeOK, Courses, [Next]_vars, NEW b \in Call, AtWork(b)', ~Begin(b)
  PROVE  AtWork(b)
<1>1. CASE UNCHANGED vars
  BY <1>1, SameWork DEF vars
<1>2. ASSUME NEW c \in Call, CallStep(c) PROVE AtWork(b)
  <2>1. CASE c # b
    <3>1. call'[b] = call[b] /\ toMerge'[b] = toMerge[b] /\ phase' = phase
      BY <1>2, <2>1 DEF CallStep, Choose, Begin, TimeOut, Aggregate, Return, Finish, MergeFile,
                        Merge, MergeFails, WalkFails, TypeOK
    <3> QED BY <3>1, SameWork
  <2>2. CASE c = b /\ TimeOut(c)
    BY <2>2, SameWork DEF TimeOut
  <2>3. CASE c = b /\ ~TimeOut(c)
    <3>1. CASE toMerge[c] # {} \/ call[c] \in {"candidates", "merging"}
      BY <2>3, <3>1 DEF AtWork
    <3>2. CASE toMerge[c] = {} /\ call[c] \notin {"candidates", "merging"}
      BY <1>2, <2>3, <3>2 DEF CallStep, Aggregate, Return, Finish, MergeFile, Merge, MergeFails,
                              WalkFails
    <3> QED BY <3>1, <3>2
  <2> QED BY <2>1, <2>2, <2>3
<1>3. ASSUME NEW c \in Call, NEW i \in Cand, CandidateStep(c, i) PROVE AtWork(b)
  <2>1. PICK s \in Slot :
          /\ s = <<c, i>>
          /\ \A a \in Call, j \in Cand : <<a, j>> \in Slot /\ (<<a, j>> = s <=> a = c /\ j = i)
    BY Slots
  <2>2. CASE c # b
    <3>1. /\ call'[b] = call[b] /\ toMerge'[b] = toMerge[b]
          /\ \A t \in Slot : t # s => phase'[t] = phase[t]
      BY <1>3, <2>1, <2>2
         DEF CandidateStep, StartCandidate, CandidateThrows, CopyFile, CopyMissed, CopyFails,
             EndCandidate, TypeOK
    <3> QED BY <2>1, <2>2, <3>1, SameWork
  <2>3. CASE c = b /\ phase'[s] = phase[s] /\ ~CandidateThrows(c, i)
    <3>1. call'[b] = call[b] /\ toMerge'[b] = toMerge[b] /\ \A t \in Slot : phase'[t] = phase[t]
      BY <1>3, <2>1, <2>3
         DEF CandidateStep, StartCandidate, CopyFile, CopyMissed, CopyFails, EndCandidate, TypeOK
    <3> QED BY <2>1, <3>1, SameWork
  <2>4. CASE c = b /\ (phase'[s] # phase[s] \/ CandidateThrows(c, i))
    <3>1. StartCandidate(c, i) \/ Working(s)
      BY <1>3, <2>1, <2>4
         DEF CandidateStep, CandidateThrows, CopyFile, CopyMissed, CopyFails, EndCandidate,
             TypeOK, Working
    <3> QED BY <2>1, <2>4, <3>1, StartIsWork, Busy
  <2> QED BY <2>2, <2>3, <2>4
<1> QED BY <1>1, <1>2, <1>3, Steps

LEMMA OverlapsPreserved ==
  ASSUME TypeOK, Courses, Overlaps, [Next]_vars
  PROVE  Overlaps'
<1> SUFFICES ASSUME NEW c \in Call, NEW d \in Call, d < c, call'[c] # "idle", AtWork(d)'
             PROVE  c \in overlapped' /\ (AtWork(c)' => d \in overlapped')
  BY DEF Overlaps
<1>1. ASSUME NEW b \in Call, Begin(b)
      PROVE  /\ \A a \in Call \ {b} : call'[a] = call[a] /\ (AtWork(a)' <=> AtWork(a))
             /\ \A a \in Call \ {b} : AtWork(a) => a \in overlapped' /\ b \in overlapped'
             /\ \A a \in Call : b < a => call[a] = "idle"
  <2>1. \A a \in Call \ {b} : call'[a] = call[a] /\ UNCHANGED <<phase, toMerge>>
    BY <1>1 DEF Begin, TypeOK
  <2>2. \A a \in Call \ {b} : AtWork(a) => a \in overlapped' /\ b \in overlapped'
    BY <1>1 DEF Begin
  <2>3. call[b] = "idle"
    BY <1>1 DEF Begin, MayBegin
  <2>4. ASSUME NEW a \in Call, b < a PROVE call[a] = "idle"
    <3>1. b \in 1 .. a - 1
      BY <2>4, EnsembleAssumption DEF Call
    <3> QED BY <2>3, <3>1 DEF Courses, CallCourse
  <2> QED BY <2>1, <2>2, <2>4, SameWork
<1>2. CASE \E b \in Call : Begin(b)
  <2>1. PICK b \in Call : Begin(b)
    BY <1>2
  <2>2. CASE c = b
    <3>1. d # b
      BY <2>2, Numbers
    <3> QED BY <1>1, <2>1, <2>2, <3>1
  <2>3. CASE c # b
    <3>1. call[c] # "idle" /\ d # b
      BY <1>1, <2>1, <2>3
    <3>2. AtWork(d) /\ (AtWork(c)' <=> AtWork(c))
      BY <1>1, <2>1, <2>3, <3>1
    <3> QED BY <3>1, <3>2, Lasting DEF Overlaps
  <2> QED BY <2>2, <2>3
<1>3. CASE ~\E b \in Call : Begin(b)
  <2>1. AtWork(d) /\ (AtWork(c)' => AtWork(c))
    BY <1>3, WorkLasts
  <2>2. call[c] # "idle"
    <3>1. ASSUME NEW b \in Call, CallStep(b) PROVE call[c] # "idle"
      BY <1>3, <3>1 DEF CallStep, TimeOut, Aggregate, Return, Finish, MergeFile, Merge,
                        MergeFails, WalkFails, TypeOK
    <3>2. ASSUME NEW b \in Call, NEW i \in Cand, CandidateStep(b, i) PROVE call[c] # "idle"
      BY <3>2, Busy DEF CandidateStep, StartCandidate, CandidateThrows, CopyFile, CopyMissed,
                        CopyFails, EndCandidate, TypeOK, Working
    <3> QED BY <3>1, <3>2, Steps DEF vars
  <2> QED BY <2>1, <2>2, Lasting DEF Overlaps
<1> QED BY <1>2, <1>3

(* While a call has the project to itself no other call is at work.        *)
LEMMA Alone ==
  ASSUME TypeOK, Courses, Overlaps, NEW c \in Call \ overlapped,
         call[c] \in {"candidates", "merging"}, NEW d \in Call, d # c
  PROVE  ~AtWork(d)
<1>1. AtWork(c) /\ call[c] # "idle"
  BY DEF AtWork
<1>2. AtWork(d) => call[d] # "idle"
  BY WorkingCall
<1>3. c < d \/ d < c
  BY Numbers
<1> QED BY <1>1, <1>2, <1>3 DEF Overlaps

-----------------------------------------------------------------------------
(* Worktrees without a call at work.                                       *)

(* A candidate creates no directory but its own.                           *)
LEMMA Makes ==
  ASSUME TypeOK, NEW c \in Call, NEW i \in Cand, CandidateStep(c, i),
         NEW e \in Place, Exists(e)'
  PROVE  Exists(e) \/ e = Dir(<<c, i>>)
<1>1. PICK d \in Place : d = Dir(<<c, i>>)
  BY DirType
<1>2. ASSUME EnsureDir(d) PROVE Exists(e) \/ e = d
  BY <1>2, EnsureEffect
<1>3. ASSUME NEW f \in File, Loses(d, f) PROVE Exists(e)
  BY <1>3, LosesEffect DEF Shrinks
<1>4. CASE StartCandidate(c, i)
  BY <1>1, <1>2, <1>4 DEF StartCandidate
<1>5. CASE CandidateThrows(c, i)
  BY <1>1, <1>5, ThrowsEffect DEF Shrinks
<1>6. ASSUME NEW f \in File, CopyFile(c, i, f) PROVE Exists(e) \/ e = d
  BY <1>1, <1>6, CopyFileEffect
<1>7. ASSUME NEW f \in File, CopyMissed(c, i, f) PROVE Exists(e)
  BY <1>1, <1>3, <1>7, SameWorktree DEF CopyMissed
<1>8. ASSUME NEW f \in File, CopyFails(c, i, f) PROVE Exists(e) \/ e = d
  BY <1>1, <1>2, <1>3, <1>8 DEF CopyFails
<1>9. ASSUME NEW S \in SUBSET File, NEW r, EndCandidate(c, i, S, r) PROVE Exists(e) \/ e = d
  BY <1>1, <1>9, EndEffect
<1> QED BY <1>1, <1>4, <1>5, <1>6, <1>7, <1>8, <1>9 DEF CandidateStep

LEMMA OwnedPreserved ==
  ASSUME TypeOK, Courses, Owned, [Next]_vars
  PROVE  Owned'
<1> DEFINE Holds(b) == call[b] \in {"candidates", "merging", "rejected"}
           Leftover(e) == \E s \in undeleted : Dir(s) = e
<1> SUFFICES ASSUME torn' = {}, NEW e \in Place, Exists(e)'
             PROVE  Leftover(e)' \/ \E b \in Call : nodeOf'[b] = e[1] /\ Holds(b)'
  BY DEF Owned, Place
<1>1. torn = {} /\ nodeOf' = nodeOf /\ undeleted \subseteq undeleted'
  BY Lasting
<1>2. Leftover(e) => Leftover(e)'
  BY <1>1 DEF Dir
<1>3. Exists(e) => Leftover(e) \/ \E b \in Call : nodeOf[b] = e[1] /\ Holds(b)
  BY <1>1 DEF Owned, Place
<1> DEFINE Goal == Leftover(e)' \/ \E b \in Call : nodeOf'[b] = e[1] /\ Holds(b)'
<1> HIDE DEF Leftover
<1>4. ASSUME \A b \in Call : Holds(b) => Holds(b)', worktree'[e] = worktree[e]
      PROVE  Goal
  <2>1. Exists(e)
    BY <1>4, SameWorktree
  <2> QED BY <1>1, <1>2, <1>3, <1>4, <2>1
<1>5. CASE UNCHANGED vars
  BY <1>4, <1>5 DEF vars
<1>6. ASSUME NEW c \in Call, CallStep(c), ~Return(c) PROVE Goal
  <2>1. worktree' = worktree
    BY <1>6 DEF CallStep, Begin, TimeOut, Aggregate, MergeFile, Merge, MergeFails, WalkFails
  <2>2. \A b \in Call : Holds(b) => Holds(b)'
    BY <1>6 DEF CallStep, Begin, MayBegin, TimeOut, Aggregate, MergeFile, Merge, MergeFails,
                WalkFails, TypeOK
  <2> QED BY <1>4, <2>1, <2>2
<1>7. ASSUME NEW c \in Call, Return(c) PROVE Goal
  <2>1. CASE e[1] = nodeOf[c]
    <3>1. <<c, e[2]>> \in undeleted' /\ Dir(<<c, e[2]>>)' = e
      BY <1>1, <1>7, <2>1, ReturnEffect DEF Dir
    <3> QED BY <3>1 DEF Leftover
  <2>2. CASE e[1] # nodeOf[c]
    <3>1. worktree'[e] = worktree[e]
      BY <1>7, <2>2, ReturnEffect
    <3>2. Exists(e)
      BY <3>1, SameWorktree
    <3>3. \A b \in Call \ {c} : Holds(b) => Holds(b)'
      BY <1>7 DEF Return, Finish, TypeOK
    <3> QED BY <1>1, <1>2, <1>3, <2>2, <3>2, <3>3
  <2> QED BY <2>1, <2>2
<1>8. ASSUME NEW c \in Call, NEW i \in Cand, CandidateStep(c, i) PROVE Goal
  <2>1. PICK d \in Place : d = Dir(<<c, i>>) /\ d[1] = nodeOf[c]
    BY DirType
  <2>2. \A b \in Call : Holds(b) => Holds(b)'
    BY <1>8 DEF CandidateStep, StartCandidate, CandidateThrows, CopyFile, CopyMissed, CopyFails,
                EndCandidate, TypeOK
  <2>3. call[c] \in {"candidates", "rejected"}
    BY <1>1, <1>8, StartIsWork, Busy, CopyingIsWork
       DEF CandidateStep, CandidateThrows, CopyFile, CopyMissed, CopyFails, EndCandidate, Working
  <2>4. Exists(e) \/ e = d
    BY <1>8, <2>1, Makes
  <2> QED BY <1>1, <1>2, <1>3, <2>1, <2>2, <2>3, <2>4
<1> QED BY <1>5, <1>6, <1>7, <1>8, Steps DEF CallStep

-----------------------------------------------------------------------------
(* What is in the worktrees and in the project.                            *)

(* What a merge copies comes from the worktree of the winner; where it     *)
(* fails the project keeps what it has or loses the file.                  *)
LEMMA MergeEffect ==
  ASSUME TypeOK, Courses, NEW c \in Call, NEW f \in File, MergeFile(c, f) \/ MergeFails(c, f)
  PROVE  \E d \in Place :
           /\ d = Dir(<<c, winner[c]>>) /\ winner[c] \in Cand
           /\ f \in toMerge[c] /\ toMerge'[c] = toMerge[c] \ {f}
           /\ \A g \in DOMAIN root' :
                \/ g \in DOMAIN root /\ root'[g] = root[g]
                \/ g = f /\ f \in Files(d) /\ root'[g] = At(d, f)
           /\ \A g \in DOMAIN root : g # f => g \in DOMAIN root' /\ root'[g] = root[g]
           /\ f \in mergeErrors'[c] \/ (f \in DOMAIN root' /\ f \in Files(d) /\ root'[f] = At(d, f))
<1>1. f \in toMerge[c] /\ toMerge'[c] = toMerge[c] \ {f}
  BY DEF MergeFile, Merge, MergeFails, TypeOK
<1>2. winner[c] \in Cand /\ winner[c] # 0
  BY <1>1, Numbers DEF Courses, CallCourse, TypeOK
<1>3. PICK d \in Place : d = Dir(<<c, winner[c]>>)
  BY <1>2, DirType
<1>4. root \in Directory
  BY DEF TypeOK
<1> DEFINE Goal ==
      /\ \A g \in DOMAIN root' :
           \/ g \in DOMAIN root /\ root'[g] = root[g]
           \/ g = f /\ f \in Files(d) /\ root'[g] = At(d, f)
      /\ \A g \in DOMAIN root : g # f => g \in DOMAIN root' /\ root'[g] = root[g]
      /\ f \in mergeErrors'[c] \/ (f \in DOMAIN root' /\ f \in Files(d) /\ root'[f] = At(d, f))
<1>5. ASSUME MergeFile(c, f) PROVE Goal
  <2>1. /\ f \in Files(d) /\ At(d, f) \in Content
        /\ root' = IF Differs(d, f) THEN Overlay(root, {f}, At(d, f)) ELSE root
    BY <1>3, <1>5, FilesType DEF MergeFile, Merge, At
  <2>2. CASE Differs(d, f)
    <3>1. root' = Overlay(root, {f}, At(d, f))
      BY <2>1, <2>2
    <3>2. /\ DOMAIN root' = DOMAIN root \cup {f} /\ root'[f] = At(d, f)
          /\ \A g \in DOMAIN root : g # f => root'[g] = root[g]
      BY <3>1 DEF Overlay
    <3> QED BY <2>1, <3>2
  <2>3. CASE ~Differs(d, f)
    <3>1. root' = root /\ f \in DOMAIN root /\ root[f] = At(d, f)
      BY <2>1, <2>3 DEF Differs, At
    <3> QED BY <2>1, <3>1
  <2> QED BY <2>2, <2>3
<1>6. ASSUME MergeFails(c, f) PROVE Goal
  <2>1. f \in mergeErrors'[c]
    BY <1>6 DEF MergeFails, TypeOK
  <2>2. CASE root' = root
    BY <2>1, <2>2
  <2>3. CASE root' # root
    <3>1. root' = Only(root, File \ {f})
      BY <1>6, <2>3 DEF MergeFails
    <3>2. DOMAIN root \in SUBSET File
      BY <1>4, DirectoryType
    <3>3. /\ DOMAIN root' = DOMAIN root \ {f}
          /\ \A g \in DOMAIN root : g # f => root'[g] = root[g]
      BY <3>1, <3>2 DEF Only
    <3> QED BY <2>1, <3>3
  <2> QED BY <2>2, <2>3
<1> HIDE DEF Goal
<1>7. Goal
  BY <1>5, <1>6
<1> QED BY <1>1, <1>2, <1>3, <1>7 DEF Goal

(* Only merges change the project.                                         *)
LEMMA RootStep ==
  ASSUME [Next]_vars, root' # root
  PROVE  \E c \in Call, f \in File : MergeFile(c, f) \/ MergeFails(c, f)
<1>1. ASSUME NEW c \in Call, CallStep(c)
      PROVE  \E f \in File : MergeFile(c, f) \/ MergeFails(c, f)
  BY <1>1 DEF CallStep, Begin, TimeOut, Aggregate, WalkFails, Return, Finish
<1>2. ASSUME NEW c \in Call, NEW i \in Cand, CandidateStep(c, i) PROVE FALSE
  BY <1>2 DEF CandidateStep, StartCandidate, CandidateThrows, CopyFile, CopyMissed,
              CopyFails, EndCandidate
<1> QED BY <1>1, <1>2, Steps DEF vars

LEMMA RootEarned ==
  ASSUME TypeOK, Courses, Traced, OnlyWinnersReachRoot, [Next]_vars
  PROVE  OnlyWinnersReachRoot'
<1> SUFFICES ASSUME NEW g \in DOMAIN root', NEW y, y = root'[g] PROVE Earned(y)'
  BY DEF OnlyWinnersReachRoot, Earned, Strayed, GivenUp
<1>1. ASSUME root' = root PROVE Earned(y)'
  <2>1. PICK x \in Content : x = root[g]
    BY <1>1, DirectoryType DEF TypeOK
  <2>2. Earned(x)
    BY <1>1, <2>1 DEF OnlyWinnersReachRoot
  <2>3. Earned(x)'
    BY <2>2, LastingClaims
  <2> QED BY <1>1, <2>1, <2>3
<1>2. ASSUME NEW c \in Call, NEW f \in File, MergeFile(c, f) \/ MergeFails(c, f)
      PROVE  Earned(y)'
  <2>1. PICK d \in Place :
           /\ d = Dir(<<c, winner[c]>>) /\ winner[c] \in Cand
           /\ f \in toMerge[c]
           /\ \A h \in DOMAIN root' :
                \/ h \in DOMAIN root /\ root'[h] = root[h]
                \/ h = f /\ f \in Files(d) /\ root'[h] = At(d, f)
    BY <1>2, MergeEffect
  <2>2. CASE g \in DOMAIN root /\ root'[g] = root[g]
    <3>1. PICK x \in Content : x = root[g]
      BY <2>2, DirectoryType DEF TypeOK
    <3>2. Earned(x)
      BY <2>2, <3>1 DEF OnlyWinnersReachRoot
    <3>3. Earned(x)'
      BY <3>2, LastingClaims
    <3> QED BY <2>2, <3>1, <3>3
  <2>3. CASE g = f /\ f \in Files(d) /\ root'[g] = At(d, f)
    <3>1. PICK x \in Content : x = At(d, f)
      BY <2>3, FilesType
    <3>2. \/ Earned(x)
          \/ /\ Dir(x) = d
             /\ call[x[1]] \in {"candidates", "merging"} \/ GivenUp(x[1]) \/ x \in undeleted
      BY <2>3, <3>1 DEF Traced, At, Place
    <3>3. Earned(x)
      <4>1. SUFFICES ASSUME x \in Slot, Dir(x) = d,
                            call[x[1]] \in {"candidates", "merging"} \/ GivenUp(x[1])
                              \/ x \in undeleted
                     PROVE  Earned(x)
        BY <3>2, Numbers DEF Earned
      <4>2. nodeOf[x[1]] = nodeOf[c] /\ x[2] = winner[c] /\ x[1] \in Call
        <5>1. <<c, winner[c]>> \in Slot
          BY <2>1, Numbers
        <5>2. nodeOf[x[1]] = nodeOf[<<c, winner[c]>>[1]] /\ x[2] = <<c, winner[c]>>[2]
          BY <2>1, <4>1, <5>1, DirType
        <5> QED BY <4>1, <5>2, Numbers
      <4>3. x[1] = c \/ Strayed(x, c)
        <5>1. call[c] = "merging" \/ c \in unwalked
          BY <2>1 DEF Courses, CallCourse
        <5>2. SUFFICES ASSUME call[c] = "merging", call[x[1]] \in {"candidates", "merging"}
                       PROVE  x[1] = c \/ GivenUp(x[1]) \/ GivenUp(c)
          BY <4>1, <5>1 DEF Strayed
        <5>3. CASE x[1] < c
          <6>1. x[1] \in 1 .. c - 1
            BY <4>2, <5>3, EnsembleAssumption DEF Call
          <6>2. call[x[1]] = "failed" \/ GivenUp(x[1])
            BY <4>2, <5>2, <6>1 DEF Courses, CallCourse
          <6> QED BY <5>2, <6>2
        <5>4. CASE c < x[1]
          <6>1. c \in 1 .. x[1] - 1
            BY <4>2, <5>4, EnsembleAssumption DEF Call
          <6>2. call[c] = "failed" \/ GivenUp(c)
            BY <4>2, <5>2, <6>1 DEF Courses, CallCourse
          <6> QED BY <5>2, <6>2
        <5> QED BY <4>2, <5>3, <5>4, Numbers
      <4> QED BY <4>2, <4>3 DEF Earned
    <3>4. Earned(x)'
      BY <3>3, LastingClaims
    <3> QED BY <2>3, <3>1, <3>4
  <2> QED BY <2>1, <2>2, <2>3
<1>3. CASE root' # root
  BY <1>2, <1>3, RootStep
<1> QED BY <1>1, <1>3

(* A call that works ends by returning, by throwing, or not at all.        *)
LEMMA WorkContinues ==
  ASSUME TypeOK, Courses, [Next]_vars, NEW b \in Call, call[b] \in {"candidates", "merging"}
  PROVE  call'[b] \in {"candidates", "merging", "rejected"} \/ Return(b)
<1>1. ASSUME NEW c \in Call, CallStep(c), ~Return(b)
      PROVE  call'[b] \in {"candidates", "merging", "rejected"}
  <2>1. CASE c # b
    BY <1>1, <2>1 DEF CallStep, Begin, TimeOut, Aggregate, MergeFile, Merge, MergeFails,
                      WalkFails, Return, Finish, TypeOK
  <2>2. CASE c = b
    BY <1>1, <2>2 DEF CallStep, Begin, MayBegin, TimeOut, Aggregate, MergeFile, Merge,
                      MergeFails, WalkFails, TypeOK
  <2> QED BY <2>1, <2>2
<1>2. ASSUME NEW c \in Call, NEW i \in Cand, CandidateStep(c, i)
      PROVE  call'[b] \in {"candidates", "merging", "rejected"}
  BY <1>2 DEF CandidateStep, StartCandidate, CandidateThrows, CopyFile, CopyMissed, CopyFails,
              EndCandidate, TypeOK
<1> QED BY <1>1, <1>2, Steps DEF vars

(* What a step can put into a worktree: a file of the project, or the name *)
(* of the candidate that ends.                                             *)
LEMMA WorktreeStep ==
  ASSUME TypeOK, Courses, [Next]_vars, NEW e \in Place, NEW f \in Files(e)'
  PROVE  \/ f \in Files(e) /\ At(e, f)' = At(e, f)
         \/ f \in DOMAIN root /\ At(e, f)' = root[f] /\ root[f] \in Content
         \/ \E c \in Call, i \in Cand :
              /\ e = Dir(<<c, i>>) /\ At(e, f)' = <<c, i>>
              /\ phase[<<c, i>>] = "running" /\ call' = call
<1>1. CASE worktree'[e] = worktree[e]
  BY <1>1, SameWorktree
<1>2. ASSUME NEW c \in Call, CallStep(c), worktree'[e] # worktree[e]
      PROVE  f \in Files(e) /\ At(e, f)' = At(e, f)
  <2>1. Return(c)
    BY <1>2 DEF CallStep, Begin, TimeOut, Aggregate, MergeFile, Merge, MergeFails, WalkFails
  <2> QED BY <2>1, ReturnEffect DEF Shrinks
<1>3. ASSUME NEW c \in Call, NEW i \in Cand, CandidateStep(c, i), worktree'[e] # worktree[e]
      PROVE  \/ f \in Files(e) /\ At(e, f)' = At(e, f)
             \/ f \in DOMAIN root /\ At(e, f)' = root[f] /\ root[f] \in Content
             \/ /\ e = Dir(<<c, i>>) /\ At(e, f)' = <<c, i>>
                /\ phase[<<c, i>>] = "running" /\ call' = call
  <2>1. PICK d \in Place : d = Dir(<<c, i>>)
    BY DirType
  <2>2. ASSUME \/ StartCandidate(c, i) \/ CandidateThrows(c, i)
               \/ \E g \in File : CopyFails(c, i, g) \/ CopyMissed(c, i, g)
        PROVE  f \in Files(e) /\ At(e, f)' = At(e, f)
    <3>1. CASE EnsureDir(d)
      BY <3>1, EnsureEffect
    <3>2. ASSUME NEW g \in File, Loses(d, g) PROVE f \in Files(e) /\ At(e, f)' = At(e, f)
      BY <3>2, LosesEffect DEF Shrinks
    <3>3. CASE CandidateThrows(c, i)
      BY <2>1, <3>3, ThrowsEffect DEF Shrinks
    <3>4. EnsureDir(d) \/ CandidateThrows(c, i) \/ \E g \in File : Loses(d, g)
      BY <1>3, <2>1, <2>2 DEF StartCandidate, CopyFails, CopyMissed
    <3> QED BY <3>1, <3>2, <3>3, <3>4
  <2>3. ASSUME NEW g \in File, CopyFile(c, i, g)
        PROVE  \/ f \in Files(e) /\ At(e, f)' = At(e, f)
               \/ f \in DOMAIN root /\ At(e, f)' = root[f] /\ root[f] \in Content
    BY <1>3, <2>1, <2>3, CopyFileEffect
  <2>4. ASSUME NEW S \in SUBSET File, NEW r, EndCandidate(c, i, S, r)
        PROVE  \/ f \in Files(e) /\ At(e, f)' = At(e, f)
               \/ /\ e = d /\ At(e, f)' = <<c, i>>
                  /\ phase[<<c, i>>] = "running" /\ call' = call
    <3>1. phase[<<c, i>>] = "running" /\ call' = call
      BY <2>4 DEF EndCandidate
    <3>2. PICK s \in Content : s = <<c, i>>
      BY Numbers
    <3>3. e # d => worktree'[e] = worktree[e]
      BY <2>1, <2>4, EndEffect
    <3>4. /\ Files(d)' = Files(d) \cup S
          /\ \A g : g \in S => At(d, g)' = s
          /\ \A g : g \in Files(d) /\ g \notin S => At(d, g)' = At(d, g)
      BY <2>1, <2>4, <3>2, EndEffect
    <3> QED BY <1>3, <3>1, <3>2, <3>3, <3>4
  <2> QED BY <1>3, <2>1, <2>2, <2>3, <2>4 DEF CandidateStep
<1> QED BY <1>1, <1>2, <1>3, Steps DEF vars

LEMMA TracedPreserved ==
  ASSUME TypeOK, Courses, Traced, OnlyWinnersReachRoot, [Next]_vars
  PROVE  Traced'
<1> DEFINE Held(x) ==
      call[x[1]] \in {"candidates", "merging"} \/ GivenUp(x[1]) \/ x \in undeleted
<1> SUFFICES ASSUME NEW e \in Place, NEW f \in Files(e)', NEW y, y = At(e, f)'
             PROVE  \/ Earned(y)'
                    \/ Dir(y)' = e /\ Held(y)'
  BY DEF Traced, At, Place, Earned, Strayed, GivenUp, Dir
<1>1. CASE f \in Files(e) /\ y = At(e, f)
  <2>1. y \in Content
    BY <1>1, FilesType
  <2>2. Earned(y) \/ (Dir(y) = e /\ Held(y))
    BY <1>1 DEF Traced, At, Place
  <2>3. CASE Earned(y)
    BY <2>1, <2>3, LastingClaims
  <2>4. CASE ~Earned(y)
    <3>1. y \in Slot /\ y[1] \in Call /\ y[2] \in Cand /\ y = <<y[1], y[2]>>
      BY <2>1, <2>4, Numbers DEF Earned
    <3>2. Dir(y)' = e
      BY <2>2, <2>4, Lasting DEF Dir
    <3>3. CASE GivenUp(y[1]) \/ y \in undeleted
      BY <3>1, <3>2, <3>3, Lasting, LastingClaims
    <3>4. CASE Return(y[1])
      <4>1. e = <<nodeOf[y[1]], y[2]>>
        BY <2>2, <2>4, <3>1, DirType
      <4>2. Exists(e)'
        BY DEF Files
      <4>3. <<y[1], e[2]>> \in undeleted'
        BY <3>1, <3>4, <4>1, <4>2, ReturnEffect
      <4> QED BY <3>1, <3>2, <4>1, <4>3
    <3>5. CASE call[y[1]] \in {"candidates", "merging"} /\ ~Return(y[1])
      BY <3>1, <3>2, <3>5, WorkContinues DEF GivenUp
    <3> QED BY <2>2, <2>4, <3>3, <3>4, <3>5
  <2> QED BY <2>3, <2>4
<1>2. CASE f \in DOMAIN root /\ y = root[f] /\ y \in Content
  <2>1. Earned(y)
    BY <1>2 DEF OnlyWinnersReachRoot
  <2> QED BY <1>2, <2>1, LastingClaims
<1>3. ASSUME NEW c \in Call, NEW i \in Cand, e = Dir(<<c, i>>), y = <<c, i>>,
             phase[<<c, i>>] = "running", call' = call
      PROVE  Dir(y)' = e /\ Held(y)'
  <2>1. call[c] \in {"candidates", "rejected"}
    BY <1>3, Busy DEF Working
  <2>2. Dir(y)' = e
    BY <1>3, Lasting DEF Dir
  <2> QED BY <1>3, <2>1, <2>2 DEF GivenUp
<1> QED BY <1>1, <1>2, <1>3, WorktreeStep

(* What can take a file of a worktree away: a copy that is under way, the  *)
(* agent that works there, a candidate that throws, a call that returns.   *)
LEMMA WorktreeKeeps ==
  ASSUME TypeOK, Courses, [Next]_vars, NEW e \in Place, NEW f \in Files(e)
  PROVE  \/ f \in Files(e)' /\ At(e, f)' = At(e, f)
         \/ \E c \in Call, i \in Cand :
              /\ e = Dir(<<c, i>>)
              /\ f \in left[<<c, i>>] \/ phase[<<c, i>>] = "running" \/ CandidateThrows(c, i)
         \/ \E c \in Call : Return(c) /\ e[1] = nodeOf[c]
<1>1. CASE worktree'[e] = worktree[e]
  BY <1>1, SameWorktree
<1>2. ASSUME NEW c \in Call, CallStep(c), worktree'[e] # worktree[e]
      PROVE  Return(c) /\ e[1] = nodeOf[c]
  <2>1. Return(c)
    BY <1>2 DEF CallStep, Begin, TimeOut, Aggregate, MergeFile, Merge, MergeFails, WalkFails
  <2> QED BY <1>2, <2>1, ReturnEffect
<1>3. ASSUME NEW c \in Call, NEW i \in Cand, CandidateStep(c, i), worktree'[e] # worktree[e]
      PROVE  \/ f \in Files(e)' /\ At(e, f)' = At(e, f)
             \/ /\ e = Dir(<<c, i>>)
                /\ f \in left[<<c, i>>] \/ phase[<<c, i>>] = "running" \/ CandidateThrows(c, i)
  <2>1. PICK d \in Place : d = Dir(<<c, i>>)
    BY DirType
  <2>2. ASSUME EnsureDir(d) PROVE f \in Files(e)' /\ At(e, f)' = At(e, f)
    BY <2>2, EnsureEffect
  <2>3. ASSUME CandidateThrows(c, i) PROVE e = d
    BY <1>3, <2>1, <2>3, ThrowsEffect
  <2>4. ASSUME NEW g \in File, CopyMissed(c, i, g) \/ CopyFails(c, i, g)
        PROVE  \/ f \in Files(e)' /\ At(e, f)' = At(e, f)
               \/ e = d /\ f \in left[<<c, i>>]
    <3>1. EnsureDir(d) \/ Loses(d, g)
      BY <1>3, <2>1, <2>4 DEF CopyMissed, CopyFails
    <3>2. g \in left[<<c, i>>]
      BY <2>4 DEF CopyMissed, CopyFails
    <3>3. CASE Loses(d, g)
      <4>1. e = d /\ (f # g => f \in Files(d)' /\ At(d, f)' = At(d, f))
        BY <1>3, <3>3, LosesEffect
      <4> QED BY <3>2, <4>1
    <3> QED BY <2>2, <3>1, <3>3
  <2>5. ASSUME NEW g \in File, CopyFile(c, i, g)
        PROVE  \/ f \in Files(e)' /\ At(e, f)' = At(e, f)
               \/ e = d /\ f \in left[<<c, i>>]
    <3>1. e = d
      BY <1>3, <2>1, <2>5, CopyFileEffect
    <3>2. f \in Files(d)' /\ (f # g => At(d, f)' = At(d, f))
      BY <2>1, <2>5, <3>1, CopyFileEffect
    <3>3. g \in left[<<c, i>>]
      BY <2>5 DEF CopyFile
    <3> QED BY <3>1, <3>2, <3>3
  <2>6. ASSUME NEW S \in SUBSET File, NEW r, EndCandidate(c, i, S, r)
        PROVE  e = d /\ phase[<<c, i>>] = "running"
    <3>1. e = d
      BY <1>3, <2>1, <2>6, EndEffect
    <3> QED BY <2>6, <3>1 DEF EndCandidate
  <2>7. StartCandidate(c, i) => EnsureDir(d)
    BY <2>1 DEF StartCandidate
  <2> QED BY <1>3, <2>1, <2>2, <2>3, <2>4, <2>5, <2>6, <2>7 DEF CandidateStep
<1> QED BY <1>1, <1>2, <1>3, Steps DEF vars

-----------------------------------------------------------------------------
(* The changes of a call that has the project to itself.                   *)

LEMMA DeliveringPreserved ==
  ASSUME TypeOK, Courses, Overlaps, Delivering, [Next]_vars
  PROVE  Delivering'
<1> SUFFICES ASSUME NEW c \in Call \ overlapped', call'[c] \in {"candidates", "merging"},
                    NEW i \in Cand, NEW f \in wrote'[<<c, i>>]
             PROVE  /\ \A s \in Slot : Dir(s)' = Dir(<<c, i>>)' => f \notin left'[s]
                    /\ f \in Files(Dir(<<c, i>>))'
                    /\ worktree'[Dir(<<c, i>>)'][1][f] = <<c, i>>
                    /\ call'[c] = "merging" =>
                         /\ i = winner'[c]
                         /\ \/ c \in unwalked' \/ f \in toMerge'[c] \cup mergeErrors'[c]
                            \/ f \in DOMAIN root' /\ root'[f] = <<c, i>>
  BY DEF Delivering
<1>1. PICK e \in Place : e = Dir(<<c, i>>)
  BY DirType
<1>2. PICK x \in Slot : x = <<c, i>> /\ x[1] = c /\ x[2] = i
  BY Slots
<1> DEFINE Brought == \/ c \in unwalked \/ f \in toMerge[c] \cup mergeErrors[c]
                      \/ f \in DOMAIN root /\ root[f] = x
<1>3. nodeOf' = nodeOf /\ c \notin overlapped /\ \A s : Dir(s)' = Dir(s)
  BY Lasting DEF Dir
<1>4. SUFFICES /\ \A s \in Slot : Dir(s) = e => f \notin left'[s]
               /\ f \in Files(e)' /\ At(e, f)' = x
               /\ call'[c] = "merging" =>
                    /\ i = winner'[c]
                    /\ Brought'
  BY <1>1, <1>2, <1>3 DEF At, Files, Exists
<1>5. ASSUME NEW b \in Call, Begin(b) PROVE FALSE
  <2>1. CASE b = c
    <3>1. call[c] = "idle" /\ f \in wrote[x]
      BY <1>2, <1>5, <2>1 DEF Begin, MayBegin
    <3>2. phase[x] = "waiting" /\ phase[x] = "ended"
      BY <1>2, <3>1 DEF Courses, CallCourse, SlotCourse
    <3> QED BY <3>2
  <2>2. CASE b # c
    <3>1. call'[c] = call[c]
      BY <1>5, <2>2 DEF Begin, TypeOK
    <3> QED BY <1>5, <3>1 DEF Begin, AtWork
  <2> QED BY <2>1, <2>2
<1>6. call[c] \in {"candidates", "merging"}
  <2>1. ASSUME NEW b \in Call, CallStep(b) PROVE call[c] \in {"candidates", "merging"}
    BY <1>5, <2>1 DEF CallStep, TimeOut, Aggregate, MergeFile, Merge, MergeFails, WalkFails,
                      Return, Finish, TypeOK
  <2>2. ASSUME NEW b \in Call, NEW j \in Cand, CandidateStep(b, j)
        PROVE  call[c] \in {"candidates", "merging"}
    BY <2>2 DEF CandidateStep, StartCandidate, CandidateThrows, CopyFile, CopyMissed, CopyFails,
                EndCandidate, TypeOK
  <2> QED BY <2>1, <2>2, Steps DEF vars
<1>7. \A b \in Call : AtWork(b) => b = c
  BY <1>3, <1>6, Alone
<1>8. ASSUME NEW b \in Call, CallStep(b), ~TimeOut(b) PROVE b = c /\ ~Return(b)
  <2>1. AtWork(b)
    BY <1>5, <1>8 DEF CallStep, Aggregate, MergeFile, Merge, MergeFails, WalkFails, Return,
                      Finish, AtWork
  <2>2. b = c
    BY <1>7, <2>1
  <2> QED BY <2>2 DEF Return, Finish, TypeOK
<1>9. ASSUME NEW b \in Call, NEW j \in Cand, StartCandidate(b, j) \/ Working(<<b, j>>)
      PROVE  b = c
  BY <1>7, <1>9, StartIsWork, Busy
<1>10. CASE f \in wrote[x]
  <2>1. /\ \A s \in Slot : Dir(s) = e => f \notin left[s]
        /\ f \in Files(e) /\ At(e, f) = x
        /\ call[c] = "merging" =>
             /\ i = winner[c]
             /\ Brought
    BY <1>1, <1>2, <1>3, <1>6, <1>10 DEF Delivering, At
  <2>2. phase[x] = "ended"
    BY <1>10 DEF Courses, SlotCourse
  <2>3. ASSUME NEW b \in Call, NEW j \in Cand, b = c, Dir(<<b, j>>) = e PROVE j = i
    BY <1>1, <2>3, DirType
  <2>4. ASSUME NEW s \in Slot, Dir(s) = e PROVE f \notin left'[s]
    <3>1. left'[s] \subseteq left[s] \/ StartCandidate(s[1], s[2])
      <4>1. ASSUME NEW b \in Call, CallStep(b) PROVE left' = left
        BY <4>1 DEF CallStep, Begin, TimeOut, Aggregate, MergeFile, Merge, MergeFails,
                    WalkFails, Return, Finish
      <4>2. ASSUME NEW b \in Call, NEW j \in Cand, CandidateStep(b, j)
            PROVE  left'[s] \subseteq left[s] \/ (s = <<b, j>> /\ StartCandidate(b, j))
        <5>1. PICK y \in Slot : y = <<b, j>>
          BY Slots
        <5>2. CASE StartCandidate(b, j)
          BY <5>1, <5>2 DEF StartCandidate, TypeOK
        <5>3. CASE ~StartCandidate(b, j)
          <6>1. left' = left \/ \E g : left' = [left EXCEPT ![y] = @ \ {g}]
            BY <4>2, <5>1, <5>3 DEF CandidateStep, CandidateThrows, CopyFile, CopyMissed,
                                    CopyFails, EndCandidate
          <6> QED BY <6>1 DEF TypeOK
        <5> QED BY <5>2, <5>3
      <4>3. ASSUME NEW b \in Call, NEW j \in Cand, s = <<b, j>>, StartCandidate(b, j)
            PROVE  StartCandidate(s[1], s[2])
        BY <4>3
      <4> QED BY <4>1, <4>2, <4>3, Steps DEF vars
    <3>2. ASSUME StartCandidate(s[1], s[2]) PROVE FALSE
      <4>1. s[1] \in Call /\ s[2] \in Cand /\ s = <<s[1], s[2]>>
        BY Numbers
      <4>2. s[1] = c
        BY <1>9, <3>2, <4>1
      <4>3. s[2] = i
        BY <2>3, <2>4, <4>1, <4>2
      <4>4. phase[x] = "waiting"
        BY <1>2, <3>2, <4>2, <4>3 DEF StartCandidate
      <4> QED BY <2>2, <4>4
    <3> QED BY <2>1, <2>4, <3>1, <3>2
  <2>5. f \in Files(e)' /\ At(e, f)' = x
    <3>1. ASSUME NEW b \in Call, NEW j \in Cand, e = Dir(<<b, j>>)
          PROVE  ~(f \in left[<<b, j>>] \/ phase[<<b, j>>] = "running" \/ CandidateThrows(b, j))
      <4>1. f \notin left[<<b, j>>]
        BY <2>1, <3>1, Numbers
      <4>2. ASSUME phase[<<b, j>>] = "running" \/ CandidateThrows(b, j) PROVE FALSE
        <5>1. Working(<<b, j>>)
          BY <4>2 DEF Working, CandidateThrows
        <5>2. b = c /\ j = i
          BY <1>9, <2>3, <3>1, <5>1
        <5> QED BY <1>2, <2>2, <5>1, <5>2 DEF Working
      <4> QED BY <4>1, <4>2
    <3>2. ASSUME NEW b \in Call, Return(b) PROVE FALSE
      BY <1>8, <3>2 DEF CallStep, TimeOut, Return, Finish, TypeOK
    <3> QED BY <2>1, <3>1, <3>2, WorktreeKeeps
  <2>6. ASSUME call'[c] = "merging"
        PROVE  /\ i = winner'[c]
               /\ Brought'
    <3>1. ASSUME Aggregate(c) PROVE i = winner'[c] /\ Brought'
      <4>1. PICK w \in Best(c) :
              /\ winner' = [winner EXCEPT ![c] = w]
              /\ toMerge' = [toMerge EXCEPT ![c] = Files(Dir(<<c, w>>))]
              /\ wrote' = [s \in Slot |-> IF s[1] = c /\ s[2] # w THEN {} ELSE wrote[s]]
        BY <3>1 DEF Aggregate, Choose
      <4>2. w = i
        BY <1>2, <4>1
      <4> QED BY <1>1, <2>1, <4>1, <4>2 DEF TypeOK
    <3>2. ASSUME ~Aggregate(c) PROVE call[c] = "merging"
      <4>1. ASSUME NEW b \in Call, CallStep(b) PROVE call[c] = "merging"
        BY <2>6, <3>2, <4>1, <1>5 DEF CallStep, TimeOut, Aggregate, MergeFile, Merge,
                                      MergeFails, WalkFails, Return, Finish, TypeOK
      <4>2. ASSUME NEW b \in Call, NEW j \in Cand, CandidateStep(b, j) PROVE call[c] = "merging"
        BY <2>6, <4>2 DEF CandidateStep, StartCandidate, CandidateThrows, CopyFile, CopyMissed,
                          CopyFails, EndCandidate, TypeOK
      <4> QED BY <2>6, <4>1, <4>2, Steps DEF vars
    <3>3. ASSUME call[c] = "merging", NEW g \in File, MergeFile(c, g) \/ MergeFails(c, g)
          PROVE  Brought'
      <4>1. i = winner[c] /\ Brought
        BY <2>1, <3>3
      <4>2. PICK d \in Place :
               /\ d = Dir(<<c, winner[c]>>)
               /\ toMerge'[c] = toMerge[c] \ {g}
               /\ \A h \in DOMAIN root : h # g => h \in DOMAIN root' /\ root'[h] = root[h]
               /\ g \in mergeErrors'[c] \/ (g \in DOMAIN root' /\ root'[g] = At(d, g))
        BY <3>3, MergeEffect
      <4>3. d = e
        BY <1>1, <4>1, <4>2
      <4>4. unwalked \subseteq unwalked' /\ mergeErrors[c] \subseteq mergeErrors'[c]
        BY Lasting
      <4>5. CASE f = g
        BY <2>1, <4>2, <4>3, <4>5
      <4>6. CASE f # g
        BY <4>1, <4>2, <4>4, <4>6
      <4> QED BY <4>5, <4>6
    <3>4. ASSUME call[c] = "merging", ~\E g \in File : MergeFile(c, g) \/ MergeFails(c, g),
                 ~WalkFails(c)
          PROVE  UNCHANGED <<toMerge, mergeErrors, unwalked, root>>
      <4>1. ASSUME NEW b \in Call, CallStep(b)
            PROVE  UNCHANGED <<toMerge, mergeErrors, unwalked, root>>
        <5>1. CASE TimeOut(b)
          BY <5>1 DEF TimeOut
        <5>2. CASE ~TimeOut(b)
          <6>1. b = c /\ ~Return(b) /\ ~Aggregate(b) /\ ~Begin(b)
            BY <1>5, <1>8, <3>4, <4>1, <5>2 DEF Aggregate
          <6> QED BY <3>4, <4>1, <5>2, <6>1 DEF CallStep
        <5> QED BY <5>1, <5>2
      <4>2. ASSUME NEW b \in Call, NEW j \in Cand, CandidateStep(b, j)
            PROVE  UNCHANGED <<toMerge, mergeErrors, unwalked, root>>
        BY <4>2 DEF CandidateStep, StartCandidate, CandidateThrows, CopyFile, CopyMissed,
                    CopyFails, EndCandidate
      <4> QED BY <4>1, <4>2, Steps DEF vars
    <3>5. ASSUME WalkFails(c) PROVE Brought'
      BY <3>5 DEF WalkFails
    <3>6. CASE call[c] = "merging"
      <4>1. i = winner[c] /\ winner'[c] = winner[c]
        <5>1. i = winner[c] /\ winner[c] # 0
          BY <2>1, <3>6, Numbers
        <5> QED BY <5>1, Lasting
      <4> QED BY <2>1, <3>3, <3>4, <3>6, <3>5, <4>1
    <3> QED BY <2>1, <3>1, <3>2, <3>6
  <2> QED BY <2>4, <2>5, <2>6
<1>11. CASE f \notin wrote[x]
  <2>1. PICK S \in SUBSET File, r \in {"failure", "weak", "strong"} : EndCandidate(c, i, S, r)
    <3>1. ASSUME NEW b \in Call, CallStep(b) PROVE wrote'[x] \subseteq wrote[x]
      BY <3>1 DEF CallStep, Begin, TimeOut, Aggregate, Choose, MergeFile, Merge, MergeFails,
                  WalkFails, Return, Finish
    <3>2. ASSUME NEW b \in Call, NEW j \in Cand, CandidateStep(b, j),
                 ~\E S \in SUBSET File, r \in {"failure", "weak", "strong"} :
                    EndCandidate(b, j, S, r)
          PROVE  wrote' = wrote
      BY <3>2 DEF CandidateStep, StartCandidate, CandidateThrows, CopyFile, CopyMissed, CopyFails
    <3>3. \E b \in Call, j \in Cand, S \in SUBSET File, r \in {"failure", "weak", "strong"} :
            EndCandidate(b, j, S, r)
      BY <1>2, <1>11, <3>1, <3>2, Steps DEF vars
    <3>4. ASSUME NEW b \in Call, NEW j \in Cand, NEW S, NEW r, EndCandidate(b, j, S, r)
          PROVE  b = c /\ j = i
      BY <1>2, <1>11, <3>4 DEF EndCandidate, TypeOK
    <3> QED BY <3>3, <3>4
  <2>2. f \in S /\ Settled(Dir(<<c, i>>), f) /\ left' = left /\ call' = call
    BY <1>2, <1>11, <2>1 DEF EndCandidate, TypeOK
  <2>3. f \in Files(e)' /\ At(e, f)' = x
    BY <1>1, <1>2, <2>1, <2>2, EndEffect
  <2>4. call[c] # "merging"
    BY <2>1, Busy DEF EndCandidate, Working
  <2>5. \A s \in Slot : Dir(s) = e => f \notin left'[s]
    BY <1>1, <2>2 DEF Settled
  <2> QED BY <2>2, <2>3, <2>4, <2>5
<1> QED BY <1>10, <1>11

(* The record of a call that had returned before the step does not change. *)
LEMMA Returned ==
  ASSUME TypeOK, Courses, [Next]_vars, NEW c \in Call, call'[c] \in {"succeeded", "failed"},
         ~Return(c)
  PROVE  /\ call[c] \in {"succeeded", "failed"}
         /\ winner[c] \in Cand /\ winner'[c] = winner[c]
         /\ \A i \in Cand : wrote'[<<c, i>>] = wrote[<<c, i>>]
         /\ c \notin unwalked' => toMerge[c] = {} /\ mergeErrors'[c] = mergeErrors[c]
<1>1. call[c] \in {"succeeded", "failed"}
  <2>1. ASSUME NEW b \in Call, CallStep(b) PROVE call[c] \in {"succeeded", "failed"}
    <3>1. CASE b # c
      BY <2>1, <3>1 DEF CallStep, Begin, TimeOut, Aggregate, MergeFile, Merge, MergeFails,
                        WalkFails, Return, Finish, TypeOK
    <3>2. CASE b = c
      BY <2>1, <3>2 DEF CallStep, Begin, TimeOut, Aggregate, MergeFile, Merge, MergeFails,
                        WalkFails, TypeOK
    <3> QED BY <3>1, <3>2
  <2>2. ASSUME NEW b \in Call, NEW j \in Cand, CandidateStep(b, j)
        PROVE  call[c] \in {"succeeded", "failed"}
    BY <2>2 DEF CandidateStep, StartCandidate, CandidateThrows, CopyFile, CopyMissed, CopyFails,
                EndCandidate, TypeOK
  <2> QED BY <2>1, <2>2, Steps DEF vars
<1>2. winner[c] # 0 /\ winner[c] \in Cand
  BY <1>1 DEF Courses, CallCourse, TypeOK
<1>3. ASSUME NEW i \in Cand PROVE wrote'[<<c, i>>] = wrote[<<c, i>>]
  <2>1. PICK x \in Slot : x = <<c, i>> /\ x[1] = c
    BY Slots
  <2>2. phase[x] = "ended"
    BY <1>2, <2>1 DEF Courses, CallCourse
  <2>3. ASSUME NEW b \in Call, CallStep(b) PROVE wrote'[x] = wrote[x]
    BY <1>1, <2>1, <2>3 DEF CallStep, Begin, TimeOut, Aggregate, Choose, MergeFile, Merge,
                            MergeFails, WalkFails, Return, Finish
  <2>4. ASSUME NEW b \in Call, NEW j \in Cand, CandidateStep(b, j) PROVE wrote'[x] = wrote[x]
    BY <2>1, <2>2, <2>4 DEF CandidateStep, StartCandidate, CandidateThrows, CopyFile, CopyMissed,
                            CopyFails, EndCandidate, TypeOK
  <2> QED BY <2>1, <2>3, <2>4, Steps DEF vars
<1>4. ASSUME c \notin unwalked' PROVE toMerge[c] = {} /\ mergeErrors'[c] = mergeErrors[c]
  <2>1. toMerge[c] = {}
    BY <1>1, <1>4, Lasting DEF Courses, CallCourse
  <2>2. ASSUME NEW b \in Call, CallStep(b) PROVE mergeErrors'[c] = mergeErrors[c]
    BY <2>1, <2>2 DEF CallStep, Begin, TimeOut, Aggregate, MergeFile, Merge, MergeFails, WalkFails,
                      Return, Finish, TypeOK
  <2>3. ASSUME NEW b \in Call, NEW j \in Cand, CandidateStep(b, j)
        PROVE  mergeErrors'[c] = mergeErrors[c]
    BY <2>3 DEF CandidateStep, StartCandidate, CandidateThrows, CopyFile, CopyMissed, CopyFails,
                EndCandidate
  <2> QED BY <2>1, <2>2, <2>3, Steps DEF vars
<1> QED BY <1>1, <1>2, <1>3, <1>4, Lasting

(* A call that had the project to itself was over before any later call    *)
(* began, and after any earlier one.                                       *)
LEMMA NoneEarlier ==
  ASSUME TypeOK, Courses, Overlaps, NEW c \in Call \ overlapped, call[c] # "idle",
         NEW b \in Call, AtWork(b)
  PROVE  b >= c
BY Numbers DEF Overlaps

LEMMA DeliveredPreserved ==
  ASSUME TypeOK, Courses, Overlaps, Delivering, DeliveredStays, Fresh, [Next]_vars
  PROVE  DeliveredStays'
<1> SUFFICES ASSUME NEW c \in Call \ (overlapped' \cup unwalked'),
                    call'[c] \in {"succeeded", "failed"},
                    NEW f \in wrote'[<<c, winner'[c]>>] \ mergeErrors'[c]
             PROVE  Undone(c, f)' \/ (f \in DOMAIN root' /\ root'[f][1] >= c)
  BY DEF DeliveredStays
<1>1. c \notin overlapped \cup unwalked /\ f \notin mergeErrors[c]
  BY Lasting
<1>2. CASE Return(c)
  <2>1. /\ call[c] = "merging" /\ toMerge[c] = {}
        /\ root' = root /\ wrote' = wrote /\ winner' = winner
    BY <1>1, <1>2 DEF Return, Finish
  <2>2. winner[c] \in Cand
    BY <2>1 DEF Courses, CallCourse, TypeOK
  <2>3. f \in DOMAIN root /\ root[f] = <<c, winner[c]>>
    BY <1>1, <2>1, <2>2 DEF Delivering
  <2> QED BY <2>1, <2>3, Numbers
<1>3. CASE ~Return(c)
  <2>1. /\ call[c] \in {"succeeded", "failed"} /\ toMerge[c] = {}
        /\ winner[c] \in Cand /\ winner'[c] = winner[c]
        /\ f \in wrote[<<c, winner[c]>>]
    BY <1>3, Returned
  <2>2. Undone(c, f) \/ (f \in DOMAIN root /\ root[f][1] >= c)
    BY <1>1, <2>1 DEF DeliveredStays
  <2>3. CASE Undone(c, f)
    BY <2>3, LastingClaims
  <2>4. CASE root' = root
    BY <2>2, <2>3, <2>4
  <2>5. ASSUME NEW b \in Call, NEW g \in File, MergeFile(b, g) \/ MergeFails(b, g),
               ~Undone(c, f)
        PROVE  Undone(c, f)' \/ (f \in DOMAIN root' /\ root'[f][1] >= c)
    <3>1. PICK d \in Place :
             /\ d = Dir(<<b, winner[b]>>) /\ winner[b] \in Cand /\ g \in toMerge[b]
             /\ \A h \in DOMAIN root : h # g => h \in DOMAIN root' /\ root'[h] = root[h]
             /\ \/ g \in mergeErrors'[b]
                \/ g \in DOMAIN root' /\ g \in Files(d) /\ root'[g] = At(d, g)
      BY <2>5, MergeEffect
    <3>2. AtWork(b) /\ winner[b] # 0 /\ toMerge[b] # {}
      BY <3>1, Numbers DEF AtWork
    <3>3. c < b
      <4>1. b >= c /\ b # c
        BY <1>1, <2>1, <3>2, NoneEarlier
      <4> QED BY <4>1, Numbers
    <3>4. CASE f # g
      BY <2>2, <2>5, <3>1, <3>4
    <3>5. CASE f \in mergeErrors'[b]
      BY <3>3, <3>5 DEF Undone
    <3>6. CASE f = g /\ f \in DOMAIN root' /\ f \in Files(d) /\ root'[f] = At(d, f)
      <4>1. b \notin stale
        BY <2>5, <3>2, <3>3 DEF Undone
      <4>2. PICK y \in Slot : y = <<b, winner[b]>> /\ y[1] = b
        BY <3>1, Slots
      <4>3. phase[y] = "ended"
        BY <3>1, <3>2, <4>2 DEF Courses, CallCourse
      <4>4. At(d, f)[1] >= c
        BY <1>1, <2>1, <2>5, <3>1, <3>2, <3>3, <3>6, <4>1, <4>2, <4>3 DEF Fresh, At
      <4> QED BY <3>6, <4>4
    <3> QED BY <3>1, <3>4, <3>5, <3>6
  <2>6. CASE root' # root
    BY <2>3, <2>5, <2>6, RootStep
  <2> QED BY <2>4, <2>6
<1> QED BY <1>2, <1>3

LEMMA FreshPreserved ==
  ASSUME TypeOK, Courses, Overlaps, DeliveredStays, Fresh, [Next]_vars
  PROVE  Fresh'
<1> SUFFICES ASSUME NEW c \in Call, NEW d \in Call, c < d,
                    c \notin overlapped' \cup unwalked', d \notin stale',
                    call'[c] \in {"succeeded", "failed"},
                    call'[d] \in {"candidates", "merging"} \/ toMerge'[d] # {},
                    NEW i \in Cand, NEW f \in wrote'[<<c, winner'[c]>>] \ mergeErrors'[c],
                    f \in Files(Dir(<<d, i>>))', phase'[<<d, i>>] # "waiting",
                    ~(phase'[<<d, i>>] = "copying" /\ f \in left'[<<d, i>>])
             PROVE  worktree'[Dir(<<d, i>>)'][1][f][1] >= c \/ Undone(c, f)'
  BY DEF Fresh
<1>1. PICK e \in Place : e = Dir(<<d, i>>)
  BY DirType
<1>2. PICK x \in Slot : x = <<d, i>> /\ x[1] = d
  BY Slots
<1>3. /\ c \notin overlapped \cup unwalked /\ d \notin stale /\ f \notin mergeErrors[c]
      /\ Dir(<<d, i>>)' = Dir(<<d, i>>)
  BY Lasting DEF Dir
<1>4. f \in Files(e)'
  BY <1>1, <1>3 DEF Files, Exists
<1>5. SUFFICES ASSUME ~Undone(c, f) PROVE At(e, f)'[1] >= c
  BY <1>1, <1>3, LastingClaims DEF At
<1>6. ~Return(c)
  <2>1. SUFFICES ASSUME Return(c) PROVE FALSE
    OBVIOUS
  <2>2. call[c] = "merging" /\ call[d] = call'[d] /\ toMerge'[d] = toMerge[d]
    BY <1>5, <2>1, Numbers DEF Return, Finish, TypeOK
  <2>3. AtWork(c) /\ AtWork(d) /\ call[d] # "idle"
    BY <2>2, WorkingCall DEF AtWork
  <2> QED BY <1>3, <2>3 DEF Overlaps
<1>7. /\ call[c] \in {"succeeded", "failed"}
      /\ winner[c] \in Cand /\ f \in wrote[<<c, winner[c]>>]
  BY <1>6, Returned
<1>8. f \in DOMAIN root /\ root[f][1] >= c
  BY <1>3, <1>5, <1>7 DEF DeliveredStays
<1>9. ASSUME NEW b \in Call, NEW j \in Cand, At(e, f)' = <<b, j>>, phase[<<b, j>>] = "running"
      PROVE  At(e, f)'[1] >= c
  <2>1. AtWork(b)
    BY <1>9, Busy DEF Working
  <2> QED BY <1>3, <1>7, <1>9, <2>1, NoneEarlier
<1>10. CASE f \in Files(e) /\ At(e, f)' = At(e, f)
  <2>1. call[d] \in {"candidates", "merging"} \/ toMerge[d] # {}
    <3>1. ASSUME Begin(d) PROVE FALSE
      BY <1>2, <3>1 DEF Begin, MayBegin, Courses, CallCourse
    <3>2. ASSUME NEW b \in Call, CallStep(b)
          PROVE  call[d] \in {"candidates", "merging"} \/ toMerge[d] # {}
      <4>1. CASE b # d
        <5>1. call'[d] = call[d] /\ toMerge'[d] = toMerge[d]
          BY <3>2, <4>1 DEF CallStep, Begin, TimeOut, Aggregate, Choose, MergeFile, Merge,
                            MergeFails, WalkFails, Return, Finish, TypeOK
        <5> QED BY <5>1
      <4>2. CASE b = d
        BY <3>1, <3>2, <4>2 DEF CallStep, TimeOut, Aggregate, MergeFile, Merge, MergeFails,
                                WalkFails, Return, Finish, TypeOK
      <4> QED BY <4>1, <4>2
    <3>3. ASSUME NEW b \in Call, NEW j \in Cand, CandidateStep(b, j)
          PROVE  call[d] \in {"candidates", "merging"} \/ toMerge[d] # {}
      BY <3>3 DEF CandidateStep, StartCandidate, CandidateThrows, CopyFile, CopyMissed, CopyFails,
                  EndCandidate, TypeOK
    <3> QED BY <3>2, <3>3, Steps DEF vars
  <2>2. CASE phase[x] # "waiting" /\ ~(phase[x] = "copying" /\ f \in left[x])
    BY <1>1, <1>2, <1>3, <1>5, <1>7, <1>10, <2>1, <2>2 DEF Fresh, At
  <2>3. ASSUME phase[x] = "waiting" \/ (phase[x] = "copying" /\ f \in left[x])
        PROVE  CandidateStep(d, i)
    <3>1. phase'[x] # phase[x] \/ left'[x] # left[x]
      BY <1>2, <2>3
    <3>2. ASSUME NEW b \in Call, CallStep(b) PROVE FALSE
      BY <3>1, <3>2 DEF CallStep, Begin, TimeOut, Aggregate, MergeFile, Merge, MergeFails,
                        WalkFails, Return, Finish
    <3>3. ASSUME NEW b \in Call, NEW j \in Cand, CandidateStep(b, j) PROVE b = d /\ j = i
      BY <1>2, <3>1, <3>3
         DEF CandidateStep, StartCandidate, CandidateThrows, CopyFile, CopyMissed, CopyFails,
             EndCandidate, TypeOK
    <3> QED BY <3>1, <3>2, <3>3, Steps DEF vars
  <2>4. CASE phase[x] = "waiting"
    <3>1. left[x] = {}
      BY <2>4 DEF Courses, SlotCourse
    <3>2. StartCandidate(d, i)
      BY <1>2, <2>3, <2>4, <3>1 DEF CandidateStep, CandidateThrows, CopyFile, CopyMissed, CopyFails,
                                    EndCandidate
    <3> QED BY <1>2, <1>8, <3>2 DEF StartCandidate, Copying, TypeOK
  <2>5. CASE phase[x] = "copying" /\ f \in left[x]
    <3>1. \/ CandidateThrows(d, i)
          \/ \E g \in File : CopyFile(d, i, g) \/ CopyFails(d, i, g)
      BY <1>2, <2>3, <2>5 DEF CandidateStep, StartCandidate, CopyMissed, EndCandidate
    <3>2. ASSUME CandidateThrows(d, i) PROVE FALSE
      <4>1. winner[d] = 0 /\ toMerge'[d] = toMerge[d]
        BY <3>2, Busy DEF CandidateThrows, Working
      <4>2. call'[d] = "rejected" /\ toMerge[d] = {}
        BY <3>2, <4>1 DEF CandidateThrows, TypeOK, Courses, CallCourse
      <4> QED BY <4>1, <4>2
    <3>3. ASSUME NEW g \in File, CopyFile(d, i, g) PROVE At(e, f)' = root[f]
      <4>1. ASSUME g # f PROVE FALSE
        <5>1. f \in left'[x] /\ left[x] \ {g} # {}
          BY <1>2, <2>5, <3>3, <4>1 DEF CopyFile, TypeOK
        <5>2. phase'[x] = "copying"
          BY <1>2, <2>5, <3>3, <5>1 DEF CopyFile, Copying, TypeOK
        <5> QED BY <1>2, <5>1, <5>2
      <4> QED BY <1>1, <3>3, <4>1, CopyFileEffect
    <3>4. ASSUME NEW g \in File, CopyFails(d, i, g) PROVE FALSE
      BY <1>1, <1>2, <1>10, <2>5, <3>4 DEF CopyFails
    <3> QED BY <1>8, <3>1, <3>2, <3>3, <3>4
  <2> QED BY <2>2, <2>4, <2>5
<1> QED BY <1>4, <1>8, <1>9, <1>10, WorktreeStep

-----------------------------------------------------------------------------
(* The invariant and what follows from it.                                 *)

(* The inductive invariant of the runner holds in every reachable state.   *)
THEOREM EnsembleInvariance == Spec => []EnsembleInv
<1>1. EnsembleInv /\ [Next]_vars => EnsembleInv'
  <2> SUFFICES ASSUME EnsembleInv, [Next]_vars PROVE EnsembleInv'
    OBVIOUS
  <2>1. TypeOK /\ Courses /\ Overlaps /\ Owned /\ OnlyWinnersReachRoot /\ Traced
        /\ Delivering /\ DeliveredStays /\ Fresh
    BY DEF EnsembleInv
  <2>2. TypeOK' /\ Courses' /\ Overlaps' /\ Owned'
    BY <2>1, TypePreserved, CoursesPreserved, OverlapsPreserved, OwnedPreserved
  <2>3. OnlyWinnersReachRoot' /\ Traced'
    BY <2>1, RootEarned, TracedPreserved
  <2>4. Delivering' /\ DeliveredStays' /\ Fresh'
    BY <2>1, DeliveringPreserved, DeliveredPreserved, FreshPreserved
  <2> QED BY <2>2, <2>3, <2>4 DEF EnsembleInv
<1> QED BY InitEnsemble, <1>1, PTL DEF Spec

(* What is in the project was there before or is the work of a winner; the *)
(* work of another candidate arrives only through a directory that another *)
(* call of its node merged: one of the two was given up, or the directory  *)
(* could not be removed, or the merge went on after its call had returned. *)
THEOREM WinnersOnly == Spec => []OnlyWinnersReachRoot
<1>1. EnsembleInv => OnlyWinnersReachRoot
  BY DEF EnsembleInv
<1> QED BY EnsembleInvariance, <1>1, PTL

(* The changes of a call that had the project to itself are delivered and  *)
(* stay, or give way to later ones: whatever copies fail, into a worktree  *)
(* or into the project, unless an error is reported for the file or for    *)
(* the walk.                                                               *)
THEOREM DeliveriesStay == Spec => []DeliveredStays
<1>1. EnsembleInv => DeliveredStays
  BY DEF EnsembleInv
<1> QED BY EnsembleInvariance, <1>1, PTL

(* Two candidates work in one directory only when the earlier call was     *)
(* given up: MayBegin lets no other call of the node start.                *)
THEOREM SharingIsForced == Spec => []SharedOnlyWhenGivenUp
<1>1. EnsembleInv => SharedOnlyWhenGivenUp
  <2> SUFFICES ASSUME TypeOK, Courses, NEW s \in Slot, NEW t \in Slot, s[1] < t[1],
                      Working(s), Working(t), Dir(s) = Dir(t)
               PROVE  GivenUp(s[1])
    BY DEF EnsembleInv, SharedOnlyWhenGivenUp
  <2>1. /\ s = <<s[1], s[2]>> /\ s[1] \in Call /\ s[2] \in Cand
        /\ t = <<t[1], t[2]>> /\ t[1] \in Call /\ t[2] \in Cand
    BY Numbers
  <2>2. nodeOf[s[1]] = nodeOf[t[1]]
    BY DirType
  <2>3. call[s[1]] # "failed" /\ call[t[1]] # "idle"
    BY <2>1, Busy
  <2>4. s[1] \in 1 .. t[1] - 1
    BY <2>1, EnsembleAssumption DEF Call
  <2> QED BY <2>1, <2>2, <2>3, <2>4 DEF Courses, CallCourse
<1> QED BY EnsembleInvariance, <1>1, PTL

(* When every call has returned, and no failed copy left others under way, *)
(* the worktrees left are those whose removal failed.                      *)
THEOREM WorktreesRemoved == Spec => []NoWorktreeLeft
<1>1. EnsembleInv => NoWorktreeLeft
  BY DEF EnsembleInv, Owned, NoWorktreeLeft
<1> QED BY EnsembleInvariance, <1>1, PTL
=============================================================================
