------------------------- MODULE UploadChecks_proofs -------------------------
(***************************************************************************)
(* Proofs about what an upload goes through before its source is read,     *)
(* each for every input and every limit: the extraction of the archive,    *)
(* the guard and the loader of the specification, and its normaliser.      *)
(***************************************************************************)
EXTENDS ArchiveExtraction, SpecificationGuard, SpecificationNormalizer, DataLemmas,
        FiniteSetTheorems

-----------------------------------------------------------------------------
(* The archive: the bytes on disk stay within the budgets, and what is     *)
(* accepted is on disk as it was delivered.  The specification: what the   *)
(* guard admits is closed, acyclic and without a bad reference, so that    *)
(* the loader's recursion over it never holds a container twice, and       *)
(* nothing is refused without a cause.                                     *)

Steps == {"upload", "members", "reading", "finally", "over"}

ArchiveTyped ==
    /\ archive \in Archives
    /\ step \in Steps /\ outcome \in Outcomes
    /\ member \in 0 .. Len(archive.members)
    /\ actualTotal \in Nat /\ memberBytes \in Nat
    /\ files = [path \in DOMAIN files |-> files[path]]
    /\ DOMAIN files \subseteq Paths \ {TempZip} /\ IsFiniteSet(DOMAIN files)
    /\ directories \subseteq Paths
    /\ \A path \in DOMAIN files : files[path] \in Nat
    /\ delivered \in [DOMAIN archive.members -> Nat]

(* Member i is the last of the first k that names the place, and a file.   *)
IsLast(path, i, k) ==
    /\ archive.members[i].target = path /\ ~archive.members[i].dir
    /\ \A j \in i + 1 .. k : archive.members[j].target # path

Kept(path, k) == \E i \in 1 .. k : IsLast(path, i, k) /\ files[path] = delivered[i]

(* The files are those of the first k members, as they were delivered.     *)
OnDisk(k) ==
    /\ \A path \in DOMAIN files : Kept(path, k)
    /\ \A i \in 1 .. k : ~archive.members[i].dir /\ archive.members[i].target # TempZip
                         => archive.members[i].target \in DOMAIN files

(* Where the function is, and what that says of the member and the end.    *)
StageInv ==
    /\ step \in {"upload", "members", "reading"} => outcome = "none"
    /\ step = "upload" => member = 0 /\ DOMAIN files = {} /\ zipOnDisk = "absent" /\ actualTotal = 0
    /\ step = "reading" => /\ member > 0 /\ ~CurrentMember.dir
                           /\ CurrentMember.target \in Paths
                           /\ delivered[member] = memberBytes
                           /\ memberBytes <= MaxSingle
    /\ step \in {"members", "reading"} => Len(archive.members) <= MaxFiles
    /\ outcome = "accepted" => member = Len(archive.members) /\ Len(archive.members) <= MaxFiles
    /\ step = "over" => zipOnDisk = "absent" \/ archive.stuck

(* Every byte on disk was counted, until the function has given up.        *)
BudgetInv ==
    /\ IsFiniteSet(Stored) /\ Cardinality(Stored) <= MaxTotal
    /\ \A path \in DOMAIN files : files[path] <= MaxSingle
    /\ step \in {"upload", "members", "reading"} =>
          Cardinality(Stored) <= actualTotal /\ actualTotal <= MaxTotal

ContentInv ==
    /\ step \in {"upload", "members", "reading"} \/ outcome = "accepted" => OnDisk(member)
    /\ step \in {"upload", "members", "reading"} =>
          \A i \in member + 1 .. Len(archive.members) : delivered[i] = 0

(* The inductive invariant of the extraction.                              *)
ExtractionInv == ArchiveTyped /\ StageInv /\ BudgetInv /\ ContentInv
-----------------------------------------------------------------------------
(* What an archive and a place in it are.                                  *)
LEMMA ArchiveShape ==
    ASSUME ArchiveTyped
    PROVE  /\ Len(archive.members) \in Nat
           /\ DOMAIN archive.members = 1 .. Len(archive.members)
           /\ \A i \in 1 .. Len(archive.members) :
                 /\ archive.members[i].target \in Paths \cup {Outside}
                 /\ archive.members[i].dir \in BOOLEAN
           /\ archive.large \in BOOLEAN /\ archive.zip \in BOOLEAN /\ archive.stuck \in BOOLEAN
           /\ member \in Nat
<1>1. archive \in [large : BOOLEAN, zip : BOOLEAN, stuck : BOOLEAN, members : Seq(Member)]
  BY ArchiveAssumption DEF ArchiveTyped
<1>2. archive.members \in Seq(Member)
  BY <1>1
<1>3. Len(archive.members) \in Nat /\ DOMAIN archive.members = 1 .. Len(archive.members)
  BY <1>2
<1>4. \A i \in 1 .. Len(archive.members) : archive.members[i] \in Member
  BY <1>2
<1>5. member \in Nat
  BY <1>3 DEF ArchiveTyped
<1> QED  BY <1>1, <1>3, <1>4, <1>5 DEF Member

(* A place below dest_dir needs only places below dest_dir.                *)
LEMMA AncestorsBelow ==
    ASSUME NEW path \in Paths
    PROVE  Ancestors(path) \subseteq Paths
  BY ArchiveAssumption DEF Ancestors

(* A step that leaves the disk and its history alone.                      *)
LEMMA DiskUntouched ==
    ASSUME UNCHANGED <<archive, files, delivered>>
    PROVE  Stored' = Stored /\ \A k : OnDisk(k)' = OnDisk(k)
  BY DEF Stored, OnDisk, Kept, IsLast

-----------------------------------------------------------------------------
LEMMA ExtractionStarts == ArchiveInit => ExtractionInv
<1> SUFFICES ASSUME ArchiveInit PROVE ExtractionInv
  OBVIOUS
<1>1. archive \in [large : BOOLEAN, zip : BOOLEAN, stuck : BOOLEAN, members : Seq(Member)]
  BY ArchiveAssumption DEF ArchiveInit
<1>2. Len(archive.members) \in Nat /\ DOMAIN archive.members = 1 .. Len(archive.members)
  BY <1>1
<1>3. DOMAIN files = {}
  BY DEF ArchiveInit
<1>4. IsFiniteSet(DOMAIN files)
  BY <1>3, FS_EmptySet
<1>5. files = [path \in DOMAIN files |-> files[path]]
  <2>1. files = <<>>  BY DEF ArchiveInit
  <2> QED  BY <2>1
<1>6. ArchiveTyped
  BY <1>2, <1>3, <1>4, <1>5 DEF ArchiveInit, ArchiveTyped, Steps, Outcomes
<1>7. StageInv
  BY <1>3 DEF ArchiveInit, StageInv
<1>8. BudgetInv
  <2>1. Stored = {}  BY <1>3 DEF Stored
  <2>2. IsFiniteSet(Stored) /\ Cardinality(Stored) = 0  BY <2>1, FS_EmptySet
  <2> QED  BY <1>3, <2>2, ArchiveAssumption DEF ArchiveInit, BudgetInv
<1>9. ContentInv
  BY <1>2, <1>3 DEF ArchiveInit, ContentInv, OnDisk
<1> QED  BY <1>6, <1>7, <1>8, <1>9 DEF ExtractionInv

-----------------------------------------------------------------------------
LEMMA CheckArchiveKeeps == ASSUME ExtractionInv, CheckArchive PROVE ExtractionInv'
<1> USE DEF ExtractionInv
<1>1. UNCHANGED <<archive, member, declaredTotal, actualTotal, memberBytes, files, directories, delivered>>
  BY DEF CheckArchive
<1>2. Stored' = Stored /\ OnDisk(member)' = OnDisk(member)
  <2>1. \A k : OnDisk(k)' = OnDisk(k)  BY <1>1, DiskUntouched
  <2> QED  BY <1>1, <2>1, DiskUntouched DEF OnDisk, Kept, IsLast
<1>3. step = "upload" /\ outcome = "none" /\ zipOnDisk = "absent"
  BY DEF CheckArchive, StageInv
<1>4. \/ step' = "over" /\ outcome' = "refused" /\ zipOnDisk' = "absent"
      \/ step' = "finally" /\ outcome' = "refused"
      \/ step' = "members" /\ outcome' = "none" /\ Len(archive.members) <= MaxFiles
  <2>0. Len(archive.members) \in Nat  BY ArchiveShape
  <2>1. archive.large => step' = "over" /\ outcome' = "refused" /\ zipOnDisk' = "absent"
    BY <1>3 DEF CheckArchive
  <2>2. ~archive.large /\ (~archive.zip \/ Len(archive.members) > MaxFiles)
        => step' = "finally" /\ outcome' = "refused"
    BY DEF CheckArchive, Raise
  <2>3. ~archive.large /\ archive.zip /\ ~(Len(archive.members) > MaxFiles)
        => step' = "members" /\ outcome' = "none"
    BY <1>3 DEF CheckArchive
  <2> QED  BY <2>0, <2>1, <2>2, <2>3, ArchiveShape, ArchiveAssumption
<1>5. ArchiveTyped'
  BY <1>1, <1>4 DEF ArchiveTyped, Steps, Outcomes
<1>6. StageInv'
  BY <1>1, <1>3, <1>4 DEF StageInv
<1>7. BudgetInv'
  BY <1>1, <1>2, <1>3, <1>4 DEF BudgetInv
<1>8. ContentInv'
  BY <1>1, <1>2, <1>3, <1>4 DEF ContentInv
<1> QED  BY <1>5, <1>6, <1>7, <1>8

(* The steps that only end the member, the loop or the function.           *)
LEMMA EndsKeep ==
    ASSUME ExtractionInv, EndOfMember \/ ReadFails \/ AllWritten \/ RemoveZip
    PROVE  ExtractionInv'
<1> USE DEF ExtractionInv
<1>1. UNCHANGED <<archive, member, actualTotal, memberBytes, files, directories, delivered>>
  BY DEF EndOfMember, ReadFails, AllWritten, RemoveZip
<1>2. Stored' = Stored /\ OnDisk(member)' = OnDisk(member)
  <2>1. \A k : OnDisk(k)' = OnDisk(k)  BY <1>1, DiskUntouched
  <2> QED  BY <1>1, <2>1, DiskUntouched DEF OnDisk, Kept, IsLast
<1>3. \/ step = "reading" /\ step' = "members" /\ outcome' = outcome
      \/ step = "reading" /\ step' = "finally" /\ outcome' = "failed"
      \/ step = "members" /\ member = Len(archive.members) /\ step' = "finally" /\ outcome' = "accepted"
      \/ step = "finally" /\ step' = "over" /\ outcome' = outcome /\ (zipOnDisk' = "absent" \/ archive.stuck)
  BY DEF EndOfMember, ReadFails, AllWritten, RemoveZip, Raise
<1>4. ArchiveTyped'
  BY <1>1, <1>3 DEF ArchiveTyped, Steps, Outcomes
<1>5. StageInv'
  BY <1>1, <1>3 DEF StageInv
<1>6. BudgetInv'
  BY <1>1, <1>2, <1>3 DEF BudgetInv
<1>7. ContentInv'
  BY <1>1, <1>2, <1>3 DEF ContentInv, StageInv
<1> QED  BY <1>4, <1>5, <1>6, <1>7

-----------------------------------------------------------------------------
(* The file of the current member holds what the member has delivered.     *)
LEMMA CurrentFile ==
    ASSUME ExtractionInv, step = "reading", CurrentMember.target \in DOMAIN files
    PROVE  files[CurrentMember.target] = memberBytes
<1>1. OnDisk(member) /\ member \in Nat /\ delivered[member] = memberBytes
  BY ArchiveShape DEF ExtractionInv, ContentInv, StageInv
<1>2. PICK i \in 1 .. member : IsLast(CurrentMember.target, i, member)
                               /\ files[CurrentMember.target] = delivered[i]
  BY <1>1 DEF OnDisk, Kept
<1>3. i = member
  BY <1>1, <1>2 DEF IsLast, CurrentMember
<1> QED  BY <1>1, <1>2, <1>3

LEMMA ChunkKeeps == ASSUME ExtractionInv, NEW n \in 1 .. ChunkBytes, ReadChunk(n) PROVE ExtractionInv'
<1> USE DEF ExtractionInv
<1>0. n \in Nat
  OBVIOUS
<1>1. /\ step = "reading" /\ outcome = "none"
      /\ UNCHANGED <<archive, member, declaredTotal, directories, zipOnDisk>>
      /\ memberBytes' = memberBytes + n /\ actualTotal' = actualTotal + n
      /\ delivered' = [delivered EXCEPT ![member] = @ + n]
  BY DEF ReadChunk, StageInv
<1>2. /\ member \in 1 .. Len(archive.members) /\ Len(archive.members) \in Nat
      /\ delivered \in [1 .. Len(archive.members) -> Nat]
      /\ delivered[member] = memberBytes /\ memberBytes \in Nat /\ actualTotal \in Nat
  BY <1>1, ArchiveShape DEF ArchiveTyped, StageInv
<1>3. /\ delivered' \in [DOMAIN archive.members -> Nat]
      /\ delivered'[member] = memberBytes'
      /\ \A i \in 1 .. Len(archive.members) : i # member => delivered'[i] = delivered[i]
  <2>1. DOMAIN archive.members = 1 .. Len(archive.members)
    BY ArchiveShape
  <2>2. PICK M : M = 1 .. Len(archive.members)
    OBVIOUS
  <2>3. delivered \in [M -> Nat] /\ member \in M /\ delivered[member] + n \in Nat
    BY <1>0, <1>2, <2>2
  <2>4. /\ delivered' \in [M -> Nat] /\ delivered'[member] = delivered[member] + n
        /\ \A i \in M : i # member => delivered'[i] = delivered[i]
    BY <1>1, <2>3
  <2> QED  BY <1>1, <1>2, <2>1, <2>2, <2>4
<1>4. CASE memberBytes' > MaxSingle \/ actualTotal' > MaxTotal
  <2>1. step' = "finally" /\ outcome' = "refused" /\ files' = files
    BY <1>4 DEF ReadChunk, Raise
  <2>2. Stored' = Stored
    BY <2>1 DEF Stored
  <2>3. ArchiveTyped'
    BY <1>0, <1>1, <1>2, <1>3, <2>1 DEF ArchiveTyped, Steps, Outcomes
  <2>4. StageInv'
    BY <1>1, <2>1 DEF StageInv
  <2>5. BudgetInv' /\ ContentInv'
    BY <2>1, <2>2 DEF BudgetInv, ContentInv
  <2> QED  BY <2>3, <2>4, <2>5
<1>5. CASE ~(memberBytes' > MaxSingle \/ actualTotal' > MaxTotal)
  <2> DEFINE t == CurrentMember.target
  <2>1. files' = Written(n) /\ step' = step /\ outcome' = outcome
    BY <1>5 DEF ReadChunk
  <2>2. memberBytes' <= MaxSingle /\ actualTotal' <= MaxTotal /\ memberBytes' \in Nat /\ actualTotal' \in Nat
    BY <1>0, <1>1, <1>2, <1>5, ArchiveAssumption
  <2>3. /\ files' = [path \in DOMAIN files |-> files[path] + (IF path = t THEN n ELSE 0)]
        /\ \A path \in DOMAIN files : files[path] \in Nat
    BY <2>1 DEF Written, ArchiveTyped
  <2>4. /\ DOMAIN files' = DOMAIN files
        /\ \A path \in DOMAIN files : path # t => files'[path] = files[path]
        /\ t \in DOMAIN files => files'[t] = files[t] + n
    BY <1>0, <2>3
  <2>5. t \in DOMAIN files => files[t] = memberBytes /\ files'[t] = memberBytes'
    BY <1>1, <2>4, CurrentFile
  <2>6. CurrentMember' = CurrentMember
    BY <1>1 DEF CurrentMember
  <2> HIDE DEF t
  <2>7. ArchiveTyped'
    <3>1. \A path \in DOMAIN files' : files'[path] \in Nat
      BY <2>2, <2>3, <2>4, <2>5
    <3>2. files' = [path \in DOMAIN files' |-> files'[path]]
      BY <2>3
    <3> QED  BY <1>0, <1>1, <1>2, <1>3, <2>1, <2>2, <2>4, <3>1, <3>2 DEF ArchiveTyped
  <2>8. StageInv'
    BY <1>1, <1>3, <2>1, <2>2, <2>6 DEF StageInv
  <2>9. Stored' \subseteq Stored \cup ({t} \X (memberBytes + 1 .. memberBytes + n))
    <3> SUFFICES ASSUME NEW path \in DOMAIN files', NEW i \in 1 .. files'[path]
                 PROVE  <<path, i>> \in Stored \cup ({t} \X (memberBytes + 1 .. memberBytes + n))
      BY DEF Stored
    <3>1. path \in DOMAIN files /\ files[path] \in Nat
      BY <2>3, <2>4
    <3>2. CASE path # t
      <4>1. i \in 1 .. files[path]  BY <2>4, <3>1, <3>2
      <4> QED  BY <3>1, <4>1 DEF Stored
    <3>3. CASE path = t
      <4>1. files[t] = memberBytes /\ files'[t] = memberBytes + n
        BY <1>1, <2>5, <3>1, <3>3
      <4>2. i \in 1 .. memberBytes \/ i \in memberBytes + 1 .. memberBytes + n
        BY <1>0, <1>2, <3>3, <4>1
      <4>3. CASE i \in 1 .. memberBytes
        BY <3>1, <3>3, <4>1, <4>3 DEF Stored
      <4> QED  BY <3>3, <4>2, <4>3
    <3> QED  BY <3>2, <3>3
  <2>10. BudgetInv'
    <3>1. IsFiniteSet(Stored)
      BY DEF BudgetInv
    <3>2. IsFiniteSet(Stored') /\ Cardinality(Stored') <= Cardinality(Stored) + n
      BY <1>0, <1>2, <2>9, <3>1, AddBytes
    <3>3. Cardinality(Stored') \in Nat /\ Cardinality(Stored) \in Nat
      BY <3>1, <3>2, FS_CardinalityType
    <3>4. Cardinality(Stored') <= actualTotal' /\ actualTotal' <= MaxTotal
      BY <1>0, <1>1, <1>2, <2>2, <3>2, <3>3 DEF BudgetInv
    <3>5. Cardinality(Stored') <= MaxTotal
      BY <2>2, <3>3, <3>4, ArchiveAssumption
    <3>6. \A path \in DOMAIN files' : files'[path] <= MaxSingle
      BY <2>2, <2>4, <2>5 DEF BudgetInv
    <3> QED  BY <3>2, <3>4, <3>5, <3>6 DEF BudgetInv
  <2>11. OnDisk(member)'
    <3>1. OnDisk(member)
      BY <1>1 DEF ContentInv
    <3>2. ASSUME NEW path \in DOMAIN files' PROVE Kept(path, member)'
      <4>1. PICK i \in 1 .. member : IsLast(path, i, member) /\ files[path] = delivered[i]
        BY <2>4, <3>1, <3>2 DEF OnDisk, Kept
      <4>2. IsLast(path, i, member)'
        BY <1>1, <4>1 DEF IsLast
      <4>3. CASE path = t
        <5>1. i = member
          BY <1>2, <4>1, <4>3 DEF IsLast, CurrentMember, t
        <5> QED  BY <1>1, <1>3, <2>4, <2>5, <3>2, <4>1, <4>2, <4>3, <5>1 DEF Kept
      <4>4. CASE path # t
        <5>1. i # member
          BY <4>1, <4>4 DEF IsLast, CurrentMember, t
        <5>2. delivered'[i] = delivered[i] /\ files'[path] = files[path]
          BY <1>2, <1>3, <2>4, <3>2, <4>1, <4>4, <5>1
        <5> QED  BY <1>1, <4>1, <4>2, <5>2 DEF Kept
      <4> QED  BY <4>3, <4>4
    <3> QED  BY <1>1, <2>4, <3>1, <3>2 DEF OnDisk
  <2>12. ContentInv'
    BY <1>1, <1>2, <1>3, <2>1, <2>11 DEF ContentInv
  <2> QED  BY <2>7, <2>8, <2>10, <2>12
<1> QED  BY <1>4, <1>5
-----------------------------------------------------------------------------
(* A member is refused or fails, or it is a directory, or its file is open.*)

Entered == archive.members[member + 1]

GivenUp ==
    /\ step' = "finally" /\ outcome' \in {"refused", "failed"}
    /\ UNCHANGED <<files, zipOnDisk, memberBytes>>

DirectoryMade ==
    /\ step' = "members" /\ outcome' = outcome /\ Entered.dir
    /\ Entered.target \in Paths /\ Entered.target \notin DOMAIN files \cup {TempZip}
    /\ UNCHANGED <<files, zipOnDisk, memberBytes>>

FileOpened ==
    /\ step' = "reading" /\ outcome' = outcome /\ ~Entered.dir /\ Entered.target \in Paths
    /\ memberBytes' = 0
    /\ \/ Entered.target = TempZip /\ files' = files
       \/ /\ Entered.target # TempZip
          /\ files' = [p \in DOMAIN files \cup {Entered.target} |->
                         IF p = Entered.target THEN 0 ELSE files[p]]

LEMMA MemberShape ==
    ASSUME ExtractionInv, CheckMember
    PROVE  /\ GivenUp \/ DirectoryMade \/ FileOpened
           /\ directories' \subseteq Paths
           /\ step = "members" /\ member < Len(archive.members)
           /\ member' = member + 1
           /\ UNCHANGED <<archive, actualTotal, delivered>>
<1> USE DEF ExtractionInv
<1> DEFINE m == archive.members[member + 1]
           refused == \/ m.link \/ m.declared > MaxSingle
                      \/ declaredTotal + m.declared > MaxTotal \/ m.target = Outside
           needs == Ancestors(m.target) \cup (IF m.dir THEN {m.target} ELSE {})
           taken == needs \cap (DOMAIN files \cup {TempZip}) # {}
<1>1. /\ step = "members" /\ member < Len(archive.members)
      /\ member' = member + 1
      /\ UNCHANGED <<archive, actualTotal, delivered>>
  BY DEF CheckMember
<1>2. m.target \in Paths \cup {Outside} /\ m.dir \in BOOLEAN
  BY <1>1, ArchiveShape
<1>3. directories \subseteq Paths
  BY DEF ArchiveTyped
<1>4. m = Entered
  BY DEF Entered
<1>5. CASE refused
  <2>1. Raise("refused") /\ UNCHANGED <<files, directories, zipOnDisk, memberBytes>>
    BY <1>5 DEF CheckMember
  <2> QED  BY <1>1, <1>3, <2>1 DEF Raise, GivenUp
<1>6. CASE ~refused /\ taken
  <2>1. Raise("failed") /\ UNCHANGED <<files, directories, zipOnDisk, memberBytes>>
    BY <1>6 DEF CheckMember
  <2> QED  BY <1>1, <1>3, <2>1 DEF Raise, GivenUp
<1>7. CASE ~refused /\ ~taken
  <2>1. /\ directories' = directories \cup needs
        /\ IF m.dir
           THEN /\ step' = "members"
                /\ UNCHANGED <<files, zipOnDisk, memberBytes, outcome>>
           ELSE IF m.target \in directories'
           THEN Raise("failed") /\ UNCHANGED <<files, zipOnDisk, memberBytes>>
           ELSE \/ Raise("failed") /\ UNCHANGED <<files, zipOnDisk, memberBytes>>
                \/ /\ step' = "reading"
                   /\ memberBytes' = 0
                   /\ IF m.target = TempZip
                      THEN zipOnDisk' = "truncated" /\ UNCHANGED files
                      ELSE /\ files' = [p \in DOMAIN files \cup {m.target} |->
                                          IF p = m.target THEN 0 ELSE files[p]]
                           /\ UNCHANGED zipOnDisk
                   /\ UNCHANGED outcome
    BY <1>7 DEF CheckMember
  <2>2. m.target \in Paths
    BY <1>2, <1>7
  <2>3. needs \subseteq Paths
    BY <2>2, AncestorsBelow
  <2>4. directories' \subseteq Paths
    BY <1>3, <2>1, <2>3
  <2>5. m.dir => m.target \notin DOMAIN files \cup {TempZip}
    BY <1>7
  <2> HIDE DEF m, refused, needs, taken
  <2>6. GivenUp \/ DirectoryMade \/ FileOpened
    <3>1. CASE m.dir
      BY <1>4, <2>1, <2>2, <2>5, <3>1 DEF DirectoryMade
    <3>2. CASE ~m.dir /\ step' # "reading"
      BY <2>1, <3>2 DEF Raise, GivenUp
    <3>3. CASE ~m.dir /\ step' = "reading"
      BY <1>4, <2>1, <2>2, <3>3 DEF Raise, FileOpened
    <3> QED  BY <3>1, <3>2, <3>3
  <2> QED  BY <1>1, <2>4, <2>6
<1> QED  BY <1>5, <1>6, <1>7

(* The files of the members so far, when the next one adds none.           *)
LEMMA KeptOnward ==
    ASSUME ExtractionInv, CheckMember, NEW path \in DOMAIN files, path # Entered.target,
           files'[path] = files[path]
    PROVE  Kept(path, member)'
<1>1. /\ step = "members" /\ member' = member + 1 /\ UNCHANGED <<archive, delivered>>
      /\ member \in Nat
  BY MemberShape, ArchiveShape DEF ExtractionInv
<1>2. PICK i \in 1 .. member : IsLast(path, i, member) /\ files[path] = delivered[i]
  BY <1>1 DEF ExtractionInv, ContentInv, OnDisk, Kept
<1>3. \A j \in i + 1 .. member + 1 : j \in i + 1 .. member \/ j = member + 1
  BY <1>1
<1>4. \A j \in i + 1 .. member + 1 : archive.members[j].target # path
  BY <1>2, <1>3 DEF IsLast, Entered
<1>5. IsLast(path, i, member)'
  BY <1>1, <1>2, <1>4 DEF IsLast
<1>6. i \in 1 .. member'
  BY <1>1
<1> QED  BY <1>1, <1>2, <1>5, <1>6 DEF Kept

LEMMA MemberKeeps == ASSUME ExtractionInv, CheckMember PROVE ExtractionInv'
<1> USE DEF ExtractionInv
<1>1. /\ directories' \subseteq Paths
      /\ step = "members" /\ member < Len(archive.members)
      /\ member' = member + 1
      /\ UNCHANGED <<archive, actualTotal, delivered>>
  BY MemberShape
<1>2. outcome = "none" /\ Len(archive.members) <= MaxFiles
  BY <1>1 DEF StageInv
<1>3. member \in Nat /\ Len(archive.members) \in Nat /\ member' \in 1 .. Len(archive.members)
  BY <1>1, ArchiveShape
<1>4. CASE GivenUp
  <2>1. step' = "finally" /\ outcome' \in {"refused", "failed"} /\ UNCHANGED <<files, memberBytes>>
    BY <1>4 DEF GivenUp
  <2>2. Stored' = Stored
    BY <2>1 DEF Stored
  <2>3. ArchiveTyped'
    BY <1>1, <1>3, <2>1 DEF ArchiveTyped, Steps, Outcomes
  <2>4. StageInv'
    BY <2>1 DEF StageInv
  <2>5. BudgetInv' /\ ContentInv'
    BY <2>1, <2>2 DEF BudgetInv, ContentInv
  <2> QED  BY <2>3, <2>4, <2>5
<1>5. ASSUME step' \in {"members", "reading"}
      PROVE  \A i \in member' + 1 .. Len(archive'.members) : delivered'[i] = 0
  BY <1>1, <1>3 DEF ContentInv
<1>6. CASE DirectoryMade
  <2>1. step' = "members" /\ outcome' = "none" /\ UNCHANGED <<files, memberBytes>>
        /\ Entered.dir /\ Entered.target \notin DOMAIN files
    BY <1>2, <1>6 DEF DirectoryMade
  <2>2. Stored' = Stored
    BY <2>1 DEF Stored
  <2>3. ArchiveTyped'
    BY <1>1, <1>3, <2>1 DEF ArchiveTyped, Steps, Outcomes
  <2>4. StageInv'
    BY <1>1, <1>2, <2>1 DEF StageInv
  <2>5. BudgetInv'
    BY <1>1, <2>1, <2>2 DEF BudgetInv
  <2>6. \A path \in DOMAIN files : Kept(path, member)'
    BY <2>1, KeptOnward
  <2>7. \A i \in 1 .. member' : i \in 1 .. member \/ i = member + 1
    BY <1>1, <1>3
  <2>8. OnDisk(member)'
    BY <1>1, <2>1, <2>6, <2>7 DEF ContentInv, OnDisk, Entered
  <2>9. ContentInv'
    BY <1>5, <2>1, <2>8 DEF ContentInv
  <2> QED  BY <2>3, <2>4, <2>5, <2>9
<1>7. CASE FileOpened
  <2> DEFINE t == Entered.target
  <2>1. step' = "reading" /\ outcome' = "none" /\ memberBytes' = 0 /\ ~Entered.dir /\ t \in Paths
    BY <1>2, <1>7 DEF FileOpened
  <2>2. /\ t # TempZip => t \in DOMAIN files' /\ files'[t] = 0
        /\ DOMAIN files' \subseteq DOMAIN files \cup {t}
        /\ DOMAIN files \subseteq DOMAIN files'
        /\ TempZip \notin DOMAIN files'
        /\ \A path \in DOMAIN files' \ {t} : path \in DOMAIN files /\ files'[path] = files[path]
        /\ files' = [path \in DOMAIN files' |-> files'[path]]
    <3>1. TempZip \notin DOMAIN files /\ files = [path \in DOMAIN files |-> files[path]]
      BY DEF ArchiveTyped
    <3>2. CASE t = TempZip
      <4>1. files' = files  BY <1>7, <3>2 DEF FileOpened
      <4> QED  BY <3>1, <3>2, <4>1
    <3>3. CASE t # TempZip
      <4>1. files' = [p \in DOMAIN files \cup {t} |-> IF p = t THEN 0 ELSE files[p]]
        BY <1>7, <3>3 DEF FileOpened
      <4> HIDE DEF t
      <4> QED  BY <3>1, <3>3, <4>1
    <3> QED  BY <3>2, <3>3
  <2>3. CurrentMember' = Entered
    BY <1>1 DEF CurrentMember, Entered
  <2>4. delivered'[member'] = 0
    BY <1>1, <1>3 DEF ContentInv
  <2>5. t \in DOMAIN files' => files'[t] = 0 /\ t # TempZip
    BY <2>2
  <2> HIDE DEF t
  <2>6. ArchiveTyped'
    <3>1. IsFiniteSet(DOMAIN files \cup {t})
      BY FS_AddElement DEF ArchiveTyped
    <3>2. IsFiniteSet(DOMAIN files')
      BY <2>2, <3>1, FS_Subset
    <3>3. DOMAIN files' \subseteq Paths \ {TempZip}
      BY <2>1, <2>2 DEF ArchiveTyped
    <3>4. \A path \in DOMAIN files' : files'[path] \in Nat
      BY <2>2, <2>5 DEF ArchiveTyped
    <3> QED  BY <1>1, <1>3, <2>1, <2>2, <3>2, <3>3, <3>4 DEF ArchiveTyped, Steps, Outcomes
  <2>7. StageInv'
    <3>1. ~(CurrentMember.dir)' /\ (CurrentMember.target)' \in Paths
      BY <2>1, <2>3 DEF t
    <3> QED  BY <1>1, <1>2, <1>3, <2>1, <2>4, <3>1, ArchiveAssumption DEF StageInv
  <2>8. BudgetInv'
    <3>1. Stored' \subseteq Stored
      <4> SUFFICES ASSUME NEW path \in DOMAIN files', NEW i \in 1 .. files'[path]
                   PROVE  path \in DOMAIN files /\ i \in 1 .. files[path]
        BY DEF Stored
      <4>1. path # t  BY <2>5
      <4> QED  BY <2>2, <4>1
    <3>2. IsFiniteSet(Stored)
      BY DEF BudgetInv
    <3>3. IsFiniteSet(Stored') /\ Cardinality(Stored') <= Cardinality(Stored)
      BY <3>1, <3>2, FS_Subset
    <3>4. Cardinality(Stored') \in Nat /\ Cardinality(Stored) \in Nat /\ actualTotal \in Nat
      BY <3>2, <3>3, FS_CardinalityType DEF ArchiveTyped
    <3>5. Cardinality(Stored') <= actualTotal' /\ actualTotal' <= MaxTotal /\ Cardinality(Stored') <= MaxTotal
      BY <1>1, <3>3, <3>4, ArchiveAssumption DEF BudgetInv
    <3>6. \A path \in DOMAIN files' : files'[path] <= MaxSingle
      BY <2>2, <2>5, ArchiveAssumption DEF BudgetInv
    <3> QED  BY <3>3, <3>5, <3>6 DEF BudgetInv
  <2>9. OnDisk(member)'
    <3>1. ASSUME NEW path \in DOMAIN files' PROVE Kept(path, member)'
      <4>1. CASE path # t
        BY <2>2, <3>1, <4>1, KeptOnward DEF t
      <4>2. CASE path = t
        <5>1. \A k \in Int : \A j \in k + 1 .. k : archive'.members[j].target # path
          OBVIOUS
        <5>2. member' \in Int
          BY <1>3
        <5>3. IsLast(path, member, member)'
          BY <1>1, <2>1, <4>2, <5>1, <5>2 DEF IsLast, Entered, t
        <5> QED  BY <1>3, <2>4, <2>5, <3>1, <4>2, <5>3 DEF Kept
      <4> QED  BY <4>1, <4>2
    <3>2. \A i \in 1 .. member' : i \in 1 .. member \/ i = member + 1
      BY <1>1, <1>3
    <3>3. OnDisk(member)
      BY <1>1 DEF ContentInv
    <3>4. ASSUME NEW i \in 1 .. member', ~archive'.members[i].dir, archive'.members[i].target # TempZip
          PROVE  archive'.members[i].target \in DOMAIN files'
      BY <1>1, <2>2, <3>2, <3>3, <3>4 DEF OnDisk, Entered, t
    <3> QED  BY <3>1, <3>4 DEF OnDisk
  <2>10. ContentInv'
    BY <1>5, <2>1, <2>9 DEF ContentInv
  <2> QED  BY <2>6, <2>7, <2>8, <2>10
<1> QED  BY <1>4, <1>6, <1>7, MemberShape

-----------------------------------------------------------------------------
(* Whatever the headers say and whatever the library delivers, the files   *)
(* are those of the members so far and their bytes are within the budgets. *)
THEOREM ExtractionInvariant == ArchiveSpec => []ExtractionInv
<1>1. ExtractionInv /\ [ArchiveNext]_archiveVars => ExtractionInv'
  <2> SUFFICES ASSUME ExtractionInv, [ArchiveNext]_archiveVars PROVE ExtractionInv'
    OBVIOUS
  <2>1. CASE UNCHANGED archiveVars
    <3>1. Stored' = Stored /\ \A k : OnDisk(k)' = OnDisk(k)
      BY <2>1, DiskUntouched DEF archiveVars
    <3>2. OnDisk(member)' = OnDisk(member)
      BY <2>1 DEF archiveVars, OnDisk, Kept, IsLast
    <3>3. ArchiveTyped' /\ StageInv'
      BY <2>1 DEF archiveVars, ExtractionInv, ArchiveTyped, StageInv, CurrentMember
    <3>4. BudgetInv' /\ ContentInv'
      BY <2>1, <3>1, <3>2 DEF archiveVars, ExtractionInv, BudgetInv, ContentInv
    <3> QED  BY <3>3, <3>4 DEF ExtractionInv
  <2> QED  BY <2>1, CheckArchiveKeeps, MemberKeeps, ChunkKeeps, EndsKeep DEF ArchiveNext
<1> QED  BY <1>1, ExtractionStarts, PTL DEF ArchiveSpec

(* At the end the last member that names a place is the one it was kept of.*)
LEMMA AcceptedIsThere == ASSUME ExtractionInv PROVE AcceptedIsOnDisk
<1> USE DEF ExtractionInv
<1> SUFFICES ASSUME step = "over" PROVE AcceptedIsOnDisk
  BY DEF AcceptedIsOnDisk
<1>1. zipOnDisk # "absent" => archive.stuck
  BY DEF StageInv
<1>2. CASE outcome # "accepted"
  BY <1>1, <1>2 DEF AcceptedIsOnDisk
<1>3. CASE outcome = "accepted"
  <2> DEFINE n == Len(archive.members)
  <2>1. /\ member = n /\ n <= MaxFiles /\ OnDisk(n)
        /\ n \in Nat /\ DOMAIN archive.members = 1 .. n
    BY <1>3, ArchiveShape DEF StageInv, ContentInv
  <2> HIDE DEF n
  <2>2. \A path, i : i \in LastOf(path) <=> i \in 1 .. n /\ IsLast(path, i, n)
    BY <2>1 DEF LastOf, IsLast, n
  <2>3. ASSUME NEW path \in Paths \ {TempZip}, NEW i \in LastOf(path)
        PROVE  path \in DOMAIN files /\ files[path] = delivered[i]
    <3>1. i \in 1 .. n /\ IsLast(path, i, n)
      BY <2>2, <2>3
    <3>2. path \in DOMAIN files
      BY <2>1, <2>3, <3>1 DEF OnDisk, IsLast
    <3>3. PICK j \in 1 .. n : IsLast(path, j, n) /\ files[path] = delivered[j]
      BY <2>1, <3>2 DEF OnDisk, Kept
    <3>4. ~(i < j) /\ ~(j < i)
      BY <2>1, <3>1, <3>3 DEF IsLast
    <3>5. i = j
      BY <2>1, <3>1, <3>3, <3>4
    <3> QED  BY <3>2, <3>3, <3>5
  <2>4. ASSUME NEW path \in DOMAIN files PROVE LastOf(path) # {}
    BY <2>1, <2>2, <2>4 DEF OnDisk, Kept
  <2> QED  BY <1>1, <2>1, <2>3, <2>4 DEF AcceptedIsOnDisk, n
<1> QED  BY <1>2, <1>3

(* However the extraction ends, what it put on disk is below dest_dir and  *)
(* within the budgets, and an accepted archive is there whole and alone.   *)
THEOREM ExtractionStaysExact == ArchiveSpec => []ExtractionIsExact
<1>1. ExtractionInv => ExtractionIsExact
  <2> SUFFICES ASSUME ExtractionInv PROVE ExtractionIsExact
    OBVIOUS
  <2>1. DiskWithinBudget
    BY DEF ExtractionInv, ArchiveTyped, BudgetInv, DiskWithinBudget
  <2> QED  BY <2>1, AcceptedIsThere DEF ExtractionIsExact
<1> QED  BY <1>1, ExtractionInvariant, PTL

-----------------------------------------------------------------------------
(* The guard of the specification.                                        *)


TypeInv ==
    /\ document \in Documents
    /\ pending \in Seq((Containers \cup Scalars) \X BOOLEAN)
    /\ frames \in Seq(Containers \X Nat)
    /\ active \subseteq Containers /\ visited \subseteq Containers

(* The containers whose exit has been popped: what is below them has been  *)
(* seen too, and nothing goes round in it.                                 *)
VisitedInv ==
    /\ \A n \in visited : Children(n) \subseteq visited /\ ~BadReference(n)
    /\ \A C \in SUBSET visited : ~Round(C)

(* An exit that waits on the stack is that of an active container whose    *)
(* children have been visited, or stand above it.                          *)
ExitWaits(stack, i, seen) ==
    /\ ~BadReference(stack[i][1])
    /\ \A c \in Children(stack[i][1]) :
          c \in seen \/ \E j \in DOMAIN stack : j > i /\ stack[j][1] = c

StackFits(stack, open, seen) ==
    /\ open \cap seen = {}
    /\ \A i \in DOMAIN stack :
          stack[i][2] => stack[i][1] \in open /\ ExitWaits(stack, i, seen)
    /\ \A i, j \in DOMAIN stack :
          stack[i][2] /\ stack[j][2] /\ stack[i][1] = stack[j][1] => i = j
    /\ Root \in seen \/ \E i \in DOMAIN stack : stack[i][1] = Root

StackInv == StackFits(pending, active, visited)

(* The recursion of the loader is a path of visited containers.            *)
PathInv ==
    /\ \A i \in DOMAIN frames : frames[i][1] \in visited
    /\ \A i \in DOMAIN frames :
          i < Len(frames) => frames[i + 1][1] \in Children(frames[i][1])
    /\ \A i, j \in DOMAIN frames : frames[i][1] = frames[j][1] => i = j

GuardInv ==
    /\ TypeInv
    /\ VisitedInv
    /\ verdict \in {"composing", "constructing"} => visited = {} /\ active = {}
    /\ verdict = "guarding" => StackInv
    /\ Admitted => Root \in visited
    /\ verdict = "locating" => PathInv

----------------------------------------------------------------------------
(* The document does not change, nor do the notions that depend on it.     *)
LEMMA DocumentKept ==
    ASSUME document' = document
    PROVE  /\ \A n : Children(n)' = Children(n)
           /\ \A n : BadReference(n)' <=> BadReference(n)
           /\ \A C : Round(C)' <=> Round(C)
  BY DEF Children, Values, Entries, BadReference, Round

LEMMA VisitedKept ==
    ASSUME VisitedInv, document' = document, visited' = visited
    PROVE  VisitedInv'
  BY DocumentKept DEF VisitedInv

LEMMA EntriesTyped ==
    ASSUME GuardAssumption, TypeInv, NEW n \in Containers
    PROVE  /\ Entries(n) \in Seq(Entry)
           /\ \A i \in DOMAIN Entries(n) : Entries(n)[i].value \in Containers \cup Scalars
           /\ \A i \in DOMAIN Entries(n) :
                 Entries(n)[i].value \in Containers => Entries(n)[i].value \in Children(n)
           /\ \A c \in Children(n) : \E i \in DOMAIN Entries(n) : Entries(n)[i].value = c
  <1>1. Entries(n) \in Seq(Entry)
    BY DEF GuardAssumption, TypeInv, Entries
  <1>2. \A i \in DOMAIN Entries(n) : Entries(n)[i] \in Entry
    BY <1>1
  <1>3. QED
    BY <1>1, <1>2 DEF Entry, Children, Values

(* One more container, whose children have all been visited, closes no     *)
(* circle: a circle through it would have to come back to it from visited  *)
(* containers, whose children are visited, and it is not.                  *)
LEMMA NoNewRound ==
    ASSUME VisitedInv, NEW n, n \notin visited, Children(n) \subseteq visited,
           NEW C \in SUBSET (visited \cup {n})
    PROVE  ~Round(C)
  <1> SUFFICES ASSUME Round(C) PROVE FALSE
    OBVIOUS
  <1> DEFINE D == C \ {n}
  <1>1. D \in SUBSET visited
    OBVIOUS
  <1>2. D # {}
    <2>1. CASE n \in C
      <3>1. Children(n) \cap C # {}
        BY <2>1 DEF Round
      <3>2. Children(n) \cap C \subseteq D
        OBVIOUS
      <3>3. QED
        BY <3>1, <3>2
    <2>2. CASE n \notin C
      BY <2>2 DEF Round
    <2>3. QED
      BY <2>1, <2>2
  <1>3. ASSUME NEW m \in D PROVE Children(m) \cap D # {}
    <2>1. Children(m) \cap C # {}
      BY DEF Round
    <2>2. Children(m) \subseteq visited
      BY <1>1 DEF VisitedInv
    <2>3. QED
      BY <2>1, <2>2
  <1>4. Round(D)
    BY <1>2, <1>3 DEF Round
  <1>5. QED
    BY <1>1, <1>4 DEF VisitedInv

----------------------------------------------------------------------------
(* What is true of the next stack in this document is so in the next state.*)
LEMMA StackPrimed ==
    ASSUME document' = document, StackFits(pending', active', visited')
    PROVE  StackInv'
  BY DEF StackInv, StackFits, ExitWaits, Children, Values, Entries, BadReference

(* A pop leaves what is below.                                             *)
LEMMA PopKeeps ==
    ASSUME TypeInv, pending # <<>>
    PROVE  \E L \in Nat \ {0} :
               /\ L = Len(pending) /\ DOMAIN pending = 1 .. L
               /\ Rest \in Seq((Containers \cup Scalars) \X BOOLEAN)
               /\ Len(Rest) = L - 1 /\ DOMAIN Rest = 1 .. L - 1
               /\ \A i \in 1 .. L - 1 : Rest[i] = pending[i]
               /\ pending[L] = Popped
               /\ Popped \in (Containers \cup Scalars) \X BOOLEAN
  BY DEF TypeInv, Rest, Popped

PopsTo(p, q, L) ==
    /\ L \in Nat \ {0} /\ DOMAIN p = 1 .. L /\ DOMAIN q = 1 .. L - 1
    /\ \A i \in 1 .. L - 1 : q[i] = p[i]

EntersTo(p, q, L, K, n, value) ==
    /\ L \in Nat \ {0} /\ DOMAIN p = 1 .. L /\ p[L][1] = n
    /\ K \in Nat /\ DOMAIN q = 1 .. L + K
    /\ \A i \in 1 .. L - 1 : q[i] = p[i]
    /\ q[L] = <<n, TRUE>>
    /\ \A k \in 1 .. K : q[L + k] = <<value[k], FALSE>>
    /\ \A c \in Children(n) : \E k \in 1 .. K : value[k] = c

(* The stack without its top, which was no exit and needs no visit.        *)
LEMMA StackSkipped ==
    ASSUME NEW p, NEW q, NEW open, NEW seen, NEW L, PopsTo(p, q, L),
           Root \in Containers, StackFits(p, open, seen),
           p[L][1] \notin Containers \/ p[L][1] \in seen
    PROVE  StackFits(q, open, seen)
  <1>0. /\ L \in Nat \ {0} /\ DOMAIN p = 1 .. L /\ DOMAIN q = 1 .. L - 1
        /\ \A i \in 1 .. L - 1 : q[i] = p[i]
    BY DEF PopsTo
  <1>1. \A i \in 1 .. L - 1 : i \in 1 .. L
    BY <1>0
  <1>2. \A c \in Containers, i \in 1 .. L : p[i][1] = c => c \in seen \/ i \in 1 .. L - 1
    BY <1>0
  <1>3. ASSUME NEW i \in 1 .. L - 1, q[i][2]
        PROVE  q[i][1] \in open /\ ExitWaits(q, i, seen)
    <2>1. /\ p[i][1] \in open /\ ~BadReference(p[i][1])
          /\ \A c \in Children(p[i][1]) :
                c \in seen \/ \E j \in 1 .. L : j > i /\ p[j][1] = c
      BY <1>0, <1>1, <1>3 DEF StackFits, ExitWaits
    <2>2. ASSUME NEW c \in Children(p[i][1])
          PROVE  c \in seen \/ \E j \in 1 .. L - 1 : j > i /\ q[j][1] = c
      <3>1. c \in Containers
        BY DEF Children
      <3>2. QED
        BY <1>0, <1>2, <2>1, <3>1
    <2>3. q[i] = p[i]
      BY <1>0
    <2>4. QED
      BY <1>0, <2>1, <2>2, <2>3 DEF ExitWaits
  <1>4. \A i, j \in 1 .. L - 1 : q[i][2] /\ q[j][2] /\ q[i][1] = q[j][1] => i = j
    BY <1>0, <1>1 DEF StackFits
  <1>5. Root \in seen \/ \E i \in 1 .. L - 1 : q[i][1] = Root
    BY <1>0, <1>2 DEF StackFits
  <1>6. QED
    BY <1>0, <1>3, <1>4, <1>5 DEF StackFits

(* The stack without the exit on its top, whose container is visited now.  *)
LEMMA ExitDone ==
    ASSUME NEW p, NEW q, NEW open, NEW seen, NEW L, PopsTo(p, q, L),
           StackFits(p, open, seen), p[L][2]
    PROVE  /\ p[L][1] \in open /\ p[L][1] \notin seen
           /\ ~BadReference(p[L][1]) /\ Children(p[L][1]) \subseteq seen
  <1>0. /\ L \in Nat \ {0} /\ DOMAIN p = 1 .. L /\ DOMAIN q = 1 .. L - 1
        /\ \A i \in 1 .. L - 1 : q[i] = p[i]
    BY DEF PopsTo
  <1>1. /\ \A i \in 1 .. L - 1 : i \in 1 .. L /\ i # L
        /\ L \in 1 .. L /\ \A i \in 1 .. L : ~(i > L) /\ (i \in 1 .. L - 1 \/ i = L)
    BY <1>0
  <1>2. QED
    BY <1>0, <1>1 DEF StackFits, ExitWaits

LEMMA StackExited ==
    ASSUME NEW p, NEW q, NEW open, NEW seen, NEW openNow, NEW seenNow, NEW L,
           PopsTo(p, q, L), StackFits(p, open, seen), p[L][2],
           openNow = open \ {p[L][1]}, seenNow = seen \cup {p[L][1]}
    PROVE  StackFits(q, openNow, seenNow)
  <1>0. /\ L \in Nat \ {0} /\ DOMAIN p = 1 .. L /\ DOMAIN q = 1 .. L - 1
        /\ \A i \in 1 .. L - 1 : q[i] = p[i]
    BY DEF PopsTo
  <1>1. /\ \A i \in 1 .. L - 1 : i \in 1 .. L /\ i # L
        /\ L \in 1 .. L /\ \A i \in 1 .. L : ~(i > L) /\ (i \in 1 .. L - 1 \/ i = L)
    BY <1>0
  <1>2. PICK n : n = p[L][1]
    OBVIOUS
  <1>3. ASSUME NEW i \in 1 .. L - 1, q[i][2]
        PROVE  q[i][1] \in openNow /\ ExitWaits(q, i, seenNow)
    <2>1. /\ p[i][1] \in open /\ ~BadReference(p[i][1])
          /\ \A c \in Children(p[i][1]) :
                c \in seen \/ \E j \in 1 .. L : j > i /\ p[j][1] = c
      BY <1>0, <1>1, <1>2, <1>3 DEF StackFits, ExitWaits
    <2>2. p[i][1] # n
      BY <1>0, <1>1, <1>2, <1>3 DEF StackFits
    <2>3. ASSUME NEW c \in Children(p[i][1])
          PROVE  c \in seenNow \/ \E j \in 1 .. L - 1 : j > i /\ q[j][1] = c
      BY <1>0, <1>1, <1>2, <2>1
    <2>4. q[i] = p[i]
      BY <1>0
    <2>5. QED
      BY <1>0, <1>2, <2>1, <2>2, <2>3, <2>4 DEF ExitWaits
  <1>4. \A i, j \in 1 .. L - 1 : q[i][2] /\ q[j][2] /\ q[i][1] = q[j][1] => i = j
    BY <1>0, <1>1, <1>2 DEF StackFits
  <1>5. Root \in seenNow \/ \E i \in 1 .. L - 1 : q[i][1] = Root
    BY <1>0, <1>1, <1>2 DEF StackFits
  <1>6. (openNow) \cap (seenNow) = {}
    BY <1>2 DEF StackFits
  <1>7. QED
    BY <1>0, <1>2, <1>3, <1>4, <1>5, <1>6 DEF StackFits

(* The stack with the exit of a container that was on top, and above it    *)
(* its values.                                                             *)
LEMMA StackEntered ==
    ASSUME NEW p, NEW q, NEW open, NEW seen, NEW openNow, NEW L, NEW K, NEW n, NEW value,
           EntersTo(p, q, L, K, n, value), StackFits(p, open, seen),
           openNow = open \cup {n}, n \notin open, n \notin seen, ~BadReference(n)
    PROVE  StackFits(q, openNow, seen)
  <1>0. /\ L \in Nat \ {0} /\ DOMAIN p = 1 .. L /\ p[L][1] = n
        /\ K \in Nat /\ DOMAIN q = 1 .. L + K
        /\ \A i \in 1 .. L - 1 : q[i] = p[i]
        /\ q[L] = <<n, TRUE>>
        /\ \A k \in 1 .. K : q[L + k] = <<value[k], FALSE>>
        /\ \A c \in Children(n) : \E k \in 1 .. K : value[k] = c
    BY DEF EntersTo
  <1>1. /\ L \in 1 .. L /\ L \in 1 .. L + K
        /\ \A i \in 1 .. L : i \in 1 .. L + K /\ (i \in 1 .. L - 1 \/ i = L)
        /\ \A i \in 1 .. L - 1 : i \in 1 .. L
        /\ \A k \in 1 .. K : L + k \in 1 .. L + K /\ L + k > L
    BY <1>0
  <1>2. ASSUME NEW i \in 1 .. L + K, q[i][2] PROVE i \in 1 .. L - 1 \/ i = L
    <2>1. CASE i > L
      <3>1. i - L \in 1 .. K /\ i = L + (i - L)
        BY <1>0, <2>1
      <3>2. q[i] = <<value[i - L], FALSE>>
        BY <1>0, <3>1
      <3>3. QED
        BY <1>0, <1>2, <3>2
    <2>2. QED
      BY <1>0, <2>1
  <1>3. \A i \in 1 .. L : q[i][1] = p[i][1]
    BY <1>0, <1>1
  <1>4. ASSUME NEW i \in 1 .. L - 1, q[i][2]
        PROVE  q[i][1] \in open /\ ExitWaits(q, i, seen)
    <2>1. /\ p[i][1] \in open /\ ~BadReference(p[i][1])
          /\ \A c \in Children(p[i][1]) :
                c \in seen \/ \E j \in 1 .. L : j > i /\ p[j][1] = c
      BY <1>0, <1>1, <1>4 DEF StackFits, ExitWaits
    <2>2. ASSUME NEW c \in Children(p[i][1])
          PROVE  c \in seen \/ \E j \in 1 .. L + K : j > i /\ q[j][1] = c
      BY <1>0, <1>1, <1>3, <2>1
    <2>3. q[i] = p[i]
      BY <1>0
    <2>4. QED
      BY <1>0, <2>1, <2>2, <2>3 DEF ExitWaits
  <1>5. q[L][1] = n /\ ExitWaits(q, L, seen)
    <2>1. ASSUME NEW c \in Children(n) PROVE \E j \in 1 .. L + K : j > L /\ q[j][1] = c
      <3>1. PICK k \in 1 .. K : value[k] = c
        BY <1>0
      <3>2. q[L + k] = <<c, FALSE>>
        BY <1>0, <3>1
      <3>3. q[L + k][1] = c
        BY <1>0, <3>2
      <3>4. QED
        BY <1>0, <1>1, <3>3
    <2>2. q[L][1] = n
      BY <1>0
    <2>3. QED
      BY <1>0, <2>1, <2>2 DEF ExitWaits
  <1>6. ASSUME NEW i \in 1 .. L + K, NEW j \in 1 .. L + K,
               q[i][2], q[j][2], q[i][1] = q[j][1]
        PROVE  i = j
    <2>1. (i \in 1 .. L - 1 \/ i = L) /\ (j \in 1 .. L - 1 \/ j = L)
      BY <1>0, <1>2, <1>6
    <2>2. \A k \in 1 .. L - 1 : q[k][2] => q[k][1] # n
      BY <1>0, <1>4
    <2>3. CASE i \in 1 .. L - 1 /\ j \in 1 .. L - 1
      BY <1>0, <1>1, <1>6, <2>3 DEF StackFits
    <2>4. QED
      BY <1>0, <1>5, <1>6, <2>1, <2>2, <2>3
  <1>7. Root \in seen \/ \E i \in 1 .. L + K : q[i][1] = Root
    BY <1>0, <1>1, <1>3 DEF StackFits
  <1>8. openNow \cap seen = {}
    BY DEF StackFits
  <1>9. QED
    BY <1>0, <1>2, <1>4, <1>5, <1>6, <1>7, <1>8 DEF StackFits

(* The two parts of the stack that Enter puts together.                    *)
LEMMA EnteredShape ==
    ASSUME NEW T, NEW V, NEW s \in Seq(V), NEW r \in Seq(T), NEW t \in T,
           NEW above \in Seq(T), Len(above) = Len(s)
    PROVE  LET q == Append(r, t) \o above
           IN  /\ q \in Seq(T) /\ DOMAIN q = 1 .. Len(r) + 1 + Len(s)
               /\ \A i \in 1 .. Len(r) : q[i] = r[i]
               /\ q[Len(r) + 1] = t
               /\ \A k \in 1 .. Len(s) : q[Len(r) + 1 + k] = above[k]
  <1>0. PICK base : base = Append(r, t)
    OBVIOUS
  <1>1. /\ base \in Seq(T) /\ Len(base) = Len(r) + 1 /\ base[Len(r) + 1] = t
        /\ \A i \in 1 .. Len(r) : base[i] = r[i]
    BY <1>0
  <1>2. /\ base \o above \in Seq(T)
        /\ DOMAIN (base \o above) = 1 .. Len(base) + Len(above)
        /\ \A i \in 1 .. Len(base) : (base \o above)[i] = base[i]
        /\ \A k \in 1 .. Len(above) : (base \o above)[Len(base) + k] = above[k]
    <2>1. /\ base \o above \in Seq(T) /\ Len(base \o above) = Len(base) + Len(above)
          /\ \A i \in 1 .. Len(base) + Len(above) :
                (base \o above)[i] = IF i <= Len(base) THEN base[i] ELSE above[i - Len(base)]
      <3>1. base \in Seq(T) /\ above \in Seq(T)
        BY <1>1
      <3>2. QED
        BY ONLY <3>1, ConcatProperties, Zenon
    <2>2. PICK M \in Nat, K \in Nat : M = Len(base) /\ K = Len(above)
      BY <1>1
    <2>3. DOMAIN (base \o above) = 1 .. M + K
      BY <2>1, <2>2
    <2>4. \A i \in 1 .. M : i \in 1 .. M + K /\ i <= M
      OBVIOUS
    <2>5. \A k \in 1 .. K : M + k \in 1 .. M + K /\ ~(M + k <= M) /\ (M + k) - M = k
      OBVIOUS
    <2>6. QED
      BY <2>1, <2>2, <2>3, <2>4, <2>5
  <1>3. QED
    BY <1>0, <1>1, <1>2

(* A frame more or less changes no other.                                  *)
(* Moving on in a container changes the second component of the last frame.*)
LEMMA OnwardShape ==
    ASSUME TypeInv, frames # <<>>
    PROVE  \E a \in Containers, b \in Nat :
               /\ frames[Len(frames)] = <<a, b>>
               /\ Onward = [frames EXCEPT ![Len(frames)] = <<a, b + 1>>]
  <1> DEFINE top == frames[Len(frames)]
  <1>1. Len(frames) \in Nat \ {0} /\ top \in Containers \X Nat
    BY DEF TypeInv
  <1>2. PICK a \in Containers, b \in Nat : top = <<a, b>>
    BY <1>1
  <1>3. [<<a, b>> EXCEPT ![2] = <<a, b>>[2] + 1] = <<a, b + 1>>
    OBVIOUS
  <1>4. Onward = [frames EXCEPT ![Len(frames)] = [top EXCEPT ![2] = top[2] + 1]]
    BY DEF Onward
  <1>5. Onward = [frames EXCEPT ![Len(frames)] = <<a, b + 1>>]
    BY <1>2, <1>3, <1>4
  <1>6. QED
    BY <1>2, <1>5

LEMMA FramesTyped ==
    ASSUME TypeInv, frames # <<>>, NEW n \in Containers
    PROVE  /\ Top \in Containers \X Nat
           /\ Back \in Seq(Containers \X Nat)
           /\ Onward \in Seq(Containers \X Nat)
           /\ Deeper(n) \in Seq(Containers \X Nat)
  <1>1. Len(frames) \in Nat \ {0} /\ frames[Len(frames)] \in Containers \X Nat
    BY DEF TypeInv
  <1>2. Onward \in Seq(Containers \X Nat)
    <2>1. PICK a \in Containers, b \in Nat :
              Onward = [frames EXCEPT ![Len(frames)] = <<a, b + 1>>]
      BY OnwardShape
    <2>2. QED
      BY <1>1, <2>1 DEF TypeInv
  <1>3. Top \in Containers \X Nat /\ Back \in Seq(Containers \X Nat)
    BY <1>1 DEF TypeInv, Top, Back
  <1>4. Deeper(n) = Append(Onward, <<n, 1>>)
    BY DEF Deeper, Onward
  <1>5. QED
    BY <1>2, <1>3, <1>4

(* Where the first component of each frame comes from.                     *)
LEMMA FrameNodes ==
    ASSUME TypeInv, frames # <<>>, NEW n \in Containers
    PROVE  /\ Len(frames) \in Nat \ {0} /\ DOMAIN frames = 1 .. Len(frames)
           /\ DOMAIN Onward = DOMAIN frames /\ Len(Onward) = Len(frames)
           /\ \A i \in DOMAIN frames : Onward[i][1] = frames[i][1]
           /\ Len(Back) = Len(frames) - 1 /\ DOMAIN Back = 1 .. Len(frames) - 1
           /\ \A i \in DOMAIN Back : Back[i] = frames[i]
           /\ Len(Deeper(n)) = Len(frames) + 1 /\ DOMAIN Deeper(n) = 1 .. Len(frames) + 1
           /\ \A i \in DOMAIN frames : Deeper(n)[i][1] = frames[i][1]
           /\ Deeper(n)[Len(frames) + 1][1] = n
  <1>1. Len(frames) \in Nat \ {0} /\ DOMAIN frames = 1 .. Len(frames)
        /\ frames \in Seq(Containers \X Nat)
    BY DEF TypeInv
  <1>2. /\ Onward \in Seq(Containers \X Nat) /\ DOMAIN Onward = DOMAIN frames
        /\ \A i \in DOMAIN frames : Onward[i][1] = frames[i][1]
    <2>1. PICK a \in Containers, b \in Nat :
              /\ frames[Len(frames)] = <<a, b>>
              /\ Onward = [frames EXCEPT ![Len(frames)] = <<a, b + 1>>]
      BY OnwardShape
    <2>2. QED
      BY <1>1, <2>1, FramesTyped
  <1>3. Len(Onward) = Len(frames)
    BY <1>1, <1>2
  <1>4. /\ Len(Back) = Len(frames) - 1 /\ DOMAIN Back = 1 .. Len(frames) - 1
        /\ \A i \in DOMAIN Back : Back[i] = frames[i]
    BY <1>1 DEF TypeInv, Back
  <1>5. Deeper(n) = Append(Onward, <<n, 1>>)
    BY DEF Deeper, Onward
  <1>6. QED
    BY <1>1, <1>2, <1>3, <1>4, <1>5

----------------------------------------------------------------------------
LEMMA RejectStep ==
    ASSUME GuardInv, NEW error \in Errors, Reject(error)
    PROVE  GuardInv'
  <1>1. /\ verdict' = error /\ document' = document /\ visited' = visited
        /\ UNCHANGED <<frames, composed, nodes, aliases, pending, active>>
    BY DEF Reject
  <1>2. VisitedInv'
    BY <1>1, VisitedKept DEF GuardInv
  <1>3. TypeInv'
    BY <1>1 DEF GuardInv, TypeInv
  <1>4. QED
    BY <1>1, <1>2, <1>3 DEF GuardInv, Errors, Admitted

(* Composing and constructing come before the walk.                        *)
LEMMA ComposeStep ==
    ASSUME GuardAssumption, GuardInv, ComposeEntry \/ Composed \/ Construct
    PROVE  GuardInv'
  <1>0. TypeInv /\ visited = {} /\ active = {} /\ VisitedInv
    BY DEF GuardInv, ComposeEntry, Composed, Construct
  <1>1. CASE \E error \in Errors : Reject(error)
    BY <1>1, RejectStep
  <1>2. CASE /\ verdict' \in {"composing", "constructing"} /\ frames # <<>>
             /\ \/ frames' = Onward \/ frames' = Back
                \/ \E n \in Containers : frames' = Deeper(n)
             /\ UNCHANGED <<document, pending, active, visited>>
    <2>1. TypeInv'
      BY <1>0, <1>2, FramesTyped, GuardAssumption DEF TypeInv
    <2>2. QED
      BY <1>0, <1>2, <2>1, VisitedKept DEF GuardInv, Admitted
  <1>3. CASE /\ verdict' = "guarding" /\ pending' = <<<<Root, FALSE>>>>
             /\ UNCHANGED <<document, frames, active, visited>>
    <2>1. Root \in Containers
      BY DEF GuardAssumption
    <2>2. /\ pending' \in Seq((Containers \cup Scalars) \X BOOLEAN)
          /\ DOMAIN pending' = {1} /\ pending'[1] = <<Root, FALSE>>
      <3>1. <<Root, FALSE>> \in (Containers \cup Scalars) \X BOOLEAN
        BY <2>1
      <3>2. PICK t \in (Containers \cup Scalars) \X BOOLEAN : t = <<Root, FALSE>>
        BY <3>1
      <3>3. /\ <<t>> \in Seq((Containers \cup Scalars) \X BOOLEAN)
            /\ DOMAIN <<t>> = {1} /\ <<t>>[1] = t
        OBVIOUS
      <3>4. QED
        BY <1>3, <3>2, <3>3
    <2>3. StackInv'
      <3>1. pending'[1][1] = Root /\ ~pending'[1][2]
        BY <2>2
      <3>2. StackFits(pending', {}, {})
        BY <2>2, <3>1 DEF StackFits
      <3>3. QED
        BY <1>0, <1>3, <3>2, StackPrimed
    <2>4. TypeInv'
      BY <1>0, <1>3, <2>2 DEF TypeInv
    <2>5. QED
      BY <1>0, <1>3, <2>3, <2>4, VisitedKept DEF GuardInv, Admitted
  <1>4. ComposeEntry => (\E error \in Errors : Reject(error))
             \/ /\ verdict' \in {"composing", "constructing"} /\ frames # <<>>
                /\ \/ frames' = Onward \/ frames' = Back
                   \/ \E n \in Containers : frames' = Deeper(n)
                /\ UNCHANGED <<document, pending, active, visited>>
    BY DEF ComposeEntry, Errors
  <1>5. Composed => (\E error \in Errors : Reject(error))
             \/ /\ verdict' \in {"composing", "constructing"} /\ frames # <<>>
                /\ frames' = Back
                /\ UNCHANGED <<document, pending, active, visited>>
    BY DEF Composed, Errors
  <1>6. Construct => (\E error \in Errors : Reject(error))
             \/ /\ verdict' = "guarding" /\ pending' = <<<<Root, FALSE>>>>
                /\ UNCHANGED <<document, frames, active, visited>>
    BY DEF Construct, Errors
  <1>7. QED
    BY <1>1, <1>2, <1>3, <1>4, <1>5, <1>6

(* A value that is no container, or is visited, leaves the stack.          *)
LEMMA SkipStep ==
    ASSUME GuardAssumption, GuardInv, Skip
    PROVE  GuardInv'
  <1>0. /\ TypeInv /\ VisitedInv /\ StackInv
        /\ verdict = "guarding" /\ pending # <<>> /\ pending' = Rest
        /\ Popped[1] \notin Containers \/ Popped[1] \in visited
        /\ UNCHANGED <<document, verdict, frames, active, visited>>
    BY DEF GuardInv, Skip, Guarding
  <1>1. PICK L : /\ PopsTo(pending, pending', L) /\ pending[L] = Popped
                 /\ pending' \in Seq((Containers \cup Scalars) \X BOOLEAN)
    BY <1>0, PopKeeps DEF PopsTo
  <1>2. StackFits(pending', active, visited)
    BY <1>0, <1>1, StackSkipped, GuardAssumption DEF GuardAssumption, StackInv
  <1>3. StackInv'
    BY <1>0, <1>2, StackPrimed
  <1>4. TypeInv'
    BY <1>0, <1>1 DEF TypeInv
  <1>5. QED
    BY <1>0, <1>3, <1>4, VisitedKept DEF GuardInv, Admitted

(* An exit on top: all below its container has been visited, so it may be. *)
LEMMA ExitStep ==
    ASSUME GuardAssumption, GuardInv, Exit
    PROVE  GuardInv'
  <1>0. /\ TypeInv /\ VisitedInv /\ StackInv
        /\ verdict = "guarding" /\ pending # <<>> /\ pending' = Rest /\ Popped[2]
        /\ active' = active \ {Popped[1]} /\ visited' = visited \cup {Popped[1]}
        /\ UNCHANGED <<document, verdict, frames>>
    BY DEF GuardInv, Exit, Guarding
  <1>1. PICK L : /\ PopsTo(pending, pending', L) /\ pending[L] = Popped
                 /\ pending' \in Seq((Containers \cup Scalars) \X BOOLEAN)
    BY <1>0, PopKeeps DEF PopsTo
  <1>2. PICK n : n = Popped[1]
    OBVIOUS
  <1>3. /\ n \in active /\ n \notin visited /\ ~BadReference(n) /\ Children(n) \subseteq visited
        /\ StackFits(pending', active', visited')
    <2>1. StackFits(pending, active, visited) /\ pending[L][1] = n /\ pending[L][2]
      BY <1>0, <1>1, <1>2 DEF StackInv
    <2>2. n \in active /\ n \notin visited /\ ~BadReference(n) /\ Children(n) \subseteq visited
      BY <1>1, <2>1, ExitDone
    <2>3. active' = active \ {pending[L][1]} /\ visited' = visited \cup {pending[L][1]}
      BY <1>0, <1>1
    <2>4. StackFits(pending', active', visited')
      BY <1>1, <2>1, <2>3, StackExited
    <2>5. QED
      BY <2>2, <2>4
  <1>4. StackInv'
    BY <1>0, <1>2, <1>3, StackPrimed
  <1>5. TypeInv'
    BY <1>0, <1>1, <1>2, <1>3 DEF TypeInv
  <1>6. \A m \in visited' : Children(m) \subseteq visited' /\ ~BadReference(m)
    BY <1>0, <1>2, <1>3 DEF VisitedInv
  <1>7. \A C \in SUBSET visited' : ~Round(C)
    BY <1>0, <1>2, <1>3, NoNewRound
  <1>8. VisitedInv'
    BY <1>0, <1>6, <1>7, DocumentKept DEF VisitedInv
  <1>9. QED
    BY <1>0, <1>4, <1>5, <1>8 DEF GuardInv, Admitted

(* A container is entered: its exit takes its place on the stack, and its  *)
(* values come above it.                                                   *)
LEMMA EnterShape ==
    ASSUME GuardAssumption, TypeInv, Enter, ~BadReference(Popped[1])
    PROVE  \E L, K, n, value :
               /\ n \in Containers /\ n = Popped[1] /\ pending[L] = Popped
               /\ EntersTo(pending, pending', L, K, n, value)
               /\ \A k \in 1 .. K : value[k] \in Containers => value[k] \in Children(n)
               /\ pending' \in Seq((Containers \cup Scalars) \X BOOLEAN)
               /\ active' = active \cup {n}
               /\ UNCHANGED <<document, verdict, frames, composed, nodes, aliases, visited>>
  <1>0. pending # <<>> /\ Popped[1] \in Containers
    BY DEF Enter, Guarding
  <1>1. PICK n \in Containers : n = Popped[1]
    BY <1>0
  <1>2. PICK s \in Seq(Entry) :
            /\ s = Entries(n)
            /\ \A i \in DOMAIN s : s[i].value \in Containers \cup Scalars
            /\ \A i \in DOMAIN s : s[i].value \in Containers => s[i].value \in Children(n)
            /\ \A c \in Children(n) : \E i \in DOMAIN s : s[i].value = c
    BY <1>0, EntriesTyped
  <1>3. PICK above : above = [i \in DOMAIN s |-> <<s[i].value, FALSE>>]
    OBVIOUS
  <1>4. /\ active' = active \cup {n}
        /\ pending' = Append(Rest, <<n, TRUE>>) \o above
        /\ UNCHANGED <<document, verdict, frames, composed, nodes, aliases, visited>>
    <2>1. /\ active' = active \cup {Popped[1]}
          /\ pending' = Append(Rest, <<Popped[1], TRUE>>)
                          \o [i \in DOMAIN Entries(Popped[1]) |->
                                <<Entries(Popped[1])[i].value, FALSE>>]
          /\ UNCHANGED <<document, verdict, frames, composed, nodes, aliases, visited>>
      BY DEF Enter
    <2>2. s = Entries(Popped[1])
      BY <1>1, <1>2
    <2> HIDE DEF Popped
    <2>3. QED
      BY <1>1, <1>3, <2>1, <2>2
  <1>5. PICK K \in Nat : K = Len(s) /\ DOMAIN s = 1 .. K
    OBVIOUS
  <1>6. above \in Seq((Containers \cup Scalars) \X BOOLEAN) /\ Len(above) = K
    <2>1. above \in [1 .. K -> (Containers \cup Scalars) \X BOOLEAN]
      BY <1>2, <1>3, <1>5
    <2>2. QED
      BY <2>1, LenProperties, SeqDef
  <1>7. PICK L \in Nat \ {0} :
            /\ DOMAIN pending = 1 .. L /\ Len(Rest) = L - 1
            /\ Rest \in Seq((Containers \cup Scalars) \X BOOLEAN)
            /\ \A i \in 1 .. L - 1 : Rest[i] = pending[i]
            /\ pending[L] = Popped
    BY <1>0, PopKeeps
  <1>8. /\ pending' \in Seq((Containers \cup Scalars) \X BOOLEAN)
        /\ DOMAIN pending' = 1 .. L + K
        /\ \A i \in 1 .. L - 1 : pending'[i] = pending[i]
        /\ pending'[L] = <<n, TRUE>>
        /\ \A k \in 1 .. K : pending'[L + k] = above[k]
    <2>1. <<n, TRUE>> \in (Containers \cup Scalars) \X BOOLEAN
      OBVIOUS
    <2>2. /\ pending' \in Seq((Containers \cup Scalars) \X BOOLEAN)
          /\ DOMAIN pending' = 1 .. Len(Rest) + 1 + Len(s)
          /\ \A i \in 1 .. Len(Rest) : pending'[i] = Rest[i]
          /\ pending'[Len(Rest) + 1] = <<n, TRUE>>
          /\ \A k \in 1 .. Len(s) : pending'[Len(Rest) + 1 + k] = above[k]
      <3>1. PICK T : T = (Containers \cup Scalars) \X BOOLEAN
        OBVIOUS
      <3>2. PICK t \in T : t = <<n, TRUE>>
        BY <2>1, <3>1
      <3>3. pending' = Append(Rest, t) \o above
        BY <1>4, <3>2
      <3>4. Rest \in Seq(T) /\ above \in Seq(T) /\ Len(above) = Len(s)
        BY <1>5, <1>6, <1>7, <3>1
      <3>5. /\ pending' \in Seq(T) /\ DOMAIN pending' = 1 .. Len(Rest) + 1 + Len(s)
            /\ \A i \in 1 .. Len(Rest) : pending'[i] = Rest[i]
            /\ pending'[Len(Rest) + 1] = t
            /\ \A k \in 1 .. Len(s) : pending'[Len(Rest) + 1 + k] = above[k]
        BY <3>3, <3>4, EnteredShape
      <3>6. QED
        BY <3>1, <3>2, <3>5
    <2>3. Len(Rest) + 1 = L
      BY <1>7
    <2>4. QED
      BY <1>5, <1>7, <2>2, <2>3
  <1>9. PICK value : value = [k \in 1 .. K |-> s[k].value]
    OBVIOUS
  <1>10. /\ \A k \in 1 .. K : above[k] = <<value[k], FALSE>>
         /\ \A c \in Children(n) : \E k \in 1 .. K : value[k] = c
         /\ \A k \in 1 .. K : value[k] \in Containers => value[k] \in Children(n)
    BY <1>2, <1>3, <1>5, <1>9
  <1>11. EntersTo(pending, pending', L, K, n, value)
    <2>1. \A k \in 1 .. K : pending'[L + k] = <<value[k], FALSE>>
      BY <1>8, <1>10
    <2>2. pending[L][1] = n
      BY <1>1, <1>7
    <2>3. QED
      BY <1>5, <1>7, <1>8, <1>10, <2>1, <2>2 DEF EntersTo
  <1>12. QED
    BY <1>1, <1>4, <1>7, <1>8, <1>10, <1>11

LEMMA EnterStep ==
    ASSUME GuardAssumption, GuardInv, Enter
    PROVE  GuardInv'
  <1>0. /\ TypeInv /\ VisitedInv /\ StackInv
        /\ verdict = "guarding" /\ pending # <<>>
        /\ Popped[1] \notin active /\ Popped[1] \notin visited
    BY DEF GuardInv, Enter, Guarding
  <1>1. CASE BadReference(Popped[1])
    BY <1>1, RejectStep DEF Enter, Errors
  <1>2. CASE ~BadReference(Popped[1])
    <2>1. PICK L, K, n, value :
              /\ n \in Containers /\ n = Popped[1] /\ pending[L] = Popped
              /\ EntersTo(pending, pending', L, K, n, value)
              /\ pending' \in Seq((Containers \cup Scalars) \X BOOLEAN)
              /\ active' = active \cup {n}
              /\ UNCHANGED <<document, verdict, frames, visited>>
      BY <1>0, <1>2, EnterShape
    <2>2. StackFits(pending', active', visited)
      <3>1. /\ StackFits(pending, active, visited) /\ pending[L][1] = n
            /\ n \notin active /\ n \notin visited /\ ~BadReference(n)
        BY <1>0, <1>2, <2>1 DEF StackInv
      <3>2. QED
        BY <2>1, <3>1, StackEntered
    <2>3. StackInv'
      BY <2>1, <2>2, StackPrimed
    <2>4. TypeInv'
      BY <1>0, <2>1 DEF TypeInv
    <2>5. QED
      BY <1>0, <2>1, <2>3, <2>4, VisitedKept DEF GuardInv, Admitted
  <1>3. QED
    BY <1>1, <1>2

LEMMA AdmitStep ==
    ASSUME GuardAssumption, GuardInv, Admit
    PROVE  GuardInv'
  <1>0. /\ TypeInv /\ VisitedInv /\ StackInv /\ pending = <<>>
        /\ verdict' = "locating" /\ frames' = <<<<Root, 1>>>>
        /\ UNCHANGED <<document, pending, active, visited>>
    BY DEF GuardInv, Admit
  <1>1. Root \in visited
    BY <1>0 DEF StackInv, StackFits
  <1>2. Root \in Containers
    BY DEF GuardAssumption
  <1>3. frames' \in Seq(Containers \X Nat) /\ Len(frames') = 1 /\ DOMAIN frames' = {1}
        /\ frames'[1] = <<Root, 1>>
    BY <1>0, <1>2
  <1>4. PathInv'
    BY <1>0, <1>1, <1>3 DEF PathInv
  <1>5. TypeInv'
    BY <1>0, <1>3 DEF TypeInv
  <1>6. QED
    BY <1>0, <1>1, <1>4, <1>5, VisitedKept DEF GuardInv, Admitted

(* A container the recursion comes back to would close a round of visited  *)
(* containers: the frames from its first occurrence on.                    *)
LEMMA NewOnPath ==
    ASSUME TypeInv, VisitedInv, PathInv, frames # <<>>, NEW c \in Children(Top[1])
    PROVE  \A i \in DOMAIN frames : frames[i][1] # c
  <1> SUFFICES ASSUME NEW i \in DOMAIN frames, frames[i][1] = c PROVE FALSE
    OBVIOUS
  <1> DEFINE L == Len(frames)
             C == {frames[k][1] : k \in i .. L}
  <1>1. L \in Nat \ {0} /\ DOMAIN frames = 1 .. L /\ i \in 1 .. L
    BY DEF TypeInv
  <1>2. C \in SUBSET visited
    BY <1>1 DEF PathInv
  <1>3. ASSUME NEW k \in i .. L PROVE Children(frames[k][1]) \cap C # {}
    <2>1. CASE k = L
      BY <1>1, <2>1 DEF Top
    <2>2. CASE k # L
      <3>1. k \in DOMAIN frames /\ k < L /\ k + 1 \in i .. L
        <4> HIDE DEF L
        <4>1. QED
          BY <1>1, <2>2
      <3>2. frames[k + 1][1] \in Children(frames[k][1])
        BY <3>1 DEF PathInv
      <3>3. QED
        BY <3>1, <3>2
    <2>3. QED
      BY <2>1, <2>2
  <1>4. C # {}
    BY <1>1
  <1>5. Round(C)
    BY <1>3, <1>4 DEF Round
  <1>6. QED
    BY <1>2, <1>5 DEF VisitedInv

LEMMA LocateStep ==
    ASSUME GuardAssumption, GuardInv, Locate
    PROVE  GuardInv'
  <1> DEFINE L == Len(frames)
             entries == Entries(Top[1])
  <1>0. /\ TypeInv /\ VisitedInv /\ PathInv /\ Root \in visited
        /\ verdict = "locating" /\ frames # <<>>
        /\ UNCHANGED <<document, verdict, pending, active, visited>>
    BY DEF GuardInv, Locate, Admitted
  <1>1. Top[1] \in Containers /\ Top[1] \in visited
    BY <1>0 DEF TypeInv, PathInv, Top
  <1>2. L \in Nat \ {0} /\ DOMAIN frames = 1 .. L
    BY <1>0 DEF TypeInv
  <1>3. CASE frames' = Back
    <2>1. TypeInv'
      BY <1>0, <1>1, <1>3, FramesTyped DEF TypeInv
    <2>2. /\ Len(frames') = L - 1 /\ DOMAIN frames' = 1 .. L - 1
          /\ \A i \in 1 .. L - 1 : frames'[i] = frames[i]
      BY <1>0, <1>1, <1>3, FrameNodes
    <2>3. PathInv'
      <3>1. \A i \in DOMAIN frames' :
               /\ i \in DOMAIN frames /\ frames'[i] = frames[i]
               /\ i < Len(frames') => i < Len(frames) /\ i + 1 \in DOMAIN frames'
        BY <1>2, <2>2
      <3>2. QED
        BY <1>0, <3>1, DocumentKept DEF PathInv
    <2>4. QED
      BY <1>0, <2>1, <2>3, VisitedKept DEF GuardInv, Admitted
  <1>4. CASE frames' = Onward
    <2>1. TypeInv'
      BY <1>0, <1>1, <1>4, FramesTyped DEF TypeInv
    <2>2. /\ Len(frames') = L /\ DOMAIN frames' = 1 .. L
          /\ \A i \in 1 .. L : frames'[i][1] = frames[i][1]
      BY <1>0, <1>1, <1>2, <1>4, FrameNodes
    <2>3. PathInv'
      BY <1>0, <1>2, <2>2, DocumentKept DEF PathInv
    <2>4. QED
      BY <1>0, <2>1, <2>3, VisitedKept DEF GuardInv, Admitted
  <1>5. CASE \E c \in Children(Top[1]) : frames' = Deeper(c)
    <2>1. PICK c \in Children(Top[1]) : frames' = Deeper(c)
      BY <1>5
    <2>2. c \in Containers /\ c \in visited
      BY <1>0, <1>1 DEF Children, VisitedInv
    <2>3. TypeInv'
      BY <1>0, <2>1, <2>2, FramesTyped DEF TypeInv
    <2>4. /\ Len(frames') = L + 1 /\ DOMAIN frames' = 1 .. L + 1
          /\ \A i \in 1 .. L : frames'[i][1] = frames[i][1]
          /\ frames'[L + 1][1] = c
      <3>1. PICK d : d = Deeper(c)
        OBVIOUS
      <3>2. /\ Len(d) = Len(frames) + 1 /\ DOMAIN d = 1 .. Len(frames) + 1
            /\ \A i \in DOMAIN frames : d[i][1] = frames[i][1]
            /\ d[Len(frames) + 1][1] = c
        BY <1>0, <2>2, <3>1, FrameNodes
      <3>3. frames' = d
        BY <2>1, <3>1
      <3>4. QED
        BY <1>2, <3>2, <3>3
    <2>5. \A i \in 1 .. L : frames[i][1] # c
      BY <1>0, <1>2, NewOnPath
    <2>6. \A i \in 1 .. L + 1 : i \in 1 .. L \/ i = L + 1
      BY <1>2
    <2>7. \A i \in DOMAIN frames' : frames'[i][1] \in visited'
      BY <1>0, <1>2, <2>2, <2>4, <2>6 DEF PathInv
    <2>8. ASSUME NEW i \in DOMAIN frames', i < Len(frames')
          PROVE  frames'[i + 1][1] \in Children(frames'[i][1])
      <3>1. i \in 1 .. L /\ (i < L \/ i = L)
        BY <1>2, <2>4, <2>8
      <3>2. CASE i < L
        <4>1. i + 1 \in 1 .. L
          BY <1>2, <3>1, <3>2
        <4>2. QED
          BY <1>0, <1>2, <2>4, <3>1, <3>2, <4>1 DEF PathInv
      <3>3. CASE i = L
        BY <1>2, <2>1, <2>4, <3>1, <3>3 DEF Top
      <3>4. QED
        BY <3>1, <3>2, <3>3
    <2>9. \A i, j \in DOMAIN frames' : frames'[i][1] = frames'[j][1] => i = j
      BY <1>0, <1>2, <2>4, <2>5, <2>6 DEF PathInv
    <2>10. PathInv'
      BY <1>0, <2>7, <2>8, <2>9, DocumentKept DEF PathInv
    <2>11. QED
      BY <1>0, <2>3, <2>10, VisitedKept DEF GuardInv, Admitted
  <1>6. frames' = Back \/ frames' = Onward \/ \E c \in Children(Top[1]) : frames' = Deeper(c)
    <2>1. \A i \in DOMAIN entries : entries[i].value \in Containers =>
              entries[i].value \in Children(Top[1])
      BY <1>0, <1>1, EntriesTyped
    <2>2. QED
      BY <2>1 DEF Locate
  <1>7. QED
    BY <1>3, <1>4, <1>5, <1>6

LEMMA LastStep ==
    ASSUME GuardInv, Load \/ Validate
    PROVE  GuardInv'
  <1>1. /\ verdict' \in {"validating", "valid", "invalid"} /\ Admitted
        /\ UNCHANGED <<document, frames, pending, active, visited>>
    BY DEF Load, Validate, Admitted
  <1>2. TypeInv' /\ VisitedInv' /\ Root \in visited'
    BY <1>1, VisitedKept DEF GuardInv, TypeInv
  <1>3. QED
    BY <1>1, <1>2 DEF GuardInv

----------------------------------------------------------------------------
(* A document that begins to be composed.                                  *)
LEMMA InitEstablishes == GuardInit => GuardInv
  <1> USE GuardAssumption
  <1> SUFFICES ASSUME GuardInit PROVE GuardInv
    OBVIOUS
  <1>1. Root \in Containers
    BY DEF GuardAssumption
  <1>2. frames \in Seq(Containers \X Nat)
    BY <1>1 DEF GuardInit
  <1>3. TypeInv
    BY <1>2 DEF GuardInit, TypeInv
  <1>4. VisitedInv
    BY DEF GuardInit, VisitedInv, Round
  <1>5. QED
    BY <1>3, <1>4 DEF GuardInit, GuardInv, Admitted

(* The invariant of the composer, the walk and the recursion, for every    *)
(* document and every limit.                                               *)
THEOREM GuardInvariant == GuardSpec => []GuardInv
  <1> USE GuardAssumption
  <1>1. GuardInit => GuardInv
    BY InitEstablishes
  <1>2. GuardInv /\ [GuardNext]_guardVars => GuardInv'
    <2> SUFFICES ASSUME GuardInv, [GuardNext]_guardVars PROVE GuardInv'
      OBVIOUS
    <2>1. CASE UNCHANGED guardVars
      <3>1. /\ UNCHANGED <<document, verdict, frames, pending, active, visited>>
        BY <2>1 DEF guardVars
      <3>2. VisitedInv' /\ TypeInv'
        BY <3>1, VisitedKept DEF GuardInv, TypeInv
      <3>3. StackInv => StackInv'
        BY <3>1, StackPrimed DEF StackInv
      <3>4. PathInv => PathInv'
        BY <3>1, DocumentKept DEF PathInv
      <3>5. QED
        BY <3>1, <3>2, <3>3, <3>4 DEF GuardInv, Admitted
    <2>2. CASE Cycle
      BY <2>2, RejectStep DEF Cycle, Errors
    <2>3. QED
      BY <2>1, <2>2, ComposeStep, SkipStep, ExitStep, EnterStep, AdmitStep, LocateStep,
         LastStep DEF GuardNext
  <1>3. QED
    BY <1>1, <1>2, PTL DEF GuardSpec

(* What the guard admits has been seen as a whole and has neither a cycle  *)
(* nor a bad reference, however its containers are shared                  *)
(* (specification_guard.py:119-145).                                       *)
THEOREM AdmittedHasNoCycle == GuardSpec => []AdmittedIsSound
  <1>1. GuardInv => AdmittedIsSound
    BY DEF GuardInv, VisitedInv, AdmittedIsSound
  <1>2. QED
    BY <1>1, GuardInvariant, PTL

(* The loader's recursion never holds a container twice, so it is no       *)
(* deeper than the document has containers (loader.py:77-100).             *)
THEOREM RecursionNeverRepeats == GuardSpec => []LoaderRecursionBounded
  <1>1. GuardInv => LoaderRecursionBounded
    BY DEF GuardInv, PathInv, LoaderRecursionBounded
  <1>2. QED
    BY <1>1, GuardInvariant, PTL

----------------------------------------------------------------------------
(* Refusals.  What is below the root is closed under children.             *)
LEMMA ReachableIsClosed ==
    ASSUME GuardAssumption
    PROVE  /\ Root \in Reachable /\ Reachable \subseteq Containers
           /\ \A n \in Reachable : Children(n) \subseteq Reachable
  <1>1. Root \in Reachable /\ Reachable \subseteq Containers
    BY DEF Reachable, Closed, GuardAssumption
  <1>2. ASSUME NEW n \in Reachable, NEW c \in Children(n) PROVE c \in Reachable
    <2>1. c \in Containers
      BY DEF Children
    <2>2. ASSUME NEW C \in SUBSET Containers, Closed(C) PROVE c \in C
      <3>1. n \in C
        BY <2>2 DEF Reachable
      <3>2. QED
        BY <2>2, <3>1 DEF Closed
    <2>3. QED
      BY <2>1, <2>2 DEF Reachable
  <1>3. QED
    BY <1>1, <1>2

LEMMA ReachableKept ==
    ASSUME document' = document
    PROVE  /\ Reachable' = Reachable /\ Uses' = Uses
           /\ CycleExists' = CycleExists /\ BadReferenceExists' = BadReferenceExists
           /\ LimitsExceeded' = LimitsExceeded
  <1>1. Reachable' = Reachable
    BY DocumentKept DEF Reachable, Closed
  <1>2. Uses' = Uses
    BY <1>1 DEF Uses, Entries
  <1>3. CycleExists' = CycleExists /\ BadReferenceExists' = BadReferenceExists
    BY <1>1, DocumentKept DEF CycleExists, BadReferenceExists
  <1>4. QED
    BY <1>1, <1>2, <1>3 DEF LimitsExceeded

(* Each value of the stack is one of the container whose exit is the next  *)
(* below it, and each active container has its exit there: the exits are   *)
(* the way from the root to the container that is being walked.            *)
ParentAt(stack, i, j) ==
    /\ j < i /\ stack[j][2]
    /\ stack[i][1] \in Containers => stack[i][1] \in Children(stack[j][1])
    /\ \A k \in j + 1 .. i - 1 : ~stack[k][2]

ChainFits(stack, open) ==
    /\ \A n \in open : \E i \in DOMAIN stack : stack[i][2] /\ stack[i][1] = n
    /\ \A i \in DOMAIN stack : i # 1 => \E j \in DOMAIN stack : ParentAt(stack, i, j)
    /\ \A i \in DOMAIN stack :
          stack[i][2] \/ stack[i][1] \in Containers => stack[i][1] \in Reachable

ChainInv == ChainFits(pending, active)

LEMMA ChainPrimed ==
    ASSUME document' = document, ChainFits(pending', active')
    PROVE  ChainInv'
  BY ReachableKept, DocumentKept DEF ChainInv, ChainFits, ParentAt

(* The stack loses its top: whoever had his exit below keeps it.           *)
LEMMA ChainPopped ==
    ASSUME NEW p, NEW q, NEW open, NEW openNow, NEW L, PopsTo(p, q, L),
           ChainFits(p, open), openNow \subseteq open,
           p[L][2] => p[L][1] \notin openNow
    PROVE  ChainFits(q, openNow)
  <1>0. /\ L \in Nat \ {0} /\ DOMAIN p = 1 .. L /\ DOMAIN q = 1 .. L - 1
        /\ \A i \in 1 .. L - 1 : q[i] = p[i] /\ i \in 1 .. L /\ i # L
        /\ \A i \in 1 .. L : i \in 1 .. L - 1 \/ i = L
    BY DEF PopsTo
  <1>1. \A n \in openNow : \E i \in 1 .. L - 1 : q[i][2] /\ q[i][1] = n
    <2> TAKE n \in openNow
    <2>1. PICK i \in 1 .. L : p[i][2] /\ p[i][1] = n
      BY <1>0 DEF ChainFits
    <2>2. i # L
      BY <2>1
    <2>3. QED
      BY <1>0, <2>1, <2>2
  <1>2. ASSUME NEW i \in 1 .. L - 1, i # 1
        PROVE  \E j \in 1 .. L - 1 : ParentAt(q, i, j)
    <2>1. PICK j \in 1 .. L : ParentAt(p, i, j)
      BY <1>0, <1>2 DEF ChainFits
    <2>2. j \in 1 .. L - 1 /\ \A k \in j + 1 .. i - 1 : k \in 1 .. L - 1
      BY <1>0, <2>1 DEF ParentAt
    <2>3. ParentAt(q, i, j)
      BY <1>0, <2>1, <2>2 DEF ParentAt
    <2>4. QED
      BY <2>2, <2>3
  <1>3. \A i \in 1 .. L - 1 :
            q[i][2] \/ q[i][1] \in Containers => q[i][1] \in Reachable
    BY <1>0 DEF ChainFits
  <1>4. QED
    BY <1>0, <1>1, <1>2, <1>3 DEF ChainFits

(* The exit takes the place of its container, and is below its values.     *)
LEMMA ChainEntered ==
    ASSUME GuardAssumption, NEW p, NEW q, NEW open, NEW openNow, NEW L, NEW K, NEW n, NEW value,
           EntersTo(p, q, L, K, n, value), ChainFits(p, open),
           openNow = open \cup {n}, n \in Containers, ~p[L][2],
           \A k \in 1 .. K : value[k] \in Containers => value[k] \in Children(n)
    PROVE  ChainFits(q, openNow)
  <1>0. /\ L \in Nat \ {0} /\ DOMAIN p = 1 .. L /\ p[L][1] = n
        /\ K \in Nat /\ DOMAIN q = 1 .. L + K
        /\ \A i \in 1 .. L - 1 : q[i] = p[i]
        /\ q[L] = <<n, TRUE>>
        /\ \A k \in 1 .. K : q[L + k] = <<value[k], FALSE>>
    BY DEF EntersTo
  <1>1. /\ q[L][1] = n /\ q[L][2]
        /\ \A k \in 1 .. K : q[L + k][1] = value[k] /\ ~q[L + k][2]
        /\ L \in 1 .. L /\ L \in 1 .. L + K
        /\ \A i \in 1 .. L : i \in 1 .. L + K /\ (i \in 1 .. L - 1 \/ i = L)
        /\ \A i \in 1 .. L - 1 : i \in 1 .. L
    <2>1. q[L][1] = n /\ q[L][2]
      BY <1>0
    <2>2. ASSUME NEW k \in 1 .. K PROVE q[L + k][1] = value[k] /\ ~q[L + k][2]
      <3>1. q[L + k] = <<value[k], FALSE>>
        BY <1>0
      <3>2. QED
        BY <3>1
    <2>3. /\ L \in 1 .. L /\ L \in 1 .. L + K
          /\ \A i \in 1 .. L : i \in 1 .. L + K /\ (i \in 1 .. L - 1 \/ i = L)
          /\ \A i \in 1 .. L - 1 : i \in 1 .. L
      BY <1>0
    <2>4. QED
      BY <2>1, <2>2, <2>3
  <1>2. ASSUME NEW i \in 1 .. L + K, i > L
        PROVE  ~q[i][2] /\ (q[i][1] \in Containers => q[i][1] \in Children(n))
    <2>1. PICK k \in 1 .. K : i = L + k
      <3>1. i - L \in 1 .. K /\ i = L + (i - L)
        BY <1>0, <1>2
      <3>2. QED
        BY <3>1
    <2>2. QED
      BY <1>1, <2>1
  <1>3. n \in Reachable /\ Children(n) \subseteq Reachable
    BY <1>0, <1>1, ReachableIsClosed DEF ChainFits
  <1>4. \A m \in openNow : \E i \in 1 .. L + K : q[i][2] /\ q[i][1] = m
    <2> TAKE m \in openNow
    <2>1. CASE m = n
      BY <1>1, <2>1
    <2>2. CASE m \in open
      <3>1. PICK i \in 1 .. L : p[i][2] /\ p[i][1] = m
        BY <1>0, <2>2 DEF ChainFits
      <3>2. i \in 1 .. L - 1 /\ i \in 1 .. L + K
        BY <1>1, <3>1
      <3>3. QED
        BY <1>0, <3>1, <3>2
    <2>3. QED
      BY <2>1, <2>2
  <1>5. ASSUME NEW i \in 1 .. L + K, i # 1
        PROVE  \E j \in 1 .. L + K : ParentAt(q, i, j)
    <2>1. CASE i \in 1 .. L
      <3>1. PICK j \in 1 .. L : ParentAt(p, i, j)
        BY <1>0, <1>5, <2>1 DEF ChainFits
      <3>2. j \in 1 .. L - 1 /\ j \in 1 .. L + K /\ \A k \in j + 1 .. i - 1 : k \in 1 .. L - 1
        BY <1>0, <2>1, <3>1 DEF ParentAt
      <3>3. q[i][1] = p[i][1]
        BY <1>0, <1>1, <2>1
      <3>4. ParentAt(q, i, j)
        BY <1>0, <3>1, <3>2, <3>3 DEF ParentAt
      <3>5. QED
        BY <3>2, <3>4
    <2>2. CASE i > L
      <3>1. \A k \in L + 1 .. i - 1 : k \in 1 .. L + K /\ k > L
        BY <1>0, <2>2
      <3>2. ParentAt(q, i, L)
        BY <1>1, <1>2, <2>2, <3>1 DEF ParentAt
      <3>3. QED
        BY <1>1, <3>2
    <2>3. QED
      BY <1>0, <2>1, <2>2
  <1>6. ASSUME NEW i \in 1 .. L + K, q[i][2] \/ q[i][1] \in Containers
        PROVE  q[i][1] \in Reachable
    <2>1. CASE i > L
      BY <1>2, <1>3, <1>6, <2>1
    <2>2. CASE i = L
      BY <1>1, <1>3, <2>2
    <2>3. CASE i \in 1 .. L - 1
      BY <1>0, <1>1, <1>6, <2>3 DEF ChainFits
    <2>4. QED
      BY <1>0, <2>1, <2>2, <2>3
  <1>7. QED
    BY <1>0, <1>4, <1>5, <1>6 DEF ChainFits

(* An active container that is met again closes a round: the containers of *)
(* the exits from its own on.                                              *)
LEMMA CycleCloses ==
    ASSUME GuardAssumption, NEW p, NEW open, NEW L \in Nat \ {0}, DOMAIN p = 1 .. L,
           ChainFits(p, open), ~p[L][2], p[L][1] \in open, p[L][1] \in Containers
    PROVE  CycleExists
  <1>1. PICK e \in 1 .. L : p[e][2] /\ p[e][1] = p[L][1]
    BY DEF ChainFits
  <1>2. PICK X : X = {k \in e .. L : p[k][2]}
    OBVIOUS
  <1>3. e \in X /\ L \notin X /\ \A k \in X : k \in 1 .. L /\ k < L /\ p[k][2] /\ k >= e
    BY <1>1, <1>2
  <1>4. PICK C : C = {p[k][1] : k \in X}
    OBVIOUS
  <1>5. C \subseteq Reachable /\ C # {}
    BY <1>3, <1>4 DEF ChainFits
  <1>6. ASSUME NEW k \in X PROVE Children(p[k][1]) \cap C # {}
    <2>1. PICK T : T = {m \in k + 1 .. L : p[m][2] \/ m = L}
      OBVIOUS
    <2>2. T \in SUBSET (1 .. L) /\ L \in T
      BY <1>3, <2>1
    <2>3. PICK m \in T : \A i \in T : m <= i
      BY <2>2, LeastIndex
    <2>4. m \in 1 .. L /\ m # 1 /\ m > k /\ m >= e /\ m \in e .. L
      BY <1>3, <2>1, <2>2
    <2>5. PICK j \in 1 .. L : ParentAt(p, m, j)
      BY <2>4 DEF ChainFits
    <2>6. j = k
      <3>0. j \in Int /\ k \in Int
        BY <1>3
      <3>1. CASE j < k
        <4>1. k \in j + 1 .. m - 1
          BY <1>3, <2>4, <3>1
        <4>2. QED
          BY <1>3, <2>5, <4>1 DEF ParentAt
      <3>2. CASE j > k
        <4>1. j \in k + 1 .. L /\ p[j][2] /\ j < m
          BY <1>3, <2>5, <3>2 DEF ParentAt
        <4>2. j \in T
          BY <2>1, <4>1
        <4>3. m <= j
          BY <2>3, <4>2
        <4>4. QED
          BY <2>4, <4>1, <4>3
      <3>3. QED
        BY <3>0, <3>1, <3>2
    <2>7. p[m][2] \/ m = L
      BY <2>1
    <2>8. p[m][1] \in Containers
      BY <2>4, <2>7, ReachableIsClosed DEF ChainFits
    <2>9. p[m][1] \in Children(p[k][1])
      BY <2>5, <2>6, <2>8 DEF ParentAt
    <2>10. p[m][1] \in C
      <3>1. CASE p[m][2]
        BY <1>2, <1>4, <2>4, <3>1
      <3>2. CASE m = L
        BY <1>1, <1>3, <1>4, <3>2
      <3>3. QED
        BY <2>7, <3>1, <3>2
    <2>11. QED
      BY <2>9, <2>10
  <1>7. Round(C)
    BY <1>4, <1>5, <1>6 DEF Round
  <1>8. QED
    BY <1>5, <1>7 DEF CycleExists

----------------------------------------------------------------------------
(* What the composer has counted: the entries before the place of a frame, *)
(* and all those of a container that it is done with.                      *)
Before(f, S) ==
    {u \in Uses : /\ u[1] \in S
                  /\ \A k \in DOMAIN f : f[k][1] = u[1] => u[2] < f[k][2]}

(* The recursion holds containers below the root, each once; an entry it   *)
(* is past has counted as a key, if it has one, and as a node or an alias. *)
FramesFit(f, S) ==
    /\ \A k \in DOMAIN f : f[k][1] \in S /\ f[k][2] # 0
    /\ \A j, k \in DOMAIN f : f[j][1] = f[k][1] => j = k
    /\ S \subseteq Reachable

CountsFit(number, again, f, S) ==
    /\ number \in Nat /\ again \in Nat
    /\ number <= 2 * Cardinality(Before(f, S)) + 1
    /\ again <= Cardinality(Before(f, S))

ComposingInv == FramesFit(frames, composed) /\ CountsFit(nodes, aliases, frames, composed)

LEMMA ComposingPrimed ==
    ASSUME document' = document, FramesFit(frames', composed'),
           CountsFit(nodes', aliases', frames', composed')
    PROVE  ComposingInv'
  BY ReachableKept DEF ComposingInv, FramesFit, CountsFit, Before

LEMMA UsesTyped ==
    ASSUME GuardAssumption, TypeInv
    PROVE  /\ \A u \in Uses : /\ u = <<u[1], u[2]>> /\ u[1] \in Reachable
                              /\ u[2] \in DOMAIN Entries(u[1]) /\ u[2] \in Nat \ {0}
           /\ \A n \in Reachable : \A i \in DOMAIN Entries(n) : <<n, i>> \in Uses
           /\ \A n \in Reachable : \E K \in Nat : DOMAIN Entries(n) = 1 .. K
  <1>1. \A n \in Reachable : \E K \in Nat : DOMAIN Entries(n) = 1 .. K
    <2> TAKE n \in Reachable
    <2>1. Entries(n) \in Seq(Entry)
      BY ReachableIsClosed, EntriesTyped
    <2>2. QED
      BY <2>1
  <1>2. QED
    BY <1>1 DEF Uses

LEMMA UsesFinite ==
    ASSUME GuardAssumption, TypeInv
    PROVE  IsFiniteSet(Uses)
  <1>1. IsFiniteSet(Reachable)
    BY ReachableIsClosed, FS_Subset DEF GuardAssumption
  <1>2. PICK g : g = [n \in Reachable |-> {n} \X DOMAIN Entries(n)]
    OBVIOUS
  <1>3. PICK T : T = {g[n] : n \in Reachable}
    OBVIOUS
  <1>4. g \in Surjection(Reachable, T)
    BY <1>2, <1>3 DEF Surjection
  <1>5. IsFiniteSet(T)
    BY <1>1, <1>4, FS_Surjection
  <1>6. ASSUME NEW t \in T PROVE IsFiniteSet(t)
    <2>1. PICK n \in Reachable : t = {n} \X DOMAIN Entries(n)
      BY <1>2, <1>3
    <2>2. PICK K \in Nat : DOMAIN Entries(n) = 1 .. K
      BY UsesTyped
    <2>3. IsFiniteSet(1 .. K)
      <3>1. 1 \in Int /\ K \in Int
        BY <2>2
      <3>2. QED
        BY <3>1, FS_Interval
    <2>4. IsFiniteSet({n})
      BY FS_Singleton
    <2>5. QED
      BY <2>1, <2>2, <2>3, <2>4, FS_Product
  <1>7. Uses = UNION T
    BY <1>2, <1>3 DEF Uses
  <1>8. QED
    BY <1>5, <1>6, <1>7, FS_UNION

(* One entry further in the container on top: one use more is counted.     *)
OnwardTo(f, g, L, n, p) ==
    /\ L \in Nat \ {0} /\ p \in Nat /\ p \in DOMAIN Entries(n)
    /\ DOMAIN f = 1 .. L /\ DOMAIN g = 1 .. L
    /\ \A i \in 1 .. L - 1 : g[i] = f[i]
    /\ f[L] = <<n, p>> /\ g[L] = <<n, p + 1>>

OneMore(f, g, S, use) ==
    /\ Before(g, S) = Before(f, S) \cup {use}
    /\ use \notin Before(f, S) /\ use \in Uses

LEMMA BeforeOnward ==
    ASSUME GuardAssumption, TypeInv, NEW f, NEW g, NEW S, NEW L, NEW n, NEW p, NEW use,
           FramesFit(f, S), OnwardTo(f, g, L, n, p), use = <<n, p>>
    PROVE  OneMore(f, g, S, use) /\ FramesFit(g, S)
  <1>0. /\ L \in Nat \ {0} /\ p \in Nat /\ p \in DOMAIN Entries(n)
        /\ DOMAIN f = 1 .. L /\ DOMAIN g = 1 .. L
        /\ \A i \in 1 .. L - 1 : g[i] = f[i]
        /\ f[L] = <<n, p>> /\ g[L] = <<n, p + 1>>
    BY DEF OnwardTo
  <1>1. /\ f[L][1] = n /\ f[L][2] = p /\ g[L][1] = n /\ g[L][2] = p + 1
        /\ <<n, p>>[1] = n /\ <<n, p>>[2] = p
        /\ L \in 1 .. L /\ \A i \in 1 .. L : i \in 1 .. L - 1 \/ i = L
        /\ \A i \in 1 .. L - 1 : i \in 1 .. L /\ i # L
    BY <1>0
  <1>2. n \in S /\ n \in Reachable /\ <<n, p>> \in Uses
    BY <1>0, <1>1, UsesTyped DEF FramesFit
  <1>3. \A i \in 1 .. L : (f[i][1] = n => i = L) /\ (g[i][1] = n => i = L)
    BY <1>0, <1>1 DEF FramesFit
  <1>4. <<n, p>> \notin Before(f, S)
    BY <1>0, <1>1 DEF Before
  <1>5. ASSUME NEW u \in Uses
        PROVE  u \in Before(g, S) <=> u \in Before(f, S) \/ u = <<n, p>>
    <2>1. u = <<u[1], u[2]>> /\ u[2] \in Nat
      BY <1>0, UsesTyped
    <2>2. CASE u[1] = n
      <3>1. u \in Before(g, S) <=> u[2] < p + 1
        <4>1. \A i \in DOMAIN g : g[i][1] = n => g[i][2] = p + 1
          BY <1>0, <1>1, <1>3
        <4>2. L \in DOMAIN g /\ g[L][1] = n /\ g[L][2] = p + 1
          BY <1>0, <1>1
        <4>3. QED
          BY ONLY u \in Uses, <1>2, <2>2, <4>1, <4>2 DEF Before
      <3>2. u \in Before(f, S) <=> u[2] < p
        BY <1>0, <1>1, <1>2, <1>3, <2>2 DEF Before
      <3>3. u = <<n, p>> <=> u[2] = p
        BY <1>0, <2>1, <2>2
      <3>4. QED
        BY <1>0, <2>1, <3>1, <3>2, <3>3
    <2>3. CASE u[1] # n
      <3>1. u # <<n, p>>
        BY <1>0, <1>1, <2>3
      <3>2. u \in Before(g, S) <=> u \in Before(f, S)
        BY <1>0, <1>1, <2>3 DEF Before
      <3>3. QED
        BY <3>1, <3>2
    <2>4. QED
      BY <2>2, <2>3
  <1>6. Before(g, S) \subseteq Uses /\ Before(f, S) \subseteq Uses
    BY DEF Before
  <1>7. FramesFit(g, S)
    <2>1. \A k \in 1 .. L : g[k][1] = f[k][1] /\ g[k][2] # 0
      BY <1>0, <1>1 DEF FramesFit
    <2>2. QED
      BY <1>0, <2>1 DEF FramesFit
  <1>8. Before(g, S) = Before(f, S) \cup {<<n, p>>}
    BY <1>2, <1>5, <1>6
  <1>9. QED
    BY <1>2, <1>4, <1>7, <1>8 DEF OneMore

(* A container that is entered has none of its entries counted yet.        *)
LEMMA BeforeDeeper ==
    ASSUME GuardAssumption, TypeInv, NEW g, NEW h, NEW S, NEW L \in Nat, NEW m,
           FramesFit(g, S), DOMAIN g = 1 .. L, DOMAIN h = 1 .. L + 1,
           \A i \in 1 .. L : h[i] = g[i], h[L + 1] = <<m, 1>>, m \notin S, m \in Reachable
    PROVE  /\ Before(h, S \cup {m}) = Before(g, S)
           /\ FramesFit(h, S \cup {m})
  <1>1. /\ h[L + 1][1] = m /\ h[L + 1][2] = 1
        /\ L + 1 \in 1 .. L + 1 /\ \A i \in 1 .. L + 1 : i \in 1 .. L \/ i = L + 1
        /\ \A i \in 1 .. L : i \in 1 .. L + 1 /\ i # L + 1
    OBVIOUS
  <1>2. ASSUME NEW u \in Uses
        PROVE  u \in Before(h, S \cup {m}) <=> u \in Before(g, S)
    <2>1. u[2] \in Nat \ {0}
      BY UsesTyped
    <2>2. CASE u[1] = m
      <3>1. ~(u[2] < 1)
        BY <2>1
      <3>2. u \notin Before(h, S \cup {m})
        BY <1>1, <2>2, <3>1 DEF Before
      <3>3. QED
        BY <2>2, <3>2 DEF Before
    <2>3. CASE u[1] # m
      BY <1>1, <2>3 DEF Before
    <2>4. QED
      BY <2>2, <2>3
  <1>3. FramesFit(h, S \cup {m})
    <2>1. \A k \in 1 .. L : h[k][1] \in S /\ h[k][1] # m /\ h[k][2] # 0
      BY DEF FramesFit
    <2>2. \A j, k \in 1 .. L + 1 : h[j][1] = h[k][1] => j = k
      BY <1>1, <2>1 DEF FramesFit
    <2>3. QED
      BY <1>1, <2>1, <2>2 DEF FramesFit
  <1>4. QED
    BY <1>2, <1>3 DEF Before

(* A container that is left has all of its entries counted.                *)
LEMMA BeforeBack ==
    ASSUME GuardAssumption, TypeInv, NEW f, NEW g, NEW S, NEW L \in Nat \ {0}, NEW n, NEW p \in Nat,
           FramesFit(f, S), DOMAIN f = 1 .. L, DOMAIN g = 1 .. L - 1,
           \A i \in 1 .. L - 1 : g[i] = f[i],
           f[L] = <<n, p>>, p \notin DOMAIN Entries(n)
    PROVE  Before(g, S) = Before(f, S) /\ FramesFit(g, S)
  <1>1. /\ f[L][1] = n /\ f[L][2] = p
        /\ L \in 1 .. L /\ \A i \in 1 .. L : i \in 1 .. L - 1 \/ i = L
        /\ \A i \in 1 .. L - 1 : i \in 1 .. L /\ i # L
    OBVIOUS
  <1>2. n \in S /\ n \in Reachable /\ p # 0
    BY <1>1 DEF FramesFit
  <1>3. \A u \in Uses : u[1] = n => u[2] < p
    <2> TAKE u \in Uses
    <2> HAVE u[1] = n
    <2>1. PICK K \in Nat : DOMAIN Entries(n) = 1 .. K
      BY <1>2, UsesTyped
    <2>2. u[2] \in 1 .. K
      BY <2>1, UsesTyped
    <2>3. QED
      BY <1>2, <2>1, <2>2
  <1>4. ASSUME NEW u \in Uses PROVE u \in Before(g, S) <=> u \in Before(f, S)
    BY <1>1, <1>3 DEF Before
  <1>5. FramesFit(g, S)
    BY <1>1 DEF FramesFit
  <1>6. QED
    BY <1>4, <1>5 DEF Before

(* The frames after each way to go on.                                     *)
LEMMA FrameShapes ==
    ASSUME TypeInv, frames # <<>>
    PROVE  \E L \in Nat \ {0}, n \in Containers, p \in Nat :
               /\ L = Len(frames) /\ DOMAIN frames = 1 .. L
               /\ Top = <<n, p>> /\ frames[L] = <<n, p>>
               /\ DOMAIN Onward = 1 .. L /\ Onward[L] = <<n, p + 1>>
               /\ \A i \in 1 .. L - 1 : Onward[i] = frames[i]
               /\ DOMAIN Back = 1 .. L - 1 /\ \A i \in 1 .. L - 1 : Back[i] = frames[i]
               /\ \A m \in Containers :
                     /\ DOMAIN Deeper(m) = 1 .. L + 1 /\ Deeper(m)[L + 1] = <<m, 1>>
                     /\ \A i \in 1 .. L : Deeper(m)[i] = Onward[i]
  <1>1. PICK n \in Containers, p \in Nat :
            /\ frames[Len(frames)] = <<n, p>>
            /\ Onward = [frames EXCEPT ![Len(frames)] = <<n, p + 1>>]
    BY OnwardShape
  <1>2. PICK L \in Nat \ {0} : L = Len(frames) /\ DOMAIN frames = 1 .. L
    BY DEF TypeInv
  <1>3. /\ DOMAIN Onward = 1 .. L /\ Onward[L] = <<n, p + 1>>
        /\ \A i \in 1 .. L - 1 : Onward[i] = frames[i]
    BY <1>1, <1>2
  <1>4. DOMAIN Back = 1 .. L - 1 /\ \A i \in 1 .. L - 1 : Back[i] = frames[i]
    BY <1>2, FrameNodes
  <1>5. ASSUME NEW m \in Containers
        PROVE  /\ DOMAIN Deeper(m) = 1 .. L + 1 /\ Deeper(m)[L + 1] = <<m, 1>>
               /\ \A i \in 1 .. L : Deeper(m)[i] = Onward[i]
    <2>1. PICK g : g = Onward
      OBVIOUS
    <2>2. g \in Seq(Containers \X Nat) /\ Len(g) = L
      BY <1>2, <2>1, FramesTyped, FrameNodes
    <2>3. Deeper(m) = Append(g, <<m, 1>>)
      BY <2>1 DEF Deeper, Onward
    <2>4. <<m, 1>> \in Containers \X Nat
      OBVIOUS
    <2>5. PICK frame : frame = <<m, 1>>
      OBVIOUS
    <2>6. /\ DOMAIN Append(g, frame) = 1 .. L + 1 /\ Append(g, frame)[L + 1] = frame
          /\ \A i \in 1 .. L : Append(g, frame)[i] = g[i]
      <3>1. PICK S : S = Containers \X Nat
        OBVIOUS
      <3>2. g \in Seq(S) /\ frame \in S /\ Len(g) = L
        BY <2>2, <2>4, <2>5, <3>1
      <3>3. QED
        BY <1>2, <3>2
    <2>7. QED
      BY <2>1, <2>3, <2>5, <2>6
  <1>6. n \in Containers /\ p \in Nat /\ frames[L] = <<n, p>> /\ Top = <<n, p>>
    BY <1>1, <1>2 DEF Top
  <1>7. L \in Nat \ {0} /\ L = Len(frames) /\ DOMAIN frames = 1 .. L
    BY <1>2
  <1>8. QED
    BY <1>3, <1>4, <1>5, <1>6, <1>7

----------------------------------------------------------------------------
(* Why a specification is refused.                                         *)
CauseInv ==
    /\ verdict = "composing" => ComposingInv
    /\ verdict = "guarding" => ChainInv
    /\ RefusedForCause

(* A refusal stands, since the document does; another verdict needs no     *)
(* cause.                                                                  *)
LEMMA CauseKept ==
    ASSUME document' = document, RefusedForCause,
           \/ verdict' = verdict
           \/ verdict' \notin {"cyclic", "reference", "complexity"}
           \/ verdict' = "cyclic" /\ CycleExists
           \/ verdict' = "reference" /\ BadReferenceExists
           \/ verdict' = "complexity" /\ LimitsExceeded
    PROVE  RefusedForCause'
  BY ReachableKept DEF RefusedForCause

(* What one use more may add to the counts of nodes and of aliases.        *)
LEMMA CountsAfter ==
    ASSUME NEW d \in Nat, NEW e \in Nat, e = d + 1, NEW c \in Nat, NEW a \in Nat,
           NEW k \in Nat, k <= 1, c <= 2 * d + 1, a <= d
    PROVE  /\ c + k + 0 \in Nat /\ c + k + 0 <= 2 * e + 1
           /\ c + k + 1 \in Nat /\ c + k + 1 <= 2 * e + 1
           /\ a + 0 \in Nat /\ a + 0 <= e /\ a + 1 \in Nat /\ a + 1 <= e
  OBVIOUS

(* An entry is composed, or it is one too many of those that exist.        *)
LEMMA ComposeCause ==
    ASSUME GuardAssumption, TypeInv, CauseInv, ComposeEntry
    PROVE  CauseInv'
  <1>0. /\ verdict = "composing" /\ frames # <<>> /\ RefusedForCause
        /\ FramesFit(frames, composed) /\ CountsFit(nodes, aliases, frames, composed)
    BY DEF ComposeEntry, CauseInv, ComposingInv
  <1>1. PICK L \in Nat \ {0}, n \in Containers, p \in Nat :
            /\ L = Len(frames) /\ DOMAIN frames = 1 .. L
            /\ Top = <<n, p>> /\ frames[L] = <<n, p>>
            /\ DOMAIN Onward = 1 .. L /\ Onward[L] = <<n, p + 1>>
            /\ \A i \in 1 .. L - 1 : Onward[i] = frames[i]
            /\ \A m \in Containers :
                  /\ DOMAIN Deeper(m) = 1 .. L + 1 /\ Deeper(m)[L + 1] = <<m, 1>>
                  /\ \A i \in 1 .. L : Deeper(m)[i] = Onward[i]
    BY <1>0, FrameShapes
  <1>2. Top[1] = n /\ Top[2] = p /\ p \in DOMAIN Entries(n)
    BY <1>1 DEF ComposeEntry
  <1>3. /\ Before(Onward, composed) = Before(frames, composed) \cup {<<n, p>>}
        /\ <<n, p>> \notin Before(frames, composed) /\ <<n, p>> \in Uses
        /\ FramesFit(Onward, composed)
    <2>1. PICK g : g = Onward
      OBVIOUS
    <2>2. OnwardTo(frames, g, L, n, p)
      BY <1>1, <1>2, <2>1 DEF OnwardTo
    <2>3. PICK use : use = <<n, p>>
      OBVIOUS
    <2>4. PICK f, S : f = frames /\ S = composed
      OBVIOUS
    <2>5. FramesFit(f, S) /\ OnwardTo(f, g, L, n, p)
      BY <1>0, <2>2, <2>4
    <2>6. OneMore(f, g, S, use) /\ FramesFit(g, S)
      BY <2>3, <2>5, BeforeOnward
    <2>7. QED
      BY <2>1, <2>3, <2>4, <2>6 DEF OneMore
  <1>4. PICK D : D = Before(frames, composed)
    OBVIOUS
  <1>5. PICK E : E = Before(Onward, composed)
    OBVIOUS
  <1>6. /\ IsFiniteSet(D) /\ IsFiniteSet(E) /\ IsFiniteSet(Uses)
        /\ Cardinality(D) \in Nat /\ Cardinality(E) \in Nat /\ Cardinality(Uses) \in Nat
        /\ Cardinality(E) = Cardinality(D) + 1 /\ Cardinality(E) <= Cardinality(Uses)
    <2>1. D \subseteq Uses /\ E \subseteq Uses
      BY <1>4, <1>5 DEF Before
    <2>2. IsFiniteSet(Uses) /\ IsFiniteSet(D) /\ IsFiniteSet(E)
      BY <2>1, UsesFinite, FS_Subset
    <2>3. E = D \cup {<<n, p>>} /\ <<n, p>> \notin D
      BY <1>3, <1>4, <1>5
    <2>4. Cardinality(E) = Cardinality(D) + 1
      BY <2>2, <2>3, FS_AddElement
    <2>5. Cardinality(E) <= Cardinality(Uses)
      BY <2>1, <2>2, FS_Subset
    <2>6. QED
      BY <2>2, <2>4, <2>5, FS_CardinalityType
  <1>7. PICK d \in Nat, e \in Nat, t \in Nat :
            /\ d = Cardinality(D) /\ e = Cardinality(E) /\ t = Cardinality(Uses)
            /\ e = d + 1 /\ e <= t
    BY <1>6
  <1>8. /\ nodes \in Nat /\ aliases \in Nat
        /\ nodes <= 2 * d + 1 /\ aliases <= d
    BY <1>0, <1>4, <1>7 DEF CountsFit
  <1>9. PICK value, key, again, nodesNow, aliasesNow :
            /\ value = Entries(n)[p].value
            /\ key = IF document.kind[n] = "map" THEN 1 ELSE 0
            /\ again <=> value \in composed
            /\ nodesNow = nodes + key + (IF again THEN 0 ELSE 1)
            /\ aliasesNow = aliases + (IF again THEN 1 ELSE 0)
    <2>1. PICK value : value = Entries(n)[p].value
      OBVIOUS
    <2>2. PICK again : again = (value \in composed)
      OBVIOUS
    <2>3. PICK key : key = IF document.kind[n] = "map" THEN 1 ELSE 0
      OBVIOUS
    <2>4. QED
      BY <2>1, <2>2, <2>3
  <1>10. /\ nodesNow \in Nat /\ aliasesNow \in Nat
         /\ nodesNow <= 2 * e + 1 /\ aliasesNow <= e
    <2>1. key \in Nat /\ key <= 1
      BY <1>9
    <2>3. CASE again
      <3>1. nodesNow = nodes + key + 0 /\ aliasesNow = aliases + 1
        BY <1>9, <2>3
      <3>2. QED
        BY <1>7, <1>8, <2>1, <3>1, CountsAfter
    <2>4. CASE ~again
      <3>1. nodesNow = nodes + key + 1 /\ aliasesNow = aliases + 0
        BY <1>9, <2>4
      <3>2. QED
        BY <1>7, <1>8, <2>1, <3>1, CountsAfter
    <2>5. QED
      BY <2>3, <2>4
  <1>11. CASE L + 1 > MaxDepth \/ nodesNow > MaxNodes \/ aliasesNow > MaxAliases
    <2>1. Reject("complexity")
      BY <1>1, <1>2, <1>9, <1>11 DEF ComposeEntry
    <2>2. LimitsExceeded
      <3>1. CASE L + 1 > MaxDepth
        <4>1. PICK h : h = [k \in 1 .. L |-> frames[k][1]]
          OBVIOUS
        <4>2. h \in Injection(1 .. L, Reachable)
          BY <1>0, <1>1, <4>1 DEF FramesFit, Injection, IsInjective
        <4>3. IsFiniteSet(Reachable)
          BY ReachableIsClosed, FS_Subset DEF GuardAssumption
        <4>4. Cardinality(1 .. L) <= Cardinality(Reachable)
          BY <4>2, <4>3, FS_Injection
        <4>5. Cardinality(1 .. L) = L
          <5>1. L \in Nat /\ L # 0
            BY <1>1
          <5>2. 1 \in Int /\ L \in Int
            BY <5>1
          <5>3. Cardinality(1 .. L) = IF 1 > L THEN 0 ELSE L - 1 + 1
            BY <5>2, FS_Interval
          <5>4. QED
            BY <5>1, <5>3
        <4>6. Cardinality(Reachable) \in Nat
          BY <4>3, FS_CardinalityType
        <4>7. Cardinality(Reachable) >= MaxDepth
          BY <3>1, <4>4, <4>5, <4>6 DEF GuardAssumption
        <4>8. QED
          BY <4>7 DEF LimitsExceeded
      <3>2. CASE nodesNow > MaxNodes
        <4>1. 2 * t + 1 > MaxNodes
          <5>1. PICK m \in Nat : m = MaxNodes
            BY DEF GuardAssumption
          <5>2. nodesNow \in Nat /\ nodesNow > m /\ nodesNow <= 2 * e + 1
            BY <1>10, <3>2, <5>1
          <5>3. e \in Nat /\ t \in Nat /\ e <= t
            BY <1>7
          <5>4. 2 * t + 1 > m
            BY <5>2, <5>3
          <5>5. QED
            BY <5>1, <5>4
        <4>2. QED
          BY <1>7, <4>1 DEF LimitsExceeded
      <3>3. CASE aliasesNow > MaxAliases
        <4>1. t > MaxAliases
          BY <1>7, <1>10, <3>3 DEF GuardAssumption
        <4>2. QED
          BY <1>7, <4>1 DEF LimitsExceeded
      <3>4. QED
        BY <1>11, <3>1, <3>2, <3>3
    <2>3. document' = document /\ verdict' = "complexity"
      BY <2>1 DEF Reject
    <2>4. QED
      BY <1>0, <2>2, <2>3, CauseKept DEF CauseInv
  <1>12. CASE ~(L + 1 > MaxDepth \/ nodesNow > MaxNodes \/ aliasesNow > MaxAliases)
    <2>1. /\ nodes' = nodesNow /\ aliases' = aliasesNow
          /\ IF value \in Containers \ composed
             THEN frames' = Deeper(value) /\ composed' = composed \cup {value}
             ELSE frames' = Onward /\ UNCHANGED composed
          /\ UNCHANGED <<document, verdict>>
      BY <1>1, <1>2, <1>9, <1>12 DEF ComposeEntry
    <2>2. Before(frames', composed') = E /\ FramesFit(frames', composed')
      <3>1. CASE value \in Containers \ composed
        <4>1. value \in Reachable
          <5>1. n \in Reachable
            BY <1>0, <1>1 DEF FramesFit
          <5>2. value \in Children(n)
            BY <1>2, <1>9, <3>1 DEF Children, Values
          <5>3. QED
            BY <5>1, <5>2, ReachableIsClosed
        <4>2. PICK g, h : g = Onward /\ h = Deeper(value)
          OBVIOUS
        <4>3. /\ DOMAIN g = 1 .. L /\ DOMAIN h = 1 .. L + 1
              /\ \A i \in 1 .. L : h[i] = g[i] /\ h[L + 1] = <<value, 1>>
          BY <1>1, <3>1, <4>2
        <4>4. FramesFit(g, composed) /\ E = Before(g, composed)
          BY <1>3, <1>5, <4>2
        <4>5. /\ Before(h, composed \cup {value}) = Before(g, composed)
              /\ FramesFit(h, composed \cup {value})
          <5>1. \A i \in 1 .. L : h[i] = g[i]
            BY <4>3
          <5>2. h[L + 1] = <<value, 1>>
            BY <4>3
          <5>3. QED
            BY <3>1, <4>1, <4>3, <4>4, <5>1, <5>2, BeforeDeeper
        <4>6. QED
          BY <2>1, <3>1, <4>2, <4>4, <4>5
      <3>2. CASE value \notin Containers \ composed
        BY <1>3, <1>5, <2>1, <3>2
      <3>3. QED
        BY <3>1, <3>2
    <2>3. CountsFit(nodes', aliases', frames', composed')
      BY <1>7, <1>10, <2>1, <2>2 DEF CountsFit
    <2>4. ComposingInv'
      BY <2>1, <2>2, <2>3, ComposingPrimed
    <2>5. QED
      BY <1>0, <2>1, <2>4, CauseKept DEF CauseInv
  <1>13. QED
    BY <1>11, <1>12

(* A container is left: all of its entries had been counted.               *)
LEMMA ComposedCause ==
    ASSUME GuardAssumption, TypeInv, CauseInv, Composed
    PROVE  CauseInv'
  <1>0. /\ verdict = "composing" /\ frames # <<>> /\ RefusedForCause
        /\ FramesFit(frames, composed) /\ CountsFit(nodes, aliases, frames, composed)
    BY DEF Composed, CauseInv, ComposingInv
  <1>1. CASE Reject("unreadable")
    <2>1. document' = document /\ verdict' = "unreadable"
      BY <1>1 DEF Reject
    <2>2. QED
      BY <1>0, <2>1, CauseKept DEF CauseInv
  <1>2. CASE ~Reject("unreadable")
    <2>1. /\ frames' = Back /\ verdict' \in {"composing", "constructing"}
          /\ UNCHANGED <<document, composed, nodes, aliases>>
          /\ Top[2] \notin DOMAIN Entries(Top[1])
      BY <1>2 DEF Composed
    <2>2. PICK L \in Nat \ {0}, n \in Containers, p \in Nat :
              /\ DOMAIN frames = 1 .. L /\ Top = <<n, p>> /\ frames[L] = <<n, p>>
              /\ DOMAIN Back = 1 .. L - 1 /\ \A i \in 1 .. L - 1 : Back[i] = frames[i]
      BY <1>0, FrameShapes
    <2>3. p \notin DOMAIN Entries(n)
      BY <2>1, <2>2
    <2>4. PICK g : g = Back
      OBVIOUS
    <2>5. DOMAIN g = 1 .. L - 1 /\ \A i \in 1 .. L - 1 : g[i] = frames[i]
      BY <2>2, <2>4
    <2>6. Before(g, composed) = Before(frames, composed) /\ FramesFit(g, composed)
      BY <1>0, <2>2, <2>3, <2>5, BeforeBack
    <2>7. CountsFit(nodes, aliases, g, composed)
      BY <1>0, <2>6 DEF CountsFit
    <2>8. ComposingInv'
      BY <2>1, <2>4, <2>6, <2>7, ComposingPrimed
    <2>9. QED
      BY <1>0, <2>1, <2>8, CauseKept DEF CauseInv
  <1>3. QED
    BY <1>1, <1>2

(* The walk begins at the root, which is below itself.                     *)
LEMMA ConstructCause ==
    ASSUME GuardAssumption, GuardInv, CauseInv, Construct
    PROVE  CauseInv'
  <1>0. verdict = "constructing" /\ RefusedForCause /\ active = {}
    BY DEF Construct, CauseInv, GuardInv
  <1>1. CASE Reject("merge") \/ Reject("object")
    <2>1. document' = document /\ verdict' \in {"merge", "object"}
      BY <1>1 DEF Reject
    <2>2. QED
      BY <1>0, <2>1, CauseKept DEF CauseInv
  <1>2. CASE ~(Reject("merge") \/ Reject("object"))
    <2>1. /\ verdict' = "guarding" /\ pending' = <<<<Root, FALSE>>>>
          /\ UNCHANGED <<document, active>>
      BY <1>2 DEF Construct
    <2>2. PICK t : t = <<Root, FALSE>>
      OBVIOUS
    <2>3. DOMAIN pending' = {1} /\ pending'[1] = t /\ t[1] = Root
      <3>1. DOMAIN <<t>> = {1} /\ <<t>>[1] = t
        OBVIOUS
      <3>2. t[1] = Root
        BY <2>2
      <3>3. QED
        BY <2>1, <2>2, <3>1, <3>2
    <2>4. ChainFits(pending', active')
      BY <1>0, <2>1, <2>3, ReachableIsClosed DEF ChainFits
    <2>5. QED
      BY <1>0, <2>1, <2>4, ChainPrimed, CauseKept DEF CauseInv
  <1>3. QED
    BY <1>1, <1>2

(* The walk.                                                               *)
LEMMA WalkCause ==
    ASSUME GuardAssumption, GuardInv, CauseInv, Skip \/ Exit \/ Cycle \/ Enter
    PROVE  CauseInv'
  <1>0. /\ verdict = "guarding" /\ pending # <<>> /\ RefusedForCause
        /\ ChainFits(pending, active) /\ StackFits(pending, active, visited) /\ TypeInv
    BY DEF Skip, Exit, Cycle, Enter, Guarding, CauseInv, ChainInv, GuardInv, StackInv
  <1>1. PICK L \in Nat \ {0} :
            /\ DOMAIN pending = 1 .. L /\ pending[L] = Popped
            /\ DOMAIN Rest = 1 .. L - 1 /\ \A i \in 1 .. L - 1 : Rest[i] = pending[i]
    BY <1>0, PopKeeps
  <1>2. L \in DOMAIN pending /\ pending[L][1] = Popped[1] /\ pending[L][2] = Popped[2]
    BY <1>1
  <1>3. Popped[1] \in Containers => Popped[1] \in Reachable
    BY <1>0, <1>2 DEF ChainFits
  <1>4. CASE Skip
    <2>1. pending' = Rest /\ UNCHANGED <<document, verdict, active>>
      BY <1>4 DEF Skip
    <2>2. PopsTo(pending, pending', L)
      BY <1>1, <2>1 DEF PopsTo
    <2>3. ~pending[L][2]
      <3>1. CASE Popped[1] \notin Containers
        BY <1>0, <1>2, <3>1 DEF StackFits, TypeInv
      <3>2. CASE Popped[1] \in Containers
        BY <1>2, <1>4, <3>2 DEF Skip
      <3>3. QED
        BY <3>1, <3>2
    <2>4. ChainFits(pending', active')
      BY <1>0, <2>1, <2>2, <2>3, ChainPopped
    <2>5. QED
      BY <1>0, <2>1, <2>4, ChainPrimed, CauseKept DEF CauseInv
  <1>5. CASE Exit
    <2>1. /\ pending' = Rest /\ active' = active \ {Popped[1]}
          /\ UNCHANGED <<document, verdict>>
      BY <1>5 DEF Exit
    <2>2. PopsTo(pending, pending', L)
      BY <1>1, <2>1 DEF PopsTo
    <2>3. active' \subseteq active /\ pending[L][1] \notin active'
      BY <1>2, <2>1
    <2>4. ChainFits(pending', active')
      BY <1>0, <2>2, <2>3, ChainPopped
    <2>5. QED
      BY <1>0, <2>1, <2>4, ChainPrimed, CauseKept DEF CauseInv
  <1>6. CASE Cycle
    <2>1. Popped[1] \in active /\ ~Popped[2] /\ document' = document /\ verdict' = "cyclic"
      BY <1>6 DEF Cycle, Reject
    <2>2. Popped[1] \in Containers
      BY <1>0, <2>1 DEF TypeInv
    <2>3. CycleExists
      BY <1>0, <1>1, <1>2, <2>1, <2>2, CycleCloses
    <2>4. QED
      BY <1>0, <2>1, <2>3, CauseKept DEF CauseInv
  <1>7. CASE Enter /\ BadReference(Popped[1])
    <2>1. Popped[1] \in Containers /\ document' = document /\ verdict' = "reference"
      BY <1>7 DEF Enter, Reject
    <2>2. BadReferenceExists
      BY <1>3, <1>7, <2>1 DEF BadReferenceExists
    <2>3. QED
      BY <1>0, <2>1, <2>2, CauseKept DEF CauseInv
  <1>8. CASE Enter /\ ~BadReference(Popped[1])
    <2>1. PICK M, K, n, value :
              /\ n \in Containers /\ n = Popped[1] /\ pending[M] = Popped
              /\ EntersTo(pending, pending', M, K, n, value)
              /\ \A k \in 1 .. K : value[k] \in Containers => value[k] \in Children(n)
              /\ active' = active \cup {n}
              /\ UNCHANGED <<document, verdict>>
      BY <1>0, <1>8, EnterShape
    <2>2. ~pending[M][2]
      BY <1>8, <2>1 DEF Enter
    <2>3. ChainFits(pending', active')
      BY <1>0, <2>1, <2>2, ChainEntered
    <2>4. QED
      BY <1>0, <2>1, <2>3, ChainPrimed, CauseKept DEF CauseInv
  <1>9. QED
    BY <1>4, <1>5, <1>6, <1>7, <1>8

(* What is refused is refused for a reason that is in the document: a      *)
(* round of containers below the root, a bad reference below the root, or  *)
(* more of it than a limit allows (specification_guard.py:48-145).         *)
THEOREM RefusedOnlyForCause == GuardSpec => []RefusedForCause
  <1> USE GuardAssumption
  <1>1. GuardInit => CauseInv
    <2> SUFFICES ASSUME GuardInit PROVE CauseInv
      OBVIOUS
    <2>1. DOMAIN frames = {1} /\ frames[1] = <<Root, 1>> /\ frames[1][1] = Root /\ frames[1][2] = 1
      BY DEF GuardInit
    <2>2. FramesFit(frames, composed)
      BY <2>1, ReachableIsClosed DEF GuardInit, FramesFit
    <2>3. TypeInv
      <3>1. GuardInit => GuardInv
        BY InitEstablishes
      <3>2. QED
        BY <3>1 DEF GuardInv
    <2>4. IsFiniteSet(Before(frames, composed))
      BY <2>3, UsesFinite, FS_Subset DEF Before
    <2>5. Cardinality(Before(frames, composed)) \in Nat
      BY <2>4, FS_CardinalityType
    <2>6. CountsFit(nodes, aliases, frames, composed)
      BY <2>5 DEF GuardInit, CountsFit
    <2>7. QED
      BY <2>2, <2>6 DEF GuardInit, CauseInv, ComposingInv, RefusedForCause
  <1>2. GuardInv /\ CauseInv /\ [GuardNext]_guardVars => CauseInv'
    <2> SUFFICES ASSUME GuardInv, CauseInv, [GuardNext]_guardVars PROVE CauseInv'
      OBVIOUS
    <2>0. TypeInv /\ RefusedForCause
      BY DEF GuardInv, CauseInv
    <2>1. CASE UNCHANGED guardVars
      <3>1. UNCHANGED <<document, verdict, frames, composed, nodes, aliases, pending, active>>
        BY <2>1 DEF guardVars
      <3>2. ComposingInv => ComposingInv'
        BY <3>1, ComposingPrimed DEF ComposingInv
      <3>3. ChainInv => ChainInv'
        BY <3>1, ChainPrimed DEF ChainInv
      <3>4. QED
        BY <2>0, <3>1, <3>2, <3>3, CauseKept DEF CauseInv
    <2>2. CASE Admit \/ Locate \/ Load \/ Validate
      <3>1. /\ document' = document
            /\ verdict' \in {"locating", "validating", "valid", "invalid"}
        BY <2>2 DEF Admit, Locate, Load, Validate
      <3>2. QED
        BY <2>0, <3>1, CauseKept DEF CauseInv
    <2>3. QED
      BY <2>0, <2>1, <2>2, ComposeCause, ComposedCause, ConstructCause, WalkCause
         DEF GuardNext
  <1>3. CauseInv => RefusedForCause
    BY DEF CauseInv
  <1>4. QED
    BY <1>1, <1>2, <1>3, GuardInvariant, PTL DEF GuardSpec

(* The guard is exact: it admits nothing with a cycle or a foreign         *)
(* reference, the recursion behind it ends, and it refuses nothing without *)
(* a cause (specification_guard.py:48-145, loader.py:77-100).              *)
THEOREM GuardDecidesExactly == GuardSpec => []GuardIsExact
  <1>1. AdmittedIsSound /\ LoaderRecursionBounded /\ RefusedForCause => GuardIsExact
    BY DEF GuardIsExact
  <1>2. QED
    BY <1>1, AdmittedHasNoCycle, RecursionNeverRepeats, RefusedOnlyForCause, PTL

-----------------------------------------------------------------------------
(* The normaliser, for every document, its references in cycles too.  The   *)
(* recursive functions are unfolded by the references not yet visited and  *)
(* the depth of what is written in place; then what they return is         *)
(* compared with where the references lead.  NormalizerInv: what is out is *)
(* what the operations so far come out as, and every status recorded is    *)
(* that of the document.                                                   *)

(* Of one document: the targets of its references.                         *)
TargetsFit(targets) ==
    \A ref \in References :
        /\ targets[ref] \in Seq(Dictionaries) /\ Len(targets[ref]) <= 1
        /\ ref \in ForeignReferences => targets[ref] = <<>>

Statuses == {"resolved_internal", "unresolved_internal", "unsupported_external", "circular"}
Resolutions == [status : Statuses, data : Seq(Dictionaries)]

(* resolve_internal_ref, with f for the call that follows a chain.         *)
Resolved(targets, f, seen, ref) ==
    IF ref \in ForeignReferences THEN Resolution("unsupported_external", <<>>)
    ELSE IF ref \in seen THEN Resolution("circular", <<>>)
    ELSE IF targets[ref] = <<>> THEN Resolution("unresolved_internal", <<>>)
    ELSE IF targets[ref][1].ref = NoReference
         THEN Resolution("resolved_internal", targets[ref])
    ELSE f[seen \cup {ref}][targets[ref][1].ref]

LEMMA FewerLeft ==
    ASSUME NormalizerAssumption, NEW seen \in SUBSET References
    PROVE  /\ Cardinality(References \ seen) \in Nat
           /\ \A ref \in References \ seen :
                 Cardinality(References \ (seen \cup {ref})) < Cardinality(References \ seen)
<1>1. IsFiniteSet(References \ seen)
  BY FS_Difference DEF NormalizerAssumption
<1>2. Cardinality(References \ seen) \in Nat
  BY <1>1, FS_CardinalityType
<1>3. ASSUME NEW ref \in References \ seen
      PROVE  Cardinality(References \ (seen \cup {ref})) < Cardinality(References \ seen)
  <2>1. References \ (seen \cup {ref}) = (References \ seen) \ {ref}
    OBVIOUS
  <2>2. Cardinality((References \ seen) \ {ref}) = Cardinality(References \ seen) - 1
    BY <1>1, FS_RemoveElement
  <2>3. Cardinality(References \ (seen \cup {ref})) = Cardinality((References \ seen) \ {ref})
    BY <2>1, Zenon
  <2>4. ASSUME NEW m, NEW n \in Nat, m = n - 1 PROVE m < n
    BY <2>4
  <2> QED  BY <1>2, <2>2, <2>3, <2>4, Zenon
<1> QED  BY <1>2, <1>3

LEMMA TargetFits ==
    ASSUME NormalizerAssumption, NEW targets, TargetsFit(targets), NEW ref \in References,
           targets[ref] # <<>>
    PROVE  /\ targets[ref][1] \in Dictionaries /\ ref \notin ForeignReferences
           /\ targets[ref] = <<targets[ref][1]>> /\ ToSet(targets[ref]) = {targets[ref][1]}
           /\ targets[ref][1].ref # NoReference => targets[ref][1].ref \in References
<1>0. targets[ref] \in Seq(Dictionaries) /\ Len(targets[ref]) <= 1 /\ Len(targets[ref]) # 0
  BY DEF TargetsFit
<1>1. targets[ref] \in Seq(Dictionaries) /\ Len(targets[ref]) = 1
  <2>1. ASSUME NEW n \in Nat, n <= 1, n # 0 PROVE n = 1
    BY <2>1
  <2>2. Len(targets[ref]) \in Nat
    BY <1>0
  <2> QED  BY <1>0, <2>1, <2>2
<1>2. targets[ref][1] \in Dictionaries /\ targets[ref] = <<targets[ref][1]>>
  BY <1>1
<1>3. ToSet(targets[ref]) = {targets[ref][1]}
  BY <1>1, <1>2 DEF ToSet
<1> QED  BY <1>2, <1>3 DEF TargetsFit, NormalizerAssumption

LEMMA ResolveUnfolds ==
    ASSUME NormalizerAssumption, NEW targets, TargetsFit(targets)
    PROVE  \A seen \in SUBSET References : \A ref \in References :
              /\ Resolve(targets)[seen][ref] \in Resolutions
              /\ Resolve(targets)[seen][ref] = Resolved(targets, Resolve(targets), seen, ref)
<1> DEFINE D == SUBSET References
           V == [References -> Resolutions]
           Of(g, seen) == [ref \in References |-> Resolved(targets, g, seen, ref)]
           size == [seen \in D |-> Cardinality(References \ seen)]
           B == [z \in D \X [D -> V] |-> Of(z[2], z[1])]
           c == CHOOSE f : f = [seen \in D |-> Of(f, seen)]
<1>1. size \in [D -> Nat]
  BY FewerLeft
<1>2. ASSUME NEW g \in [D -> V], NEW seen \in D, NEW ref \in References
      PROVE  Resolved(targets, g, seen, ref) \in Resolutions
  <2>1. targets[ref] # <<>> /\ targets[ref][1].ref # NoReference =>
           g[seen \cup {ref}][targets[ref][1].ref] \in Resolutions
    <3>1. seen \cup {ref} \in D
      OBVIOUS
    <3> HIDE DEF D
    <3>2. targets[ref] # <<>> /\ targets[ref][1].ref # NoReference =>
             targets[ref][1].ref \in References
      BY TargetFits
    <3> QED  BY <3>1, <3>2
  <2>2. targets[ref] \in Seq(Dictionaries) /\ <<>> \in Seq(Dictionaries)
    BY DEF TargetsFit
  <2>3. \A status \in Statuses : \A data \in Seq(Dictionaries) :
           Resolution(status, data) \in Resolutions
    BY DEF Resolution, Resolutions
  <2> QED  BY <2>1, <2>2, <2>3 DEF Resolved, Statuses
<1>3. ASSUME NEW g \in [D -> V], NEW seen \in D PROVE Of(g, seen) \in V
  BY <1>2
<1>4. B \in [D \X [D -> V] -> V]
  <2> HIDE DEF Of, D, V
  <2> QED  BY <1>3
<1>5. \A d \in D : \A g, h \in [D -> V] :
         (\A e \in D : size[e] < size[d] => g[e] = h[e]) => B[<<d, g>>] = B[<<d, h>>]
  <2> SUFFICES ASSUME NEW d \in D, NEW g \in [D -> V], NEW h \in [D -> V],
                      \A e \in D : size[e] < size[d] => g[e] = h[e]
               PROVE  B[<<d, g>>] = B[<<d, h>>]
    OBVIOUS
  <2>1. ASSUME NEW ref \in References
        PROVE  Resolved(targets, g, d, ref) = Resolved(targets, h, d, ref)
    <3>1. ref \notin d => d \cup {ref} \in D /\ size[d \cup {ref}] < size[d]
      BY FewerLeft
    <3>2. ref \notin d => g[d \cup {ref}] = h[d \cup {ref}]
      BY <3>1
    <3> QED  BY <3>2 DEF Resolved
  <2>2. Of(g, d) = Of(h, d)
    BY <2>1
  <2>3. <<d, g>> \in D \X [D -> V] /\ <<d, h>> \in D \X [D -> V]
    OBVIOUS
  <2> HIDE DEF Of, D, V
  <2> QED  BY <2>2, <2>3
<1>6. PICK f \in [D -> V] : \A d \in D : f[d] = B[<<d, f>>]
  <2>1. V # {}
    <3>1. Resolution("circular", <<>>) \in Resolutions
      BY DEF Resolution, Resolutions, Statuses
    <3>2. [ref \in References |-> Resolution("circular", <<>>)] \in V
      BY <3>1
    <3> QED  BY <3>2
  <2> HIDE DEF B, size, D, V
  <2>2. LooksBelow(B, D, V, size)
    BY <1>1, <1>4, <1>5, <2>1 DEF LooksBelow
  <2> QED  BY <2>2, RecursionByMeasure
<1>7. f = [seen \in D |-> Of(f, seen)]
  <2>1. \A d \in D : <<d, f>> \in D \X [D -> V]
    OBVIOUS
  <2> HIDE DEF Of, D, V
  <2>2. \A d \in D : f[d] = Of(f, d)
    BY <1>6, <2>1
  <2> QED  BY <2>2
<1>8. c = [seen \in D |-> Of(c, seen)]
  <2> HIDE DEF Of, D, V
  <2> QED  BY <1>7
<1>9. Resolve(targets) = c
  BY DEF Resolve, Resolved
<1> HIDE DEF c
<1>10. \A d \in D : c[d] = f[d]
  <2> DEFINE G == {d \in D : c[d] = f[d]}
  <2>1. ASSUME NEW d \in D, \A e \in D : size[e] < size[d] => e \in G PROVE d \in G
    <3>1. ASSUME NEW ref \in References
          PROVE  Resolved(targets, c, d, ref) = Resolved(targets, f, d, ref)
      <4>1. ref \notin d => d \cup {ref} \in D /\ size[d \cup {ref}] < size[d]
        BY FewerLeft
      <4>2. ref \notin d => c[d \cup {ref}] = f[d \cup {ref}]
        BY <2>1, <4>1
      <4> QED  BY <4>2 DEF Resolved
    <3>2. Of(c, d) = Of(f, d)
      BY <3>1
    <3> HIDE DEF Of, D
    <3> QED  BY <1>7, <1>8, <3>2
  <2> HIDE DEF G, D, size
  <2>2. \A d \in D : d \in G
    BY <1>1, <2>1, InductionByMeasure
  <2> QED  BY <2>2 DEF G
<1>11. \A d \in D : c[d] \in V /\ c[d] = Of(c, d)
  <2> HIDE DEF Of, D, V
  <2> QED  BY <1>6, <1>8, <1>10
<1>12. \A seen \in D : \A ref \in References :
          Of(c, seen)[ref] = Resolved(targets, c, seen, ref)
  OBVIOUS
<1>13. \A seen \in D : \A ref \in References :
          c[seen][ref] \in Resolutions /\ c[seen][ref] = Resolved(targets, c, seen, ref)
  <2> HIDE DEF Of
  <2> QED  BY <1>11, <1>12
<1> QED  BY <1>9, <1>13

(* References used along items that are written in place, with those of P. *)
Along(P, f, raw) ==
    IF raw.ref # NoReference THEN {raw.ref}
    ELSE P[raw] \cup UNION {f[item] : item \in ToSet(raw.items)}
UsesOf(P, f) == f \in [Dictionaries -> SUBSET References] /\ \A raw \in Dictionaries : f[raw] = Along(P, f, raw)

LEMMA ItemsFit ==
    ASSUME NormalizerAssumption, NEW raw \in Dictionaries
    PROVE  /\ raw.items = <<>> => ToSet(raw.items) = {}
           /\ raw.items # <<>> => /\ ToSet(raw.items) = {raw.items[1]}
                                  /\ raw.items[1] \in Dictionaries
           /\ \A item \in ToSet(raw.items) : item \in Dictionaries /\ Nesting(item) < Nesting(raw)
           /\ \A prop \in ToSet(raw.props) : prop \in Dictionaries
           /\ raw.ref \in References \cup {NoReference}
<1>1. /\ raw.items \in Seq(Dictionaries) /\ Len(raw.items) <= 1 /\ raw.props \in Seq(Dictionaries)
      /\ raw.ref \in References \cup {NoReference}
      /\ \A item \in ToSet(raw.items) : Nesting(item) < Nesting(raw)
  BY DEF NormalizerAssumption
<1>2. ASSUME NEW s \in Seq(Dictionaries), Len(s) <= 1
      PROVE  /\ s = <<>> => ToSet(s) = {}
             /\ s # <<>> => ToSet(s) = {s[1]} /\ s[1] \in Dictionaries
  <2>1. CASE s = <<>>
    BY <2>1 DEF ToSet
  <2>2. CASE s # <<>>
    <3>1. ASSUME NEW n \in Nat, n <= 1, n # 0 PROVE n = 1
      BY <3>1
    <3>2. Len(s) \in Nat /\ Len(s) # 0
      BY <2>2
    <3>4. Len(s) = 1
      BY <1>2, <3>1, <3>2
    <3>5. s \in Seq(Dictionaries)
      BY <1>2
    <3>3. s[1] \in Dictionaries /\ s = <<s[1]>>
      BY <3>4, <3>5
    <3>6. ToSet(s) = {s[1]}
      BY <3>3 DEF ToSet
    <3> QED  BY <2>2, <3>3, <3>6
  <2> QED  BY <2>1, <2>2
<1>3. \A s \in Seq(Dictionaries) : \A d \in ToSet(s) : d \in Dictionaries
  BY DEF ToSet
<1> QED  BY <1>1, <1>2, <1>3

LEMMA SameUnion ==
    ASSUME NEW S, NEW g, NEW h, \A x \in S : g[x] = h[x]
    PROVE  UNION {g[x] : x \in S} = UNION {h[x] : x \in S}
  BY Zenon

LEMMA AlongUnfolds ==
    ASSUME NormalizerAssumption, NEW P \in [Dictionaries -> SUBSET References]
    PROVE  \E f : /\ UsesOf(P, f) /\ f = [raw \in Dictionaries |-> Along(P, f, raw)]
                  /\ \A g : g = [raw \in Dictionaries |-> Along(P, g, raw)] => g = f
<1> DEFINE D == Dictionaries
           V == SUBSET References
           size == [raw \in D |-> Nesting(raw)]
           B == [z \in D \X [D -> V] |-> Along(P, z[2], z[1])]
<1>1. size \in [D -> Nat]
  BY DEF NormalizerAssumption
<1>2. ASSUME NEW g \in [D -> V], NEW raw \in D PROVE Along(P, g, raw) \in V
  <2>1. \A item \in ToSet(raw.items) : g[item] \in V
    BY ItemsFit
  <2> QED  BY <2>1, ItemsFit DEF Along
<1>3. ASSUME NEW d \in D, NEW g, NEW h, \A e \in D : size[e] < size[d] => g[e] = h[e]
      PROVE  Along(P, g, d) = Along(P, h, d)
  <2>0. PICK S : S = ToSet(d.items)
    OBVIOUS
  <2>1. \A item \in S : g[item] = h[item]
    BY <1>3, <2>0, ItemsFit
  <2>2. UNION {g[item] : item \in S} = UNION {h[item] : item \in S}
    BY <2>1, SameUnion
  <2> QED  BY <2>0, <2>2 DEF Along
<1>4. B \in [D \X [D -> V] -> V]
  <2> HIDE DEF D, V
  <2> QED  BY <1>2
<1>5. \A d \in D : \A g, h \in [D -> V] :
         (\A e \in D : size[e] < size[d] => g[e] = h[e]) => B[<<d, g>>] = B[<<d, h>>]
  <2> HIDE DEF D, V, size
  <2> QED  BY <1>3
<1>6. PICK f \in [D -> V] : \A d \in D : f[d] = B[<<d, f>>]
  <2>1. V # {}
    OBVIOUS
  <2> HIDE DEF B, size, D, V
  <2>2. LooksBelow(B, D, V, size)
    BY <1>1, <1>4, <1>5, <2>1 DEF LooksBelow
  <2> QED  BY <2>2, RecursionByMeasure
<1>7. \A d \in D : f[d] = Along(P, f, d)
  <2>1. \A d \in D : <<d, f>> \in D \X [D -> V]
    OBVIOUS
  <2> HIDE DEF D, V
  <2> QED  BY <1>6, <2>1
<1>8. f = [raw \in D |-> Along(P, f, raw)]
  <2> HIDE DEF D, V
  <2> QED  BY <1>7
<1>9. ASSUME NEW g, g = [raw \in D |-> Along(P, g, raw)] PROVE g = f
  <2> DEFINE G == {d \in D : g[d] = f[d]}
  <2>1. ASSUME NEW d \in D, \A e \in D : size[e] < size[d] => e \in G PROVE d \in G
    <3>1. Along(P, g, d) = Along(P, f, d)
      BY <1>3, <2>1
    <3> HIDE DEF D
    <3> QED  BY <1>7, <1>9, <3>1
  <2> HIDE DEF G, D, size
  <2>2. \A d \in D : d \in G
    BY <1>1, <2>1, InductionByMeasure
  <2>3. \A d \in D : g[d] = f[d]
    BY <2>2 DEF G
  <2> QED  BY <1>8, <1>9, <2>3
<1>10. UsesOf(P, f)
  BY <1>7 DEF UsesOf
<1> QED  BY <1>8, <1>9, <1>10

NoMore == [raw \in Dictionaries |-> {}]

LEMMA UsesUnfold ==
    ASSUME NormalizerAssumption
    PROVE  /\ OwnReference \in [Dictionaries -> SUBSET References]
           /\ PropertyReferences \in [Dictionaries -> SUBSET References]
           /\ UsesOf(NoMore, ItemReference) /\ UsesOf(PropertyReferences, UsedReferences)
<1>1. OwnReference \in [Dictionaries -> SUBSET References]
  BY ItemsFit DEF OwnReference
<1>2. PropertyReferences \in [Dictionaries -> SUBSET References]
  <2>1. \A raw \in Dictionaries : \A p \in ToSet(raw.props) : OwnReference[p] \in SUBSET References
    BY <1>1, ItemsFit
  <2>2. \A raw \in Dictionaries :
           UNION {OwnReference[p] : p \in ToSet(raw.props)} \in SUBSET References
    BY <2>1
  <2> QED  BY <2>2 DEF PropertyReferences
<1>3. NoMore \in [Dictionaries -> SUBSET References]
  BY DEF NoMore
<1>4. UsesOf(NoMore, ItemReference)
  <2> DEFINE Of(g, raw) == IF raw.ref # NoReference THEN {raw.ref}
                           ELSE UNION {g[item] : item \in ToSet(raw.items)}
             c == CHOOSE g : g = [raw \in Dictionaries |-> Of(g, raw)]
  <2>1. \A g : \A raw \in Dictionaries : Of(g, raw) = Along(NoMore, g, raw)
    BY DEF Along, NoMore
  <2>2. PICK f : UsesOf(NoMore, f) /\ f = [raw \in Dictionaries |-> Along(NoMore, f, raw)]
                  /\ \A g : g = [raw \in Dictionaries |-> Along(NoMore, g, raw)] => g = f
    BY <1>3, AlongUnfolds
  <2>3. ItemReference = c
    BY DEF ItemReference
  <2> HIDE DEF Of
  <2>4. f = [raw \in Dictionaries |-> Of(f, raw)]
    BY <2>1, <2>2
  <2>5. c = [raw \in Dictionaries |-> Of(c, raw)]
    BY <2>4
  <2> HIDE DEF c
  <2>6. c = [raw \in Dictionaries |-> Along(NoMore, c, raw)]
    BY <2>1, <2>5
  <2> QED  BY <2>2, <2>3, <2>6
<1>5. UsesOf(PropertyReferences, UsedReferences)
  <2> DEFINE Of(g, raw) == IF raw.ref # NoReference THEN {raw.ref}
                           ELSE PropertyReferences[raw] \cup UNION {g[item] : item \in ToSet(raw.items)}
             c == CHOOSE g : g = [raw \in Dictionaries |-> Of(g, raw)]
  <2>1. \A g : \A raw \in Dictionaries : Of(g, raw) = Along(PropertyReferences, g, raw)
    BY DEF Along
  <2>2. PICK f : UsesOf(PropertyReferences, f) /\ f = [raw \in Dictionaries |-> Along(PropertyReferences, f, raw)]
                  /\ \A g : g = [raw \in Dictionaries |-> Along(PropertyReferences, g, raw)] => g = f
    BY <1>2, AlongUnfolds
  <2>3. UsedReferences = c
    BY DEF UsedReferences
  <2> HIDE DEF Of
  <2>4. f = [raw \in Dictionaries |-> Of(f, raw)]
    BY <2>1, <2>2
  <2>5. c = [raw \in Dictionaries |-> Of(c, raw)]
    BY <2>4
  <2> HIDE DEF c
  <2>6. c = [raw \in Dictionaries |-> Along(PropertyReferences, c, raw)]
    BY <2>1, <2>5
  <2> QED  BY <2>2, <2>3, <2>6
<1> QED  BY <1>1, <1>2, <1>4, <1>5

(* What is reached is the least set with the next of ref that is closed.   *)
Graph(leads) == leads \in [References -> SUBSET References]

LEMMA ReachedLeast ==
    ASSUME NEW leads, Graph(leads), NEW ref \in References
    PROVE  /\ Reached(leads, ref) \in SUBSET References /\ leads[ref] \subseteq Reached(leads, ref)
           /\ \A r \in Reached(leads, ref) : leads[r] \subseteq Reached(leads, ref)
           /\ \A C \in SUBSET References :
                 leads[ref] \subseteq C /\ (\A r \in C : leads[r] \subseteq C) => Reached(leads, ref) \subseteq C
<1>1. leads[ref] \in SUBSET References /\ \A r \in References : leads[r] \in SUBSET References
  BY DEF Graph
<1>2. Reached(leads, ref) \in SUBSET References
  BY DEF Reached
<1>3. leads[ref] \subseteq Reached(leads, ref)
  BY <1>1 DEF Reached
<1>4. ASSUME NEW r \in Reached(leads, ref), NEW q \in leads[r] PROVE q \in Reached(leads, ref)
  <2>1. q \in References
    BY <1>1, <1>2, <1>4
  <2>2. ASSUME NEW C \in SUBSET References, leads[ref] \subseteq C, \A s \in C : leads[s] \subseteq C
        PROVE  q \in C
    <3>1. r \in C
      BY <1>4, <2>2 DEF Reached
    <3> QED  BY <1>4, <2>2, <3>1
  <2> QED  BY <2>1, <2>2 DEF Reached
<1>5. ASSUME NEW C \in SUBSET References, leads[ref] \subseteq C, \A r \in C : leads[r] \subseteq C
      PROVE  Reached(leads, ref) \subseteq C
  BY <1>5 DEF Reached
<1> QED  BY <1>2, <1>3, <1>4, <1>5

LEMMA ReachedOn ==
    ASSUME NEW leads, Graph(leads), NEW ref \in References, NEW q \in Reached(leads, ref)
    PROVE  q \in References /\ Reached(leads, q) \subseteq Reached(leads, ref)
<1>1. q \in References
  BY ReachedLeast
<1>2. /\ Reached(leads, ref) \in SUBSET References /\ leads[q] \subseteq Reached(leads, ref)
      /\ \A r \in Reached(leads, ref) : leads[r] \subseteq Reached(leads, ref)
  BY ReachedLeast
<1> QED  BY <1>1, <1>2, ReachedLeast

LEMMA FirstStep ==
    ASSUME NEW leads, Graph(leads), NEW ref \in References, NEW q
    PROVE  q \in Reached(leads, ref) <=> \E r \in leads[ref] : q = r \/ q \in Reached(leads, r)
<1>1. leads[ref] \subseteq References
  BY DEF Graph
<1>2. ASSUME NEW r \in leads[ref], q = r \/ q \in Reached(leads, r) PROVE q \in Reached(leads, ref)
  <2>1. r \in Reached(leads, ref)
    BY ReachedLeast
  <2>2. Reached(leads, r) \subseteq Reached(leads, ref)
    BY <2>1, ReachedOn
  <2> QED  BY <1>2, <2>1, <2>2
<1>3. ASSUME q \in Reached(leads, ref) PROVE \E r \in leads[ref] : q = r \/ q \in Reached(leads, r)
  <2>1. PICK C : C = {p \in References : \E r \in leads[ref] : p = r \/ p \in Reached(leads, r)}
    OBVIOUS
  <2>2. C \in SUBSET References /\ leads[ref] \subseteq C
    BY <1>1, <2>1
  <2>3. ASSUME NEW p \in C, NEW s \in leads[p] PROVE s \in C
    <3>1. p \in References /\ s \in References
      BY <2>1, <2>3 DEF Graph
    <3>2. PICK r \in leads[ref] : p = r \/ p \in Reached(leads, r)
      BY <2>1
    <3>3. leads[r] \subseteq Reached(leads, r) /\ \A x \in Reached(leads, r) : leads[x] \subseteq Reached(leads, r)
      BY <1>1, ReachedLeast
    <3>4. s \in Reached(leads, r)
      BY <2>3, <3>2, <3>3
    <3> QED  BY <2>1, <3>1, <3>4
  <2>4. Reached(leads, ref) \subseteq C
    BY <2>2, <2>3, ReachedLeast
  <2> QED  BY <1>3, <2>1, <2>4
<1> QED  BY <1>2, <1>3

LEMMA EndlessOn ==
    ASSUME NEW leads, Graph(leads), NEW ref \in References
    PROVE  NeverEnds(leads, ref) <=> \E r \in leads[ref] : NeverEnds(leads, r)
<1>1. leads[ref] \subseteq References
  BY DEF Graph
<1>2. ASSUME NEW r \in leads[ref], NeverEnds(leads, r) PROVE NeverEnds(leads, ref)
  <2>1. PICK q \in {r} \cup Reached(leads, r) : q \in Reached(leads, q)
    BY <1>2 DEF NeverEnds
  <2>2. q \in Reached(leads, ref)
    BY FirstStep
  <2> QED  BY <2>1, <2>2 DEF NeverEnds
<1>3. ASSUME NeverEnds(leads, ref) PROVE \E r \in leads[ref] : NeverEnds(leads, r)
  <2>1. PICK q \in {ref} \cup Reached(leads, ref) : q \in Reached(leads, q)
    BY <1>3 DEF NeverEnds
  <2>2. q \in Reached(leads, ref)
    BY <2>1
  <2>3. PICK r \in leads[ref] : q = r \/ q \in Reached(leads, r)
    BY <2>2, FirstStep
  <2> QED  BY <2>1, <2>3 DEF NeverEnds
<1> QED  BY <1>2, <1>3

LEMMA LeadsFit ==
    ASSUME NormalizerAssumption, NEW targets, TargetsFit(targets),
           NEW uses \in [Dictionaries -> SUBSET References]
    PROVE  /\ Graph(Leads(targets, uses))
           /\ \A ref \in References :
                 /\ targets[ref] = <<>> => Leads(targets, uses)[ref] = {}
                 /\ targets[ref] # <<>> => Leads(targets, uses)[ref] = uses[targets[ref][1]]
<1>1. ASSUME NEW ref \in References
      PROVE  /\ Leads(targets, uses)[ref] = UNION {uses[target] : target \in ToSet(targets[ref])}
             /\ targets[ref] = <<>> => Leads(targets, uses)[ref] = {}
             /\ targets[ref] # <<>> => Leads(targets, uses)[ref] = uses[targets[ref][1]]
             /\ Leads(targets, uses)[ref] \in SUBSET References
  <2>1. Leads(targets, uses)[ref] = UNION {uses[target] : target \in ToSet(targets[ref])}
    BY DEF Leads
  <2>2. ASSUME targets[ref] = <<>> PROVE Leads(targets, uses)[ref] = {}
    <3>1. ToSet(targets[ref]) = {}
      BY <2>2 DEF ToSet
    <3> QED  BY <2>1, <3>1
  <2>3. ASSUME targets[ref] # <<>>
        PROVE  Leads(targets, uses)[ref] = uses[targets[ref][1]] /\ targets[ref][1] \in Dictionaries
    <3>1. ToSet(targets[ref]) = {targets[ref][1]} /\ targets[ref][1] \in Dictionaries
      BY <2>3, TargetFits
    <3> QED  BY <2>1, <3>1
  <2> QED  BY <2>1, <2>2, <2>3
<1>2. Graph(Leads(targets, uses))
  <2>1. Leads(targets, uses) = [ref \in References |-> Leads(targets, uses)[ref]]
    BY DEF Leads
  <2> QED  BY <1>1, <2>1 DEF Graph
<1> QED  BY <1>1, <1>2

(* A property of the references visited that holds as soon as it holds     *)
(* with one more.                                                          *)
LEMMA VisitedInduction ==
    ASSUME NormalizerAssumption, NEW G,
           \A seen \in SUBSET References :
              (\A ref \in References \ seen : seen \cup {ref} \in G) => seen \in G
    PROVE  \A seen \in SUBSET References : seen \in G
<1> DEFINE D == SUBSET References
           size == [seen \in D |-> Cardinality(References \ seen)]
<1>1. size \in [D -> Nat]
  BY FewerLeft
<1>2. ASSUME NEW d \in D, \A e \in D : size[e] < size[d] => e \in G PROVE d \in G
  <2>1. \A ref \in References \ d : d \cup {ref} \in D /\ size[d \cup {ref}] < size[d]
    BY FewerLeft
  <2>2. \A ref \in References \ d : d \cup {ref} \in G
    BY <1>2, <2>1
  <2> QED  BY <2>2
<1> HIDE DEF size
<1>3. \A d \in D : d \in G
  <2> HIDE DEF D
  <2> QED  BY <1>1, <1>2, InductionByMeasure
<1> QED  BY <1>3

(* What uses the reference of a dictionary, and nothing else of it.        *)
ByReference(uses) ==
    /\ uses \in [Dictionaries -> SUBSET References]
    /\ \A raw \in Dictionaries : raw.ref # NoReference => uses[raw] = {raw.ref}

(* One call of the resolver, case by case.                                 *)
ByCase(targets, uses, leads, seen, ref, r) ==
    \/ /\ ref \in ForeignReferences /\ targets[ref] = <<>> /\ leads[ref] = {}
       /\ r = Resolution("unsupported_external", <<>>)
    \/ ref \notin ForeignReferences /\ ref \in seen /\ r = Resolution("circular", <<>>)
    \/ /\ ref \notin ForeignReferences /\ ref \notin seen /\ targets[ref] = <<>>
       /\ leads[ref] = {} /\ r = Resolution("unresolved_internal", <<>>)
    \/ /\ ref \notin ForeignReferences /\ ref \notin seen /\ targets[ref] # <<>>
       /\ targets[ref][1] \in Dictionaries /\ targets[ref][1].ref = NoReference
       /\ leads[ref] = uses[targets[ref][1]]
       /\ r = Resolution("resolved_internal", <<targets[ref][1]>>)
    \/ /\ ref \notin ForeignReferences /\ ref \notin seen /\ targets[ref] # <<>>
       /\ \E next \in References :
             /\ targets[ref][1].ref = next /\ leads[ref] = {next}
             /\ r = Resolve(targets)[seen \cup {ref}][next]

LEMMA ResolveStep ==
    ASSUME NormalizerAssumption, NEW targets, TargetsFit(targets),
           NEW uses, ByReference(uses), NEW seen \in SUBSET References, NEW ref \in References
    PROVE  ByCase(targets, uses, Leads(targets, uses), seen, ref, Resolve(targets)[seen][ref])
<1> DEFINE r == Resolve(targets)[seen][ref]
           leads == Leads(targets, uses)
<1>1. r = Resolved(targets, Resolve(targets), seen, ref)
  BY ResolveUnfolds
<1>2. /\ targets[ref] = <<>> => leads[ref] = {}
      /\ targets[ref] # <<>> => leads[ref] = uses[targets[ref][1]]
  <2>1. uses \in [Dictionaries -> SUBSET References]
    BY DEF ByReference
  <2> QED  BY <2>1, LeadsFit
<1>3. ref \in ForeignReferences => targets[ref] = <<>>
  BY DEF TargetsFit
<1>4. targets[ref] # <<>> =>
         /\ targets[ref][1] \in Dictionaries /\ targets[ref] = <<targets[ref][1]>>
         /\ targets[ref][1].ref # NoReference => targets[ref][1].ref \in References
  BY TargetFits
<1>5. targets[ref] # <<>> /\ targets[ref][1].ref # NoReference => leads[ref] = {targets[ref][1].ref}
  BY <1>2, <1>4 DEF ByReference
<1> HIDE DEF r, leads
<1> QED  BY <1>1, <1>2, <1>3, <1>4, <1>5 DEF Resolved, ByCase, r, leads

(* A dictionary that is found is no reference, what it uses is reached     *)
(* from the reference, and following the one never ends if following the   *)
(* other does not.                                                         *)
Leading(targets, uses, seen, ref) ==
    LET r == Resolve(targets)[seen][ref]
        leads == Leads(targets, uses)
    IN  /\ r.status = "resolved_internal" <=> r.data # <<>>
        /\ r.data # <<>> =>
              /\ r.data[1] \in Dictionaries /\ r.data[1].ref = NoReference /\ ref \notin seen
              /\ uses[r.data[1]] \subseteq Reached(leads, ref)
              /\ NeverEnds(leads, ref) <=> \E q \in uses[r.data[1]] : NeverEnds(leads, q)

LEMMA FoundIsLed ==
    ASSUME NormalizerAssumption, NEW targets, TargetsFit(targets), NEW uses, ByReference(uses)
    PROVE  \A seen \in SUBSET References : \A ref \in References : Leading(targets, uses, seen, ref)
<1> DEFINE G == {seen \in SUBSET References : \A ref \in References : Leading(targets, uses, seen, ref)}
<1>1. PICK leads : leads = Leads(targets, uses)
  OBVIOUS
<1>2. Graph(leads)
  BY <1>1, LeadsFit DEF ByReference
<1>3. ASSUME NEW seen \in SUBSET References,
             \A ref \in References \ seen : seen \cup {ref} \in G,
             NEW ref \in References
      PROVE  Leading(targets, uses, seen, ref)
  <2>1. PICK r : r = Resolve(targets)[seen][ref]
    OBVIOUS
  <2> DEFINE Good == /\ r.status = "resolved_internal" <=> r.data # <<>>
                     /\ r.data # <<>> =>
                           /\ r.data[1] \in Dictionaries /\ r.data[1].ref = NoReference /\ ref \notin seen
                           /\ uses[r.data[1]] \subseteq Reached(leads, ref)
                           /\ NeverEnds(leads, ref) <=> \E q \in uses[r.data[1]] : NeverEnds(leads, q)
  <2>2. SUFFICES Good
    BY <1>1, <2>1 DEF Leading
  <2>3. ASSUME r \in {Resolution("unsupported_external", <<>>), Resolution("circular", <<>>),
                      Resolution("unresolved_internal", <<>>)}
        PROVE  Good
    BY <2>3 DEF Resolution
  <2>4. ASSUME targets[ref][1] \in Dictionaries, targets[ref][1].ref = NoReference, ref \notin seen,
               leads[ref] = uses[targets[ref][1]],
               r = Resolution("resolved_internal", <<targets[ref][1]>>)
        PROVE  Good
    <3>1. r.status = "resolved_internal" /\ r.data # <<>> /\ r.data[1] = targets[ref][1]
      BY <2>4 DEF Resolution
    <3>2. leads[ref] \subseteq Reached(leads, ref)
      BY <1>2, ReachedLeast
    <3>3. NeverEnds(leads, ref) <=> \E q \in leads[ref] : NeverEnds(leads, q)
      BY <1>2, EndlessOn
    <3> QED  BY <2>4, <3>1, <3>2, <3>3
  <2>5. ASSUME NEW next \in References, ref \notin seen, leads[ref] = {next},
               r = Resolve(targets)[seen \cup {ref}][next]
        PROVE  Good
    <3>1. Leading(targets, uses, seen \cup {ref}, next)
      BY <1>3, <2>5
    <3>2. /\ r.status = "resolved_internal" <=> r.data # <<>>
          /\ r.data # <<>> =>
                /\ r.data[1] \in Dictionaries /\ r.data[1].ref = NoReference
                /\ uses[r.data[1]] \subseteq Reached(leads, next)
                /\ NeverEnds(leads, next) <=> \E q \in uses[r.data[1]] : NeverEnds(leads, q)
      BY <1>1, <2>5, <3>1 DEF Leading
    <3>3. next \in Reached(leads, ref)
      BY <1>2, <2>5, ReachedLeast
    <3>4. Reached(leads, next) \subseteq Reached(leads, ref)
      BY <1>2, <3>3, ReachedOn
    <3>5. NeverEnds(leads, ref) <=> NeverEnds(leads, next)
      BY <1>2, <2>5, EndlessOn
    <3> QED  BY <2>5, <3>2, <3>4, <3>5
  <2>6. ByCase(targets, uses, leads, seen, ref, r)
    BY <1>1, <2>1, ResolveStep
  <2> HIDE DEF Good
  <2> QED  BY <2>3, <2>4, <2>5, <2>6 DEF ByCase
<1>4. \A seen \in SUBSET References :
         (\A ref \in References \ seen : seen \cup {ref} \in G) => seen \in G
  BY <1>3
<1> HIDE DEF G
<1>5. \A seen \in SUBSET References : seen \in G
  BY <1>4, VisitedInduction
<1> QED  BY <1>5 DEF G

(* A reference reported as circular leads to a cycle if every reference    *)
(* visited leads to it; and one that never ends is not reported as ended.  *)
LEMMA CircularNeverEnds ==
    ASSUME NormalizerAssumption, NEW targets, TargetsFit(targets), NEW uses, ByReference(uses),
           NEW leads, leads = Leads(targets, uses)
    PROVE  \A seen \in SUBSET References : \A ref \in References :
              /\ Resolve(targets)[seen][ref].status = "circular"
              /\ \A v \in seen : ref \in Reached(leads, v)
              => NeverEnds(leads, ref)
<1> DEFINE Circular(seen, ref) ==
              /\ Resolve(targets)[seen][ref].status = "circular"
              /\ \A v \in seen : ref \in Reached(leads, v)
              => NeverEnds(leads, ref)
           G == {seen \in SUBSET References : \A ref \in References : Circular(seen, ref)}
<1>1. Graph(leads)
  BY LeadsFit DEF ByReference
<1>2. ASSUME NEW seen \in SUBSET References,
             \A ref \in References \ seen : seen \cup {ref} \in G,
             NEW ref \in References,
             Resolve(targets)[seen][ref].status = "circular",
             \A v \in seen : ref \in Reached(leads, v)
      PROVE  NeverEnds(leads, ref)
  <2>1. PICK r : r = Resolve(targets)[seen][ref]
    OBVIOUS
  <2>2. ASSUME ref \in seen PROVE NeverEnds(leads, ref)
    BY <1>2, <2>2 DEF NeverEnds
  <2>3. ASSUME NEW next \in References, ref \notin seen, leads[ref] = {next},
               r = Resolve(targets)[seen \cup {ref}][next]
        PROVE  NeverEnds(leads, ref)
    <3>1. next \in Reached(leads, ref)
      BY <1>1, <2>3, ReachedLeast
    <3>2. \A v \in seen : next \in Reached(leads, v)
      <4>1. \A v \in seen : Reached(leads, ref) \subseteq Reached(leads, v)
        BY <1>1, <1>2, ReachedOn
      <4> QED  BY <3>1, <4>1
    <3>3. Circular(seen \cup {ref}, next)
      BY <1>2, <2>3
    <3>4. NeverEnds(leads, next)
      BY <1>2, <2>1, <2>3, <3>1, <3>2, <3>3
    <3> QED  BY <1>1, <2>3, <3>4, EndlessOn
  <2>4. r \in {Resolution("unsupported_external", <<>>), Resolution("unresolved_internal", <<>>),
               Resolution("resolved_internal", <<targets[ref][1]>>)} => r.status # "circular"
    BY DEF Resolution
  <2>5. ByCase(targets, uses, leads, seen, ref, r)
    BY <2>1, ResolveStep
  <2> QED  BY <1>2, <2>1, <2>2, <2>3, <2>4, <2>5 DEF ByCase
<1>3. \A seen \in SUBSET References :
         (\A ref \in References \ seen : seen \cup {ref} \in G) => seen \in G
  <2> SUFFICES ASSUME NEW seen \in SUBSET References,
                      \A ref \in References \ seen : seen \cup {ref} \in G,
                      NEW ref \in References
               PROVE  Circular(seen, ref)
    OBVIOUS
  <2> HIDE DEF G
  <2> QED  BY <1>2
<1> HIDE DEF G
<1>4. \A seen \in SUBSET References : seen \in G
  BY <1>3, VisitedInduction
<1> QED  BY <1>4 DEF G

LEMMA EndedEnds ==
    ASSUME NormalizerAssumption, NEW targets, TargetsFit(targets), NEW uses, ByReference(uses),
           NEW leads, leads = Leads(targets, uses)
    PROVE  \A seen \in SUBSET References : \A ref \in References :
              Resolve(targets)[seen][ref].status \in {"unresolved_internal", "unsupported_external"}
                 => ~NeverEnds(leads, ref)
<1> DEFINE Ended(seen, ref) ==
              Resolve(targets)[seen][ref].status \in {"unresolved_internal", "unsupported_external"}
                 => ~NeverEnds(leads, ref)
           G == {seen \in SUBSET References : \A ref \in References : Ended(seen, ref)}
<1>1. Graph(leads)
  BY LeadsFit DEF ByReference
<1>2. ASSUME NEW seen \in SUBSET References,
             \A ref \in References \ seen : seen \cup {ref} \in G,
             NEW ref \in References,
             Resolve(targets)[seen][ref].status \in {"unresolved_internal", "unsupported_external"}
      PROVE  ~NeverEnds(leads, ref)
  <2>1. PICK r : r = Resolve(targets)[seen][ref]
    OBVIOUS
  <2>2. ASSUME leads[ref] = {} PROVE ~NeverEnds(leads, ref)
    BY <1>1, <2>2, EndlessOn
  <2>3. ASSUME NEW next \in References, ref \notin seen, leads[ref] = {next},
               r = Resolve(targets)[seen \cup {ref}][next]
        PROVE  ~NeverEnds(leads, ref)
    <3>1. Ended(seen \cup {ref}, next)
      BY <1>2, <2>3
    <3>2. ~NeverEnds(leads, next)
      BY <1>2, <2>1, <2>3, <3>1
    <3> QED  BY <1>1, <2>3, <3>2, EndlessOn
  <2>4. r \in {Resolution("circular", <<>>), Resolution("resolved_internal", <<targets[ref][1]>>)}
           => r.status \notin {"unresolved_internal", "unsupported_external"}
    BY DEF Resolution
  <2>5. ByCase(targets, uses, leads, seen, ref, r)
    BY <2>1, ResolveStep
  <2> QED  BY <1>2, <2>1, <2>2, <2>3, <2>4, <2>5 DEF ByCase
<1>3. \A seen \in SUBSET References :
         (\A ref \in References \ seen : seen \cup {ref} \in G) => seen \in G
  <2> SUFFICES ASSUME NEW seen \in SUBSET References,
                      \A ref \in References \ seen : seen \cup {ref} \in G,
                      NEW ref \in References
               PROVE  Ended(seen, ref)
    OBVIOUS
  <2> HIDE DEF G
  <2> QED  BY <1>2
<1> HIDE DEF G
<1>4. \A seen \in SUBSET References : seen \in G
  BY <1>3, VisitedInduction
<1> QED  BY <1>4 DEF G

(* The chain of a reference ends at a target that is missing.              *)
Missing(targets, ref) ==
    \E q \in ({ref} \cup Reached(Leads(targets, OwnReference), ref)) \ ForeignReferences :
        targets[q] = <<>>

LEMMA OwnByReference ==
    ASSUME NormalizerAssumption
    PROVE  /\ ByReference(OwnReference)
           /\ \A raw \in Dictionaries : raw.ref = NoReference => OwnReference[raw] = {}
<1>1. OwnReference \in [Dictionaries -> SUBSET References]
  BY UsesUnfold
<1>2. \A raw \in Dictionaries : OwnReference[raw] = {raw.ref} \ {NoReference}
  BY DEF OwnReference
<1> QED  BY <1>1, <1>2 DEF ByReference

(* A chain that comes back has nothing missing.                            *)
LEMMA RoundIsWhole ==
    ASSUME NormalizerAssumption, NEW targets, TargetsFit(targets), NEW ref \in References,
           ref \in Reached(Leads(targets, OwnReference), ref)
    PROVE  ~Missing(targets, ref)
<1>1. PICK leads : leads = Leads(targets, OwnReference)
  OBVIOUS
<1>2. Graph(leads) /\ \A q \in References : targets[q] = <<>> => leads[q] = {}
  BY <1>1, OwnByReference, LeadsFit DEF ByReference
<1>3. \A q \in References : \A r, s \in leads[q] : r = s
  <2> SUFFICES ASSUME NEW q \in References, NEW r \in leads[q], NEW s \in leads[q] PROVE r = s
    OBVIOUS
  <2>1. targets[q] # <<>>
    BY <1>2
  <2>2. leads[q] = OwnReference[targets[q][1]] /\ targets[q][1] \in Dictionaries
    BY <1>1, <2>1, OwnByReference, LeadsFit, TargetFits DEF ByReference
  <2>3. leads[q] = {targets[q][1].ref} \ {NoReference}
    BY <2>2 DEF OwnReference
  <2> QED  BY <2>3
<1>4. PICK C : C = {q \in References : ref \in Reached(leads, q)}
  OBVIOUS
<1>5. ASSUME NEW q \in References, ref \in Reached(leads, q), NEW s \in leads[q]
      PROVE  s \in C
  <2>1. PICK r \in leads[q] : ref = r \/ ref \in Reached(leads, r)
    BY <1>2, <1>5, FirstStep
  <2>2. r = s /\ s \in References
    BY <1>2, <1>3, <1>5 DEF Graph
  <2>3. ref \in Reached(leads, ref)
    BY <1>1
  <2> QED  BY <1>4, <2>1, <2>2, <2>3
<1>6. leads[ref] \subseteq C /\ C \in SUBSET References /\ \A q \in C : leads[q] \subseteq C
  BY <1>1, <1>4, <1>5
<1>7. Reached(leads, ref) \subseteq C
  BY <1>2, <1>6, ReachedLeast
<1>8. ASSUME NEW q \in References, ref \in Reached(leads, q) PROVE targets[q] # <<>>
  <2>1. leads[q] # {}
    BY <1>2, <1>8, FirstStep
  <2> QED  BY <1>2, <2>1
<1> QED  BY <1>1, <1>4, <1>7, <1>8 DEF Missing

LEMMA MissingOn ==
    ASSUME NormalizerAssumption, NEW targets, TargetsFit(targets), NEW ref \in References,
           NEW leads, leads = Leads(targets, OwnReference)
    PROVE  /\ leads[ref] = {} => (Missing(targets, ref) <=>
                                     ref \notin ForeignReferences /\ targets[ref] = <<>>)
           /\ \A next \in References : targets[ref] # <<>> /\ leads[ref] = {next} =>
                 (Missing(targets, ref) <=> Missing(targets, next))
<1>1. Graph(leads)
  BY OwnByReference, LeadsFit DEF ByReference
<1>2. \A q : q \in Reached(leads, ref) <=> \E r \in leads[ref] : q = r \/ q \in Reached(leads, r)
  BY <1>1, FirstStep
<1>3. ASSUME leads[ref] = {}
      PROVE  Missing(targets, ref) <=> ref \notin ForeignReferences /\ targets[ref] = <<>>
  <2>1. Reached(leads, ref) = {}
    BY <1>2, <1>3
  <2> QED  BY <2>1 DEF Missing
<1>4. ASSUME NEW next \in References, targets[ref] # <<>>, leads[ref] = {next}
      PROVE  Missing(targets, ref) <=> Missing(targets, next)
  <2>1. \A q : q \in Reached(leads, ref) <=> q = next \/ q \in Reached(leads, next)
    BY <1>2, <1>4
  <2> QED  BY <1>4, <2>1 DEF Missing
<1> QED  BY <1>3, <1>4

(* Unresolved is what is missing, if no reference visited is missing that  *)
(* does not lead here.                                                     *)
LEMMA UnresolvedIsMissing ==
    ASSUME NormalizerAssumption, NEW targets, TargetsFit(targets),
           NEW leads, leads = Leads(targets, OwnReference)
    PROVE  \A seen \in SUBSET References : \A ref \in References :
              (\A v \in seen : Missing(targets, v) => ref \in Reached(leads, v)) =>
                 (Resolve(targets)[seen][ref].status = "unresolved_internal" <=> Missing(targets, ref))
<1> DEFINE Unresolved(seen, ref) ==
              (\A v \in seen : Missing(targets, v) => ref \in Reached(leads, v)) =>
                 (Resolve(targets)[seen][ref].status = "unresolved_internal" <=> Missing(targets, ref))
           G == {seen \in SUBSET References : \A ref \in References : Unresolved(seen, ref)}
<1>1. Graph(leads) /\ ByReference(OwnReference)
  BY OwnByReference, LeadsFit DEF ByReference
<1>2. ASSUME NEW seen \in SUBSET References,
             \A ref \in References \ seen : seen \cup {ref} \in G,
             NEW ref \in References,
             \A v \in seen : Missing(targets, v) => ref \in Reached(leads, v)
      PROVE  Resolve(targets)[seen][ref].status = "unresolved_internal" <=> Missing(targets, ref)
  <2>1. PICK r : r = Resolve(targets)[seen][ref]
    OBVIOUS
  <2> DEFINE Good == r.status = "unresolved_internal" <=> Missing(targets, ref)
  <2>2. ASSUME ref \in ForeignReferences, leads[ref] = {}, r = Resolution("unsupported_external", <<>>)
        PROVE  Good
    <3>1. ~Missing(targets, ref)
      BY <2>2, MissingOn
    <3> QED  BY <2>2, <3>1 DEF Resolution
  <2>3. ASSUME ref \in seen, r = Resolution("circular", <<>>) PROVE Good
    <3>1. ~Missing(targets, ref)
      <4>1. Missing(targets, ref) => ref \in Reached(leads, ref)
        BY <1>2, <2>3
      <4> QED  BY <4>1, RoundIsWhole
    <3> QED  BY <2>3, <3>1 DEF Resolution
  <2>4. ASSUME ref \notin ForeignReferences, targets[ref] = <<>>, leads[ref] = {},
               r = Resolution("unresolved_internal", <<>>)
        PROVE  Good
    <3>1. Missing(targets, ref)
      BY <2>4 DEF Missing
    <3> QED  BY <2>4, <3>1 DEF Resolution
  <2>5. ASSUME targets[ref] # <<>>, targets[ref][1] \in Dictionaries,
               targets[ref][1].ref = NoReference, leads[ref] = OwnReference[targets[ref][1]],
               r = Resolution("resolved_internal", <<targets[ref][1]>>)
        PROVE  Good
    <3>1. leads[ref] = {}
      BY <2>5, OwnByReference
    <3>2. ~Missing(targets, ref)
      BY <2>5, <3>1, MissingOn
    <3> QED  BY <2>5, <3>2 DEF Resolution
  <2>6. ASSUME NEW next \in References, ref \notin seen, targets[ref] # <<>>, leads[ref] = {next},
               r = Resolve(targets)[seen \cup {ref}][next]
        PROVE  Good
    <3>1. next \in Reached(leads, ref)
      BY <1>1, <2>6, ReachedLeast
    <3>2. \A v \in seen : Missing(targets, v) => next \in Reached(leads, v)
      <4>1. \A v \in seen : Missing(targets, v) => Reached(leads, ref) \subseteq Reached(leads, v)
        BY <1>1, <1>2, ReachedOn
      <4> QED  BY <3>1, <4>1
    <3>3. Unresolved(seen \cup {ref}, next)
      BY <1>2, <2>6
    <3>4. r.status = "unresolved_internal" <=> Missing(targets, next)
      BY <2>6, <3>1, <3>2, <3>3
    <3>5. Missing(targets, ref) <=> Missing(targets, next)
      BY <2>6, MissingOn
    <3> QED  BY <3>4, <3>5
  <2>7. ByCase(targets, OwnReference, leads, seen, ref, r)
    BY <1>1, <2>1, ResolveStep
  <2>8. Good
    <3> HIDE DEF Good
    <3> QED  BY <2>2, <2>3, <2>4, <2>5, <2>6, <2>7 DEF ByCase
  <2> QED  BY <2>1, <2>8
<1>3. \A seen \in SUBSET References :
         (\A ref \in References \ seen : seen \cup {ref} \in G) => seen \in G
  <2> SUFFICES ASSUME NEW seen \in SUBSET References,
                      \A ref \in References \ seen : seen \cup {ref} \in G,
                      NEW ref \in References
               PROVE  Unresolved(seen, ref)
    OBVIOUS
  <2> HIDE DEF G
  <2> QED  BY <1>2
<1> HIDE DEF G
<1>4. \A seen \in SUBSET References : seen \in G
  BY <1>3, VisitedInduction
<1> QED  BY <1>4 DEF G

(* What is there at a visit: a reference that leads nowhere, a schema      *)
(* written in place, or the end of the chain of a reference.               *)
AtVisit(targets, v) ==
    LET r == Resolve(targets)[v.visited][v.raw.ref]
        target == Target(targets, v.raw, v.visited)
        branch == Branch(targets, v)
    IN  \/ /\ Dangling(targets, v) /\ v.raw.ref \in References
           /\ r.data = <<>> \/ r.data[1].empty
        \/ /\ ~Dangling(targets, v) /\ v.raw.ref = NoReference
           /\ target = v.raw /\ branch = v.visited
        \/ /\ ~Dangling(targets, v) /\ v.raw.ref \in References /\ v.raw.ref \notin v.visited
           /\ r.status = "resolved_internal" /\ r.data # <<>> /\ r.data[1] = target
           /\ target \in Dictionaries /\ target.ref = NoReference
           /\ branch = v.visited \cup {v.raw.ref}

LEMMA VisitCases ==
    ASSUME NormalizerAssumption, NEW targets, TargetsFit(targets), NEW v \in Visits
    PROVE  AtVisit(targets, v)
<1>1. v.raw \in Dictionaries /\ v.visited \in SUBSET References
  BY DEF Visits
<1>2. v.raw.ref \in References \cup {NoReference} /\ NoReference \notin References
  BY <1>1, ItemsFit DEF NormalizerAssumption
<1>3. CASE v.raw.ref = NoReference
  BY <1>3 DEF AtVisit, Dangling, Follows, Target, Branch
<1>4. CASE v.raw.ref \in References
  <2>1. PICK r : r = Resolve(targets)[v.visited][v.raw.ref]
    OBVIOUS
  <2>2. /\ r.status = "resolved_internal" <=> r.data # <<>>
        /\ r.data # <<>> => /\ r.data[1] \in Dictionaries /\ r.data[1].ref = NoReference
                            /\ v.raw.ref \notin v.visited
    <3>1. Leading(targets, OwnReference, v.visited, v.raw.ref)
      BY <1>1, <1>4, FoundIsLed, OwnByReference
    <3> QED  BY <2>1, <3>1 DEF Leading
  <2>3. Follows(targets, v.raw, v.visited) <=> r.data # <<>> /\ ~r.data[1].empty
    BY <1>2, <1>4, <2>1 DEF Follows, Usable
  <2>4. Follows(targets, v.raw, v.visited) => /\ Target(targets, v.raw, v.visited) = r.data[1]
                                              /\ Branch(targets, v) = v.visited \cup {v.raw.ref}
    BY <2>1 DEF Target, Branch
  <2>5. Dangling(targets, v) <=> ~Follows(targets, v.raw, v.visited)
    BY <1>2, <1>4 DEF Dangling
  <2> QED  BY <1>4, <2>1, <2>2, <2>3, <2>4, <2>5 DEF AtVisit
<1> QED  BY <1>2, <1>3, <1>4

Stops(targets, v) == Dangling(targets, v) \/ Target(targets, v.raw, v.visited).items = <<>>
Inside(targets, v) == Visit(Target(targets, v.raw, v.visited).items[1], Branch(targets, v))

(* The visit of the items comes later in this order: fewer references are  *)
(* left, or items are nested less deep.                                    *)
Later(v) == Cardinality(References \ v.visited) * (MaxNesting + 1) + Nesting(v.raw)

LEMMA LaterByReference ==
    ASSUME NEW M \in Nat, NEW c \in Nat, NEW d \in Nat, NEW m \in Nat, NEW n \in Nat, c < d, m <= M
    PROVE  c * (M + 1) + m < d * (M + 1) + n
<1>1. PICK e \in Nat : d = c + 1 + e
  <2>1. d - (c + 1) \in Nat /\ d = c + 1 + (d - (c + 1))
    OBVIOUS
  <2> QED  BY <2>1
<1>2. d * (M + 1) = c * (M + 1) + (M + 1) + e * (M + 1)
  BY <1>1
<1>3. e * (M + 1) \in Nat /\ c * (M + 1) \in Nat
  OBVIOUS
<1> QED  BY <1>2, <1>3

LEMMA LaterInside ==
    ASSUME NormalizerAssumption, NEW targets, TargetsFit(targets), NEW v \in Visits
    PROVE  /\ Later(v) \in Nat
           /\ ~Stops(targets, v) => /\ Inside(targets, v) \in Visits
                                    /\ Later(Inside(targets, v)) < Later(v)
<1>1. v.raw \in Dictionaries /\ v.visited \in SUBSET References
  BY DEF Visits
<1>2. \A raw \in Dictionaries : Nesting(raw) \in 0 .. MaxNesting
  BY DEF NormalizerAssumption
<1>3. MaxNesting \in Nat
  BY DEF NormalizerAssumption
<1>4. \A seen \in SUBSET References : Cardinality(References \ seen) \in Nat
  BY FewerLeft
<1>a. ASSUME NEW c \in Nat, NEW n \in Nat PROVE c * (MaxNesting + 1) \in Nat /\ c * (MaxNesting + 1) + n \in Nat
  <2>1. ASSUME NEW M \in Nat PROVE c * (M + 1) \in Nat /\ c * (M + 1) + n \in Nat
    BY <1>a, <2>1
  <2> QED  BY <1>3, <2>1
<1>5. Later(v) \in Nat
  <2>1. Cardinality(References \ v.visited) \in Nat
    BY <1>1, <1>4
  <2>2. Nesting(v.raw) \in Nat
    BY <1>1, <1>2, <1>3
  <2> QED  BY <1>a, <2>1, <2>2 DEF Later
<1>6. ASSUME ~Stops(targets, v)
      PROVE  Inside(targets, v) \in Visits /\ Later(Inside(targets, v)) < Later(v)
  <2>1. PICK target : target = Target(targets, v.raw, v.visited)
    OBVIOUS
  <2>2. PICK branch : branch = Branch(targets, v)
    OBVIOUS
  <2>3. ~Dangling(targets, v) /\ target.items # <<>>
    BY <1>6, <2>1 DEF Stops
  <2>4. \/ target = v.raw /\ branch = v.visited
        \/ target \in Dictionaries /\ v.raw.ref \in References \ v.visited /\ branch = v.visited \cup {v.raw.ref}
    BY <2>1, <2>2, <2>3, VisitCases DEF AtVisit
  <2>5. target \in Dictionaries /\ branch \in SUBSET References
    BY <1>1, <2>4
  <2>6. PICK item : item = target.items[1]
    OBVIOUS
  <2>7. item \in Dictionaries /\ item \in ToSet(target.items) /\ Nesting(item) < Nesting(target)
    BY <2>3, <2>5, <2>6, ItemsFit
  <2>8. Inside(targets, v) = [raw |-> item, visited |-> branch]
    BY <2>1, <2>2, <2>6 DEF Inside, Visit
  <2>9. Later(Inside(targets, v)) = Cardinality(References \ branch) * (MaxNesting + 1) + Nesting(item)
    BY <2>8 DEF Later
  <2>10. CASE target = v.raw /\ branch = v.visited
    <3>0. Cardinality(References \ branch) \in Nat /\ 0 \in Nat
      BY <1>4, <2>5
    <3>1. PICK k \in Nat : k = Cardinality(References \ branch) * (MaxNesting + 1)
      BY <1>a, <3>0
    <3>2. Later(v) = k + Nesting(target) /\ Later(Inside(targets, v)) = k + Nesting(item)
      BY <2>9, <2>10, <3>1 DEF Later
    <3>3. Nesting(target) \in Nat /\ Nesting(item) \in Nat
      BY <1>2, <1>3, <2>5, <2>7
    <3>4. Later(Inside(targets, v)) < Later(v)
      BY <2>7, <3>2, <3>3
    <3> QED  BY <2>5, <2>7, <2>8, <3>4 DEF Visits
  <2>11. CASE v.raw.ref \in References \ v.visited /\ branch = v.visited \cup {v.raw.ref}
    <3>1. Cardinality(References \ branch) < Cardinality(References \ v.visited)
      BY <1>1, <2>11, FewerLeft
    <3>2. Nesting(item) \in Nat /\ Nesting(item) <= MaxNesting /\ Nesting(v.raw) \in Nat
      BY <1>1, <1>2, <1>3, <2>7
    <3>3. Cardinality(References \ branch) \in Nat /\ Cardinality(References \ v.visited) \in Nat
      BY <1>1, <1>4, <2>5
    <3>4. Later(Inside(targets, v)) < Later(v)
      BY <1>3, <2>9, <3>1, <3>2, <3>3, LaterByReference DEF Later
    <3> QED  BY <2>5, <2>7, <2>8, <3>4 DEF Visits
  <2> QED  BY <2>4, <2>10, <2>11
<1> QED  BY <1>5, <1>6

(* normalize_schema, with f for the call for the items.                    *)
LevelsFrom(targets, f, v) ==
    IF Stops(targets, v) THEN <<NormalizedSchema(targets, v)>>
    ELSE <<NormalizedSchema(targets, v)>> \o f[Inside(targets, v)]

LEMMA NormalizeUnfolds ==
    ASSUME NormalizerAssumption, NEW targets, TargetsFit(targets)
    PROVE  \A v \in Visits : NormalizeSchema(targets)[v] = LevelsFrom(targets, NormalizeSchema(targets), v)
<1> DEFINE D == Visits
           L == {NormalizedSchema(targets, v) : v \in D}
           V == Seq(L)
           Of(g, v) ==
               LET items == Target(targets, v.raw, v.visited).items
               IN  IF Dangling(targets, v) \/ items = <<>> THEN <<NormalizedSchema(targets, v)>>
                   ELSE <<NormalizedSchema(targets, v)>>
                          \o g[Visit(items[1], Branch(targets, v))]
           size == [v \in D |-> Later(v)]
           B == [z \in D \X [D -> V] |-> Of(z[2], z[1])]
           c == CHOOSE f : f = [v \in D |-> Of(f, v)]
<1>1. size \in [D -> Nat]
  BY LaterInside
<1>2. \A g : \A v \in D : Of(g, v) = LevelsFrom(targets, g, v)
  BY DEF LevelsFrom, Stops, Inside
<1>3. \A v \in D : ~Stops(targets, v) => Inside(targets, v) \in D /\ size[Inside(targets, v)] < size[v]
  BY LaterInside
<1>4. \A v \in D : NormalizedSchema(targets, v) \in L
  OBVIOUS
<1>5. NormalizeSchema(targets) = c
  BY DEF NormalizeSchema
<1> HIDE DEF Of, D, L
<1>6. ASSUME NEW g \in [D -> V], NEW v \in D PROVE Of(g, v) \in V
  <2>1. <<NormalizedSchema(targets, v)>> \in Seq(L)
    BY <1>4
  <2>2. ~Stops(targets, v) => g[Inside(targets, v)] \in Seq(L)
    BY <1>3
  <2>3. \A s, t \in Seq(L) : s \o t \in Seq(L)
    OBVIOUS
  <2> QED  BY <1>2, <2>1, <2>2, <2>3 DEF LevelsFrom
<1>7. ASSUME NEW d \in D, NEW g, NEW h, \A e \in D : size[e] < size[d] => g[e] = h[e]
      PROVE  Of(g, d) = Of(h, d)
  <2>1. ~Stops(targets, d) => g[Inside(targets, d)] = h[Inside(targets, d)]
    BY <1>3, <1>7
  <2> QED  BY <1>2, <2>1 DEF LevelsFrom
<1>8. B \in [D \X [D -> V] -> V]
  <2> HIDE DEF V
  <2> QED  BY <1>6
<1>9. \A d \in D : \A g, h \in [D -> V] :
         (\A e \in D : size[e] < size[d] => g[e] = h[e]) => B[<<d, g>>] = B[<<d, h>>]
  <2> HIDE DEF V, size
  <2> QED  BY <1>7
<1>10. PICK f \in [D -> V] : \A d \in D : f[d] = B[<<d, f>>]
  <2>1. <<>> \in V
    OBVIOUS
  <2> HIDE DEF B, size, V
  <2>2. LooksBelow(B, D, V, size)
    BY <1>1, <1>8, <1>9, <2>1 DEF LooksBelow
  <2> QED  BY <2>2, RecursionByMeasure
<1>11. \A d \in D : f[d] = Of(f, d)
  <2>1. \A d \in D : <<d, f>> \in D \X [D -> V]
    OBVIOUS
  <2> HIDE DEF V
  <2> QED  BY <1>10, <2>1
<1>12. f = [v \in D |-> Of(f, v)]
  <2> HIDE DEF V
  <2> QED  BY <1>11
<1>13. c = [v \in D |-> Of(c, v)]
  BY <1>12
<1> HIDE DEF c
<1>14. \A v \in D : c[v] = Of(c, v)
  BY <1>13
<1>15. \A v \in D : c[v] = LevelsFrom(targets, c, v)
  BY <1>2, <1>14
<1> QED  BY <1>5, <1>15 DEF D

(* What a visit has as soon as the visit of the items has it, all have.    *)
LEMMA VisitInduction ==
    ASSUME NormalizerAssumption, NEW targets, TargetsFit(targets), NEW G,
           \A v \in Visits : (~Stops(targets, v) => Inside(targets, v) \in G) => v \in G
    PROVE  \A v \in Visits : v \in G
<1> DEFINE size == [v \in Visits |-> Later(v)]
<1>1. size \in [Visits -> Nat]
  BY LaterInside
<1>2. ASSUME NEW d \in Visits, \A e \in Visits : size[e] < size[d] => e \in G PROVE d \in G
  <2>1. ~Stops(targets, d) => Inside(targets, d) \in G
    BY <1>2, LaterInside
  <2> QED  BY <2>1
<1> HIDE DEF size
<1> QED  BY <1>1, <1>2, InductionByMeasure

Schemas(targets) == {NormalizedSchema(targets, v) : v \in Visits}

(* Every level is the schema of a visit, and a statement about all levels  *)
(* is one about the first and about those of the items.                    *)
LEMMA LevelsSplit ==
    ASSUME NormalizerAssumption, NEW targets, TargetsFit(targets), NEW v \in Visits,
           NEW levels, levels = NormalizeSchema(targets)[v]
    PROVE  /\ levels \in Seq(Schemas(targets))
           /\ Stops(targets, v) => levels = <<NormalizedSchema(targets, v)>>
           /\ ~Stops(targets, v) =>
                 levels = <<NormalizedSchema(targets, v)>> \o NormalizeSchema(targets)[Inside(targets, v)]
<1> DEFINE S == Schemas(targets)
           G == {u \in Visits : NormalizeSchema(targets)[u] \in Seq(S)}
<1>1. \A u \in Visits : NormalizedSchema(targets, u) \in S
  BY DEF Schemas
<1>2. \A u \in Visits : NormalizeSchema(targets)[u] = LevelsFrom(targets, NormalizeSchema(targets), u)
  BY NormalizeUnfolds
<1> HIDE DEF S
<1>3. ASSUME NEW u \in Visits, ~Stops(targets, u) => Inside(targets, u) \in G PROVE u \in G
  <2>1. <<NormalizedSchema(targets, u)>> \in Seq(S)
    BY <1>1
  <2>2. ~Stops(targets, u) => NormalizeSchema(targets)[Inside(targets, u)] \in Seq(S)
    BY <1>3
  <2>3. \A s, t \in Seq(S) : s \o t \in Seq(S)
    OBVIOUS
  <2> QED  BY <1>2, <2>1, <2>2, <2>3 DEF LevelsFrom
<1> HIDE DEF G
<1>4. \A u \in Visits : u \in G
  BY <1>3, VisitInduction
<1> QED  BY <1>2, <1>4 DEF G, S, LevelsFrom

(* One more in front.                                                      *)
LEMMA InFront ==
    ASSUME NEW S, NEW x \in S, NEW s \in Seq(S)
    PROVE  ToSet(<<x>> \o s) = {x} \cup ToSet(s) /\ ToSet(<<x>>) = {x}
<1>1. PICK t : t = <<x>> \o s
  OBVIOUS
<1>2. /\ <<x>> \in Seq(S) /\ Len(<<x>>) = 1 /\ <<x>>[1] = x /\ Len(s) \in Nat
      /\ DOMAIN s = 1 .. Len(s) /\ DOMAIN <<x>> = {1}
  OBVIOUS
<1>3. /\ t \in Seq(S) /\ Len(t) = 1 + Len(s) /\ t[1] = x
      /\ \A i \in 1 .. Len(s) : t[i + 1] = s[i]
  BY <1>1, <1>2
<1>4. DOMAIN t = 1 .. (1 + Len(s))
  BY <1>3
<1>5. ASSUME NEW n \in Nat
      PROVE  /\ \A i \in 1 .. (1 + n) : i = 1 \/ \E k \in 1 .. n : i = k + 1
             /\ 1 \in 1 .. (1 + n) /\ \A k \in 1 .. n : k + 1 \in 1 .. (1 + n)
  <2>1. \A i \in 1 .. (1 + n) : i # 1 => i - 1 \in 1 .. n /\ i = (i - 1) + 1
    OBVIOUS
  <2> QED  BY <2>1
<1>6. ASSUME NEW y \in ToSet(t) PROVE y \in {x} \cup ToSet(s)
  <2>1. PICK i \in 1 .. (1 + Len(s)) : y = t[i]
    BY <1>4 DEF ToSet
  <2>2. i = 1 \/ \E k \in 1 .. Len(s) : i = k + 1
    BY <1>2, <1>5
  <2>3. CASE i = 1
    BY <1>3, <2>1, <2>3
  <2>4. ASSUME NEW k \in 1 .. Len(s), i = k + 1 PROVE y \in ToSet(s)
    BY <1>2, <1>3, <2>1, <2>4 DEF ToSet
  <2> QED  BY <2>2, <2>3, <2>4
<1>7. x \in ToSet(t)
  BY <1>2, <1>3, <1>4, <1>5 DEF ToSet
<1>8. ASSUME NEW y \in ToSet(s) PROVE y \in ToSet(t)
  <2>1. PICK k \in 1 .. Len(s) : y = s[k]
    BY <1>2 DEF ToSet
  <2>2. y = t[k + 1] /\ k + 1 \in DOMAIN t
    BY <1>2, <1>3, <1>4, <1>5, <2>1
  <2> QED  BY <2>2 DEF ToSet
<1>9. ToSet(<<x>>) = {x}
  BY <1>2 DEF ToSet
<1> QED  BY <1>1, <1>6, <1>7, <1>8, <1>9

(* The schemas of all levels.                                              *)
LEMMA LevelSet ==
    ASSUME NormalizerAssumption, NEW targets, TargetsFit(targets), NEW v \in Visits
    PROVE  /\ Stops(targets, v) => ToSet(NormalizeSchema(targets)[v]) = {NormalizedSchema(targets, v)}
           /\ ~Stops(targets, v) =>
                 ToSet(NormalizeSchema(targets)[v]) =
                    {NormalizedSchema(targets, v)} \cup ToSet(NormalizeSchema(targets)[Inside(targets, v)])
<1>1. PICK S : S = Schemas(targets)
  OBVIOUS
<1>2. PICK x : x = NormalizedSchema(targets, v)
  OBVIOUS
<1>3. x \in S
  BY <1>1, <1>2 DEF Schemas
<1>a. PICK levels : levels = NormalizeSchema(targets)[v]
  OBVIOUS
<1>b. <<>> \in Seq(S)
  OBVIOUS
<1>4. CASE Stops(targets, v)
  <2>1. levels = <<x>>
    BY <1>2, <1>4, <1>a, LevelsSplit
  <2>2. ToSet(<<x>>) = {x}
    BY <1>3, <1>b, InFront
  <2> QED  BY <1>2, <1>4, <1>a, <2>1, <2>2
<1>5. CASE ~Stops(targets, v)
  <2>1. Inside(targets, v) \in Visits
    BY <1>5, LaterInside
  <2>2. PICK s : s = NormalizeSchema(targets)[Inside(targets, v)]
    OBVIOUS
  <2>3. s \in Seq(S)
    BY <1>1, <2>1, <2>2, LevelsSplit
  <2>4. levels = <<x>> \o s
    BY <1>2, <1>5, <1>a, <2>2, LevelsSplit
  <2>5. ToSet(<<x>> \o s) = {x} \cup ToSet(s)
    BY <1>3, <2>3, InFront
  <2> QED  BY <1>2, <1>5, <1>a, <2>2, <2>4, <2>5
<1> QED  BY <1>4, <1>5

(* Every reference visited leads to what is used here.                     *)
Rooted(leads, seen, used) == \A u \in seen : used \subseteq Reached(leads, u)

(* Past the reference of a visit: its target uses the same as far as       *)
(* cycles go, and the references visited lead to what it uses.             *)
LEMMA PastTheReference ==
    ASSUME NormalizerAssumption, NEW targets, TargetsFit(targets), NEW uses, ByReference(uses),
           NEW v \in Visits, ~Dangling(targets, v), NEW leads, leads = Leads(targets, uses),
           NEW target, target = Target(targets, v.raw, v.visited),
           NEW branch, branch = Branch(targets, v)
    PROVE  /\ target \in Dictionaries /\ target.ref = NoReference /\ branch \in SUBSET References
           /\ (\E q \in uses[v.raw] : NeverEnds(leads, q)) <=> (\E q \in uses[target] : NeverEnds(leads, q))
           /\ Rooted(leads, v.visited, uses[v.raw]) => Rooted(leads, branch, uses[target])
           /\ v.raw.ref # NoReference =>
                 /\ Resolve(targets)[v.visited][v.raw.ref].status = "resolved_internal"
                 /\ branch = v.visited \cup {v.raw.ref}
           /\ v.raw.ref = NoReference => branch = v.visited
<1>1. v.raw \in Dictionaries /\ v.visited \in SUBSET References /\ Graph(leads)
  BY LeadsFit DEF Visits, ByReference
<1>2. NoReference \notin References
  BY DEF NormalizerAssumption
<1>3. CASE v.raw.ref = NoReference
  BY <1>1, <1>2, <1>3, VisitCases DEF AtVisit
<1>4. CASE v.raw.ref # NoReference
  <2>1. PICK ref : ref = v.raw.ref
    OBVIOUS
  <2>2. PICK r : r = Resolve(targets)[v.visited][ref]
    OBVIOUS
  <2>3. /\ ref \in References /\ ref \notin v.visited
        /\ r.status = "resolved_internal" /\ r.data # <<>> /\ r.data[1] = target
        /\ target \in Dictionaries /\ target.ref = NoReference /\ branch = v.visited \cup {ref}
    BY <1>4, <2>1, <2>2, VisitCases DEF AtVisit
  <2>4. Leading(targets, uses, v.visited, ref)
    BY <1>1, <2>3, FoundIsLed
  <2>5. /\ uses[target] \subseteq Reached(leads, ref)
        /\ NeverEnds(leads, ref) <=> \E q \in uses[target] : NeverEnds(leads, q)
    BY <2>2, <2>3, <2>4 DEF Leading
  <2>6. uses[v.raw] = {ref}
    BY <1>1, <1>4, <2>1 DEF ByReference
  <2>7. ASSUME Rooted(leads, v.visited, uses[v.raw]), NEW u \in branch
        PROVE  uses[target] \subseteq Reached(leads, u)
    <3>1. CASE u = ref
      BY <2>5, <3>1
    <3>2. CASE u \in v.visited
      <4>1. ref \in Reached(leads, u) /\ u \in References
        BY <1>1, <2>6, <2>7, <3>2 DEF Rooted
      <4>2. Reached(leads, ref) \subseteq Reached(leads, u)
        BY <1>1, <4>1, ReachedOn
      <4> QED  BY <2>5, <4>2
    <3> QED  BY <2>3, <2>7, <3>1, <3>2
  <2>8. Rooted(leads, v.visited, uses[v.raw]) => Rooted(leads, branch, uses[target])
    BY <2>7 DEF Rooted
  <2> QED  BY <1>1, <1>4, <2>1, <2>2, <2>3, <2>5, <2>6, <2>8
<1> QED  BY <1>3, <1>4

(* What a dictionary that is no reference uses.                            *)
LEMMA UsedInPlace ==
    ASSUME NormalizerAssumption, NEW P, NEW uses, UsesOf(P, uses), NEW raw \in Dictionaries,
           raw.ref = NoReference
    PROVE  /\ raw.items = <<>> => uses[raw] = P[raw]
           /\ raw.items # <<>> => uses[raw] = P[raw] \cup uses[raw.items[1]]
<1>1. uses[raw] = P[raw] \cup UNION {uses[item] : item \in ToSet(raw.items)}
  <2>1. uses[raw] = Along(P, uses, raw)
    BY DEF UsesOf
  <2> QED  BY <2>1, Zenon DEF Along
<1>2. CASE raw.items = <<>>
  <2>1. ToSet(raw.items) = {}
    BY <1>2, ItemsFit
  <2> QED  BY <1>1, <1>2, <2>1
<1>3. CASE raw.items # <<>>
  <2>1. ToSet(raw.items) = {raw.items[1]}
    BY <1>3, ItemsFit
  <2> QED  BY <1>1, <1>3, <2>1
<1> QED  BY <1>2, <1>3

LEMMA UsesByReference ==
    ASSUME NEW P, NEW uses, UsesOf(P, uses)
    PROVE  ByReference(uses)
  BY DEF UsesOf, ByReference, Along

PropertyStatuses(targets, props, branch) ==
    UNION {StatusOf(targets, props[i], branch) : i \in DOMAIN props}

LEMMA SchemaFields ==
    ASSUME NEW targets, NEW v
    PROVE  /\ NormalizedSchema(targets, v).status =
                 IF v.raw.ref = NoReference THEN "none" ELSE Resolve(targets)[v.visited][v.raw.ref].status
           /\ NormalizedSchema(targets, v).reported =
                 IF Dangling(targets, v) THEN StatusOf(targets, v.raw, v.visited)
                 ELSE StatusOf(targets, v.raw, v.visited) \cup
                      PropertyStatuses(targets, Target(targets, v.raw, v.visited).props, Branch(targets, v))
  BY Zenon DEF NormalizedSchema, PropertyStatuses

(* A schema is cut off exactly when what is used along the items never     *)
(* ends.                                                                   *)
CutOff(targets, v) ==
    LET leads == Leads(targets, ItemReference)
        cut == \E level \in ToSet(NormalizeSchema(targets)[v]) : level.status = "circular"
        endless == \E ref \in ItemReference[v.raw] : NeverEnds(leads, ref)
    IN  /\ Rooted(leads, v.visited, ItemReference[v.raw]) /\ cut => endless
        /\ endless => cut

LEMMA CutOffWhenCircular ==
    ASSUME NormalizerAssumption, NEW targets, TargetsFit(targets)
    PROVE  \A v \in Visits : CutOff(targets, v)
<1> DEFINE G == {v \in Visits : CutOff(targets, v)}
<1>1. PICK uses : uses = ItemReference
  OBVIOUS
<1>2. PICK leads : leads = Leads(targets, uses)
  OBVIOUS
<1>3. UsesOf(NoMore, uses) /\ ByReference(uses) /\ Graph(leads)
  <2>1. UsesOf(NoMore, uses) /\ ByReference(uses)
    BY <1>1, UsesUnfold, UsesByReference
  <2>2. Graph(leads)
    BY <1>2, <2>1, LeadsFit DEF ByReference
  <2> QED  BY <2>1, <2>2
<1>4. ASSUME NEW v \in Visits, ~Stops(targets, v) => Inside(targets, v) \in G PROVE CutOff(targets, v)
  <2>1. PICK schema : schema = NormalizedSchema(targets, v)
    OBVIOUS
  <2>2. PICK levels : levels = ToSet(NormalizeSchema(targets)[v])
    OBVIOUS
  <2>3. /\ Stops(targets, v) => levels = {schema}
        /\ ~Stops(targets, v) =>
              levels = {schema} \cup ToSet(NormalizeSchema(targets)[Inside(targets, v)])
    BY <2>1, <2>2, LevelSet
  <2>4. schema.status = IF v.raw.ref = NoReference THEN "none"
                        ELSE Resolve(targets)[v.visited][v.raw.ref].status
    BY <2>1, SchemaFields
  <2>5. PICK cut \in BOOLEAN : cut <=> \E level \in levels : level.status = "circular"
    OBVIOUS
  <2>6. PICK endless \in BOOLEAN : endless <=> \E ref \in uses[v.raw] : NeverEnds(leads, ref)
    OBVIOUS
  <2>7. SUFFICES /\ Rooted(leads, v.visited, uses[v.raw]) /\ cut => endless
                 /\ endless => cut
    BY <1>1, <1>2, <2>2, <2>5, <2>6 DEF CutOff
  <2>8. v.raw \in Dictionaries /\ v.visited \in SUBSET References
    BY DEF Visits
  <2>9. CASE Dangling(targets, v)
    <3>1. PICK ref : ref = v.raw.ref
      OBVIOUS
    <3>2. PICK r : r = Resolve(targets)[v.visited][ref]
      OBVIOUS
    <3>3. ref \in References /\ (r.data = <<>> \/ r.data[1].empty)
      BY <2>8, <2>9, <3>1, <3>2, VisitCases DEF AtVisit
    <3>4. ref # NoReference /\ uses[v.raw] = {ref}
      BY <1>3, <2>8, <3>1, <3>3 DEF NormalizerAssumption, ByReference
    <3>5. schema.status = r.status /\ levels = {schema}
      BY <2>3, <2>4, <2>9, <3>1, <3>2, <3>4 DEF Stops
    <3>6. cut <=> r.status = "circular"
      BY <2>5, <3>5
    <3>7. endless <=> NeverEnds(leads, ref)
      BY <2>6, <3>4
    <3>8. ASSUME Rooted(leads, v.visited, uses[v.raw]), cut PROVE endless
      <4>1. \A u \in v.visited : ref \in Reached(leads, u)
        BY <3>4, <3>8 DEF Rooted
      <4>2. NeverEnds(leads, ref)
        BY <1>2, <1>3, <2>8, <3>2, <3>3, <3>6, <3>8, <4>1, CircularNeverEnds
      <4> QED  BY <3>7, <4>2
    <3>9. ASSUME endless PROVE cut
      <4>1. r.status \notin {"unresolved_internal", "unsupported_external"}
        BY <1>2, <1>3, <2>8, <3>2, <3>3, <3>7, <3>9, EndedEnds
      <4>2. Leading(targets, uses, v.visited, ref)
        BY <1>3, <2>8, <3>3, FoundIsLed
      <4>3. /\ r.status = "resolved_internal" <=> r.data # <<>>
            /\ r.data # <<>> =>
                  /\ r.data[1] \in Dictionaries /\ r.data[1].ref = NoReference
                  /\ NeverEnds(leads, ref) <=> \E q \in uses[r.data[1]] : NeverEnds(leads, q)
        BY <1>2, <3>2, <4>2 DEF Leading
      <4>4. ASSUME r.data # <<>> PROVE uses[r.data[1]] = {}
        <5>1. PICK found : found = r.data[1]
          OBVIOUS
        <5>2. found \in Dictionaries /\ found.ref = NoReference /\ found.empty
          BY <3>3, <4>3, <4>4, <5>1
        <5>3. found.items = <<>>
          BY <5>2 DEF NormalizerAssumption
        <5>4. uses[found] = NoMore[found]
          BY <1>3, <5>2, <5>3, UsedInPlace
        <5> QED  BY <5>1, <5>2, <5>4 DEF NoMore
      <4>5. r.data = <<>>
        BY <3>7, <3>9, <4>3, <4>4
      <4>6. r.status \in Statuses
        BY <2>8, <3>2, <3>3, ResolveUnfolds DEF Resolutions
      <4> QED  BY <3>6, <4>1, <4>3, <4>5, <4>6 DEF Statuses
    <3> QED  BY <3>8, <3>9
  <2>10. CASE ~Dangling(targets, v)
    <3>1. PICK target : target = Target(targets, v.raw, v.visited)
      OBVIOUS
    <3>2. PICK branch : branch = Branch(targets, v)
      OBVIOUS
    <3>3. /\ target \in Dictionaries /\ target.ref = NoReference /\ branch \in SUBSET References
          /\ endless <=> \E q \in uses[target] : NeverEnds(leads, q)
          /\ Rooted(leads, v.visited, uses[v.raw]) => Rooted(leads, branch, uses[target])
          /\ schema.status # "circular"
      BY <1>2, <1>3, <2>4, <2>6, <2>10, <3>1, <3>2, PastTheReference
    <3>4. CASE target.items = <<>>
      <4>1. uses[target] = {}
        BY <1>3, <3>3, <3>4, UsedInPlace DEF NoMore
      <4>2. levels = {schema}
        BY <2>3, <3>1, <3>4 DEF Stops
      <4> QED  BY <2>5, <3>3, <4>1, <4>2
    <3>5. CASE target.items # <<>>
      <4>1. PICK item : item = target.items[1]
        OBVIOUS
      <4>2. uses[target] = uses[item]
        <5>1. uses[target] = NoMore[target] \cup uses[item]
          BY <1>3, <3>3, <3>5, <4>1, UsedInPlace
        <5>2. NoMore[target] = {}
          BY <3>3 DEF NoMore
        <5> QED  BY <5>1, <5>2
      <4>3. ~Stops(targets, v)
        BY <2>10, <3>1, <3>5 DEF Stops
      <4>4. PICK u : u = Inside(targets, v)
        OBVIOUS
      <4>5. u.raw = item /\ u.visited = branch
        BY <3>1, <3>2, <4>1, <4>4 DEF Inside, Visit
      <4>6. PICK inner : inner = ToSet(NormalizeSchema(targets)[u])
        OBVIOUS
      <4>7. levels = {schema} \cup inner
        BY <2>3, <4>3, <4>4, <4>6
      <4>8. cut <=> \E level \in inner : level.status = "circular"
        BY <2>5, <3>3, <4>7
      <4>9. CutOff(targets, u)
        BY <1>4, <4>3, <4>4
      <4>10. /\ Rooted(leads, branch, uses[item]) /\ cut => \E q \in uses[item] : NeverEnds(leads, q)
             /\ (\E q \in uses[item] : NeverEnds(leads, q)) => cut
        BY <1>1, <1>2, <4>5, <4>6, <4>8, <4>9 DEF CutOff
      <4> QED  BY <3>3, <4>2, <4>10
    <3> QED  BY <3>4, <3>5
  <2> QED  BY <2>9, <2>10
<1>5. \A v \in Visits : (~Stops(targets, v) => Inside(targets, v) \in G) => v \in G
  <2>1. ASSUME NEW v \in Visits, CutOff(targets, v) PROVE v \in G
    BY <2>1
  <2> HIDE DEF G
  <2> QED  BY <1>4, <2>1
<1> HIDE DEF G
<1>6. \A v \in Visits : v \in G
  BY <1>5, VisitInduction
<1> QED  BY <1>6 DEF G

(* What is recorded of a reference is what the document has.               *)
Given(targets, r) ==
    /\ r[2] = "circular" => NeverEnds(Leads(targets, UsedReferences), r[1])
    /\ r[2] = "unresolved_internal" <=> Missing(targets, r[1])
AllReal(targets, statuses) == \A r \in statuses : Given(targets, r)

(* No reference visited is missing.                                        *)
Whole(targets, seen) == \A u \in seen : ~Missing(targets, u)

LEMMA StatusIsReal ==
    ASSUME NormalizerAssumption, NEW targets, TargetsFit(targets),
           NEW raw \in Dictionaries, NEW seen \in SUBSET References, Whole(targets, seen),
           Rooted(Leads(targets, UsedReferences), seen, {raw.ref} \ {NoReference})
    PROVE  AllReal(targets, StatusOf(targets, raw, seen))
<1>1. CASE raw.ref = NoReference
  BY <1>1 DEF StatusOf, AllReal
<1>2. CASE raw.ref # NoReference
  <2>1. PICK ref : ref = raw.ref
    OBVIOUS
  <2>2. ref \in References
    BY <1>2, <2>1, ItemsFit
  <2>3. PICK leads : leads = Leads(targets, UsedReferences)
    OBVIOUS
  <2>4. PICK r : r = <<ref, Resolve(targets)[seen][ref].status>>
    OBVIOUS
  <2>5. StatusOf(targets, raw, seen) = {r}
    BY <1>2, <2>1, <2>4 DEF StatusOf
  <2>6. ByReference(UsedReferences)
    BY UsesUnfold, UsesByReference
  <2>7. \A v \in seen : ref \in Reached(leads, v)
    BY <1>2, <2>1, <2>3 DEF Rooted
  <2>8. Resolve(targets)[seen][ref].status = "circular" => NeverEnds(leads, ref)
    BY <2>2, <2>3, <2>6, <2>7, CircularNeverEnds
  <2>9. Resolve(targets)[seen][ref].status = "unresolved_internal" <=> Missing(targets, ref)
    BY <2>2, UnresolvedIsMissing DEF Whole
  <2>10. Given(targets, r)
    BY <2>3, <2>4, <2>8, <2>9 DEF Given
  <2> QED  BY <2>5, <2>10 DEF AllReal
<1> QED  BY <1>1, <1>2

(* What the levels of a schema report.                                     *)
ReportsReal(targets, v) ==
    /\ Rooted(Leads(targets, UsedReferences), v.visited, UsedReferences[v.raw])
    /\ Whole(targets, v.visited)
    => \A level \in ToSet(NormalizeSchema(targets)[v]) : AllReal(targets, level.reported)

LEMMA ReportedIsReal ==
    ASSUME NormalizerAssumption, NEW targets, TargetsFit(targets)
    PROVE  \A v \in Visits : ReportsReal(targets, v)
<1> DEFINE G == {v \in Visits : ReportsReal(targets, v)}
<1>1. PICK uses : uses = UsedReferences
  OBVIOUS
<1>2. PICK leads : leads = Leads(targets, uses)
  OBVIOUS
<1>3. UsesOf(PropertyReferences, uses) /\ ByReference(uses)
  BY <1>1, UsesUnfold, UsesByReference
<1>4. ASSUME NEW v \in Visits, ~Stops(targets, v) => Inside(targets, v) \in G,
             Rooted(leads, v.visited, uses[v.raw]), Whole(targets, v.visited)
      PROVE  \A level \in ToSet(NormalizeSchema(targets)[v]) : AllReal(targets, level.reported)
  <2>1. PICK schema : schema = NormalizedSchema(targets, v)
    OBVIOUS
  <2>2. v.raw \in Dictionaries /\ v.visited \in SUBSET References
    BY DEF Visits
  <2>3. AllReal(targets, StatusOf(targets, v.raw, v.visited))
    <3>1. {v.raw.ref} \ {NoReference} \subseteq uses[v.raw]
      BY <1>3, <2>2 DEF ByReference
    <3>2. Rooted(leads, v.visited, {v.raw.ref} \ {NoReference})
      BY <1>4, <3>1 DEF Rooted
    <3> QED  BY <1>1, <1>2, <1>4, <2>2, <3>2, StatusIsReal
  <2>4. CASE Dangling(targets, v)
    <3>1. schema.reported = StatusOf(targets, v.raw, v.visited)
      BY <2>1, <2>4, SchemaFields
    <3>2. ToSet(NormalizeSchema(targets)[v]) = {schema}
      BY <2>1, <2>4, LevelSet DEF Stops
    <3> QED  BY <2>3, <3>1, <3>2
  <2>5. CASE ~Dangling(targets, v)
    <3>1. PICK target : target = Target(targets, v.raw, v.visited)
      OBVIOUS
    <3>2. PICK branch : branch = Branch(targets, v)
      OBVIOUS
    <3>3. /\ target \in Dictionaries /\ target.ref = NoReference /\ branch \in SUBSET References
          /\ Rooted(leads, branch, uses[target])
          /\ v.raw.ref # NoReference =>
                /\ Resolve(targets)[v.visited][v.raw.ref].status = "resolved_internal"
                /\ branch = v.visited \cup {v.raw.ref}
          /\ v.raw.ref = NoReference => branch = v.visited
      BY <1>2, <1>3, <1>4, <2>5, <3>1, <3>2, PastTheReference
    <3>4. Whole(targets, branch)
      <4>1. CASE v.raw.ref = NoReference
        BY <1>4, <3>3, <4>1
      <4>2. CASE v.raw.ref # NoReference
        <5>1. PICK ref : ref = v.raw.ref
          OBVIOUS
        <5>2. ref \in References
          BY <2>2, <4>2, <5>1, ItemsFit
        <5>3. ~Missing(targets, ref)
          BY <1>4, <2>2, <3>3, <4>2, <5>1, <5>2, UnresolvedIsMissing DEF Whole
        <5> QED  BY <1>4, <3>3, <4>2, <5>1, <5>3 DEF Whole
      <4> QED  BY <4>1, <4>2
    <3>5. /\ target.items = <<>> => uses[target] = PropertyReferences[target]
          /\ target.items # <<>> => uses[target] = PropertyReferences[target] \cup uses[target.items[1]]
      <4>1. PICK P : P = PropertyReferences
        OBVIOUS
      <4>2. UsesOf(P, uses)
        BY <1>3, <4>1
      <4>3. target \in Dictionaries /\ target.ref = NoReference
        BY <3>3
      <4>4. /\ target.items = <<>> => uses[target] = P[target]
            /\ target.items # <<>> => uses[target] = P[target] \cup uses[target.items[1]]
        BY <4>2, <4>3, UsedInPlace
      <4> QED  BY <4>1, <4>4, Zenon
    <3>6. ASSUME NEW prop \in ToSet(target.props)
          PROVE  AllReal(targets, StatusOf(targets, prop, branch))
      <4>1. prop \in Dictionaries
        BY <3>3, ItemsFit
      <4>2. OwnReference[prop] = {prop.ref} \ {NoReference}
        BY <4>1 DEF OwnReference
      <4>3. PropertyReferences[target] = UNION {OwnReference[p] : p \in ToSet(target.props)}
        BY <3>3 DEF PropertyReferences
      <4>4. {prop.ref} \ {NoReference} \subseteq PropertyReferences[target]
        BY <4>2, <4>3
      <4>5. {prop.ref} \ {NoReference} \subseteq uses[target]
        BY <3>5, <4>4
      <4>6. Rooted(leads, branch, {prop.ref} \ {NoReference})
        BY <3>3, <4>5 DEF Rooted
      <4> QED  BY <1>1, <1>2, <3>3, <3>4, <4>1, <4>6, StatusIsReal
    <3>7. AllReal(targets, schema.reported)
      <4>1. schema.reported = StatusOf(targets, v.raw, v.visited) \cup
                                 PropertyStatuses(targets, target.props, branch)
        BY <2>1, <2>5, <3>1, <3>2, SchemaFields
      <4>2. \A i \in DOMAIN target.props : target.props[i] \in ToSet(target.props)
        BY DEF ToSet
      <4>3. \A i \in DOMAIN target.props : AllReal(targets, StatusOf(targets, target.props[i], branch))
        BY <3>6, <4>2
      <4> QED  BY <2>3, <4>1, <4>3 DEF AllReal, PropertyStatuses
    <3>8. CASE target.items = <<>>
      <4>1. ToSet(NormalizeSchema(targets)[v]) = {schema}
        BY <2>1, <3>1, <3>8, LevelSet DEF Stops
      <4> QED  BY <3>7, <4>1
    <3>9. CASE target.items # <<>>
      <4>1. ~Stops(targets, v)
        BY <2>5, <3>1, <3>9 DEF Stops
      <4>2. PICK u : u = Inside(targets, v)
        OBVIOUS
      <4>3. u.raw = target.items[1] /\ u.visited = branch
        BY <3>1, <3>2, <4>2 DEF Inside, Visit
      <4>4. Rooted(leads, branch, uses[target.items[1]])
        BY <3>3, <3>5, <3>9 DEF Rooted
      <4>5. ReportsReal(targets, u)
        BY <1>4, <4>1, <4>2
      <4>6. \A level \in ToSet(NormalizeSchema(targets)[u]) : AllReal(targets, level.reported)
        BY <1>1, <1>2, <3>4, <4>3, <4>4, <4>5 DEF ReportsReal
      <4>7. ToSet(NormalizeSchema(targets)[v]) = {schema} \cup ToSet(NormalizeSchema(targets)[u])
        BY <2>1, <4>1, <4>2, LevelSet
      <4> QED  BY <3>7, <4>6, <4>7
    <3> QED  BY <3>8, <3>9
  <2> QED  BY <2>4, <2>5
<1>5. \A v \in Visits : (~Stops(targets, v) => Inside(targets, v) \in G) => v \in G
  <2>1. ASSUME NEW v \in Visits, ReportsReal(targets, v) PROVE v \in G
    BY <2>1
  <2> HIDE DEF G
  <2>2. ASSUME NEW v \in Visits, ~Stops(targets, v) => Inside(targets, v) \in G
        PROVE  ReportsReal(targets, v)
    BY <1>1, <1>2, <1>4, <2>2 DEF ReportsReal
  <2> QED  BY <2>1, <2>2
<1> HIDE DEF G
<1>6. \A v \in Visits : v \in G
  BY <1>5, VisitInduction
<1> QED  BY <1>6 DEF G

LEMMA DerefFits ==
    ASSUME NormalizerAssumption, NEW targets, TargetsFit(targets), NEW raw \in Dictionaries
    PROVE  Deref(targets, raw) \in Dictionaries
<1>1. PICK v : v = Visit(raw, {})
  OBVIOUS
<1>2. v \in Visits /\ v.raw = raw /\ v.visited = {}
  BY <1>1 DEF Visits, Visit
<1>3. CASE Dangling(targets, v)
  BY <1>2, <1>3 DEF Dangling, Deref, Target
<1>4. CASE ~Dangling(targets, v)
  <2>1. PICK target : target = Target(targets, v.raw, v.visited)
    OBVIOUS
  <2>2. target \in Dictionaries
    BY <1>2, <1>4, <2>1, VisitCases DEF AtVisit
  <2> QED  BY <1>2, <2>1, <2>2 DEF Deref
<1> QED  BY <1>3, <1>4

LEMMA ListedIsReal ==
    ASSUME NormalizerAssumption, NEW targets, TargetsFit(targets), NEW raws \in Seq(Dictionaries)
    PROVE  AllReal(targets, StatusesOf(targets, raws))
<1>1. ASSUME NEW i \in DOMAIN raws PROVE AllReal(targets, StatusOf(targets, raws[i], {}))
  <2>1. raws[i] \in Dictionaries /\ {} \in SUBSET References /\ Whole(targets, {})
    BY DEF Whole
  <2>2. Rooted(Leads(targets, UsedReferences), {}, {raws[i].ref} \ {NoReference})
    BY DEF Rooted
  <2> QED  BY <2>1, <2>2, StatusIsReal
<1> QED  BY <1>1 DEF StatusesOf, AllReal

OperationFits(op) ==
    \A list \in {op.pathParameters, op.parameters, op.body, op.responses} : list \in Seq(Dictionaries)

Declaration(targets, level, raw) == [level |-> level, raw |-> Deref(targets, raw)]

LEMMA ListsAreSequences ==
    ASSUME NEW S, NEW n \in Nat, NEW s, s = [i \in 1 .. n |-> s[i]], \A i \in 1 .. n : s[i] \in S
    PROVE  s \in Seq(S) /\ Len(s) = n
<1>1. s \in [1 .. n -> S]
  BY Zenon
<1> QED  BY <1>1

(* Of the declared parameters, those of the path come first.               *)
DeclaredAs(targets, a, b, declared, p, q) ==
    /\ p \in Nat /\ q \in Nat /\ DOMAIN declared = 1 .. (p + q)
    /\ DOMAIN a = 1 .. p /\ DOMAIN b = 1 .. q
    /\ \A i \in 1 .. p : /\ declared[i].level = "path" /\ a[i] \in Dictionaries
                         /\ declared[i].raw = Deref(targets, a[i])
    /\ \A i \in 1 .. q : /\ declared[p + i].level = "operation" /\ b[i] \in Dictionaries
                         /\ declared[p + i].raw = Deref(targets, b[i])

LEMMA DeclaredFits ==
    ASSUME NormalizerAssumption, NEW targets, TargetsFit(targets), NEW op, OperationFits(op),
           NEW declared, declared = Declared(targets, op)
    PROVE  \E p, q : DeclaredAs(targets, op.pathParameters, op.parameters, declared, p, q)
<1>1. PICK a : a = op.pathParameters
  OBVIOUS
<1>2. PICK b : b = op.parameters
  OBVIOUS
<1>3. a \in Seq(Dictionaries) /\ b \in Seq(Dictionaries)
  BY <1>1, <1>2 DEF OperationFits
<1>p. PICK p \in Nat : p = Len(a)
  BY <1>3
<1>q. PICK q \in Nat : q = Len(b)
  BY <1>3
<1>4. /\ DOMAIN a = 1 .. p /\ \A i \in 1 .. p : a[i] \in Dictionaries
      /\ DOMAIN b = 1 .. q /\ \A i \in 1 .. q : b[i] \in Dictionaries
  BY <1>3, <1>p, <1>q
<1>5. PICK S : S = [level : {"path", "operation"}, raw : Dictionaries]
  OBVIOUS
<1>6. PICK s : s = [i \in 1 .. p |-> Declaration(targets, "path", a[i])]
  OBVIOUS
<1>7. PICK t : t = [i \in 1 .. q |-> Declaration(targets, "operation", b[i])]
  OBVIOUS
<1>8. ASSUME NEW raw \in Dictionaries, NEW level \in {"path", "operation"}
      PROVE  Declaration(targets, level, raw) \in S
  BY <1>5, DerefFits DEF Declaration
<1>9. \A i \in 1 .. p : s[i] = Declaration(targets, "path", a[i])
  BY <1>6, Zenon
<1>10. \A i \in 1 .. q : t[i] = Declaration(targets, "operation", b[i])
  BY <1>7, Zenon
<1>11. s \in Seq(S) /\ Len(s) = p
  <2>1. s = [i \in 1 .. p |-> s[i]]
    BY <1>6, Zenon
  <2>2. \A i \in 1 .. p : s[i] \in S
    BY <1>4, <1>8, <1>9
  <2> QED  BY <2>1, <2>2, ListsAreSequences
<1>12. t \in Seq(S) /\ Len(t) = q
  <2>1. t = [i \in 1 .. q |-> t[i]]
    BY <1>7, Zenon
  <2>2. \A i \in 1 .. q : t[i] \in S
    BY <1>4, <1>8, <1>10
  <2> QED  BY <2>1, <2>2, ListsAreSequences
<1>13. declared = s \o t
  <2>1. declared = [i \in DOMAIN a |-> Declaration(targets, "path", a[i])]
                     \o [i \in DOMAIN b |-> Declaration(targets, "operation", b[i])]
    BY <1>1, <1>2, Zenon DEF Declared, Declaration
  <2> QED  BY <1>4, <1>6, <1>7, <2>1, Zenon
<1>14. /\ DOMAIN declared = 1 .. (p + q)
       /\ \A i \in 1 .. p : declared[i] = s[i]
       /\ \A i \in 1 .. q : declared[p + i] = t[i]
  <2>1. s \in Seq(S) /\ t \in Seq(S) /\ Len(s) = p /\ Len(t) = q
    BY <1>11, <1>12
  <2>2. p \in Nat /\ q \in Nat
    BY <1>p, <1>q
  <2>3. PICK d : d = s \o t
    OBVIOUS
  <2>4. DOMAIN d = 1 .. (p + q)
    <3>1. d \in Seq(S)
      BY <2>1, <2>3
    <3>2. Len(d) = p + q
      <4>1. Len(d) = Len(s) + Len(t)
        <5>1. s \in Seq(S) /\ t \in Seq(S)
          BY <2>1
        <5> QED  BY <2>3, <5>1
      <4> QED  BY <2>1, <4>1
    <3>3. DOMAIN d = 1 .. Len(d)
      BY <3>1
    <3> QED  BY <3>2, <3>3
  <2>5. \A i \in 1 .. p : d[i] = s[i]
    BY <2>1, <2>2, <2>3
  <2>6. \A i \in 1 .. q : d[p + i] = t[i]
    BY <2>1, <2>2, <2>3
  <2> QED  BY <1>13, <2>3, <2>4, <2>5, <2>6, Zenon
<1>15. \A level, raw : Declaration(targets, level, raw).level = level
                         /\ Declaration(targets, level, raw).raw = Deref(targets, raw)
  BY DEF Declaration
<1>16. DeclaredAs(targets, a, b, declared, p, q)
  <2>1. ASSUME NEW i \in 1 .. p
        PROVE  declared[i].level = "path" /\ declared[i].raw = Deref(targets, a[i])
    <3>1. declared[i] = Declaration(targets, "path", a[i])
      BY <1>9, <1>14
    <3> QED  BY <1>15, <3>1
  <2>2. ASSUME NEW i \in 1 .. q
        PROVE  declared[p + i].level = "operation" /\ declared[p + i].raw = Deref(targets, b[i])
    <3>1. declared[p + i] = Declaration(targets, "operation", b[i])
      BY <1>10, <1>14
    <3> QED  BY <1>15, <3>1
  <2> QED  BY <1>4, <1>14, <2>1, <2>2, Zenon DEF DeclaredAs
<1> QED  BY <1>1, <1>2, <1>16

(* The parameter kept for a name and place is the last one declared.       *)
KeptLast(declared, merged) ==
    /\ DOMAIN merged = {declared[i].raw.key : i \in DOMAIN declared} \ {NoKey}
    /\ \A key \in DOMAIN merged :
          \E i \in DOMAIN declared :
             /\ declared[i].raw.key = key /\ merged[key] = declared[i]
             /\ \A j \in DOMAIN declared : j > i => declared[j].raw.key # key

LEMMA LastDeclared ==
    ASSUME NormalizerAssumption, NEW targets, TargetsFit(targets), NEW op, OperationFits(op),
           NEW declared, declared = Declared(targets, op),
           NEW merged, merged = MergedParameters(targets, op)
    PROVE  KeptLast(declared, merged)
<1>1. PICK p, q \in Nat : DOMAIN declared = 1 .. (p + q)
  <2>1. PICK p, q : DeclaredAs(targets, op.pathParameters, op.parameters, declared, p, q)
    BY DeclaredFits
  <2> QED  BY <2>1 DEF DeclaredAs
<1>2. PICK n \in Nat : n = p + q
  OBVIOUS
<1>3. DOMAIN declared = 1 .. n
  BY <1>1, <1>2
<1>4. DOMAIN merged = {declared[i].raw.key : i \in DOMAIN declared} \ {NoKey}
  BY DEF MergedParameters
<1>5. ASSUME NEW key \in DOMAIN merged
      PROVE  \E i \in DOMAIN declared :
                    /\ declared[i].raw.key = key /\ merged[key] = declared[i]
                    /\ \A j \in DOMAIN declared : j > i => declared[j].raw.key # key
  <2> DEFINE Last1(i) == /\ declared[i].raw.key = key
                         /\ \A j \in DOMAIN declared : j > i => declared[j].raw.key # key
             kept == CHOOSE i \in DOMAIN declared : Last1(i)
  <2>1. PICK T : T = {i \in 1 .. n : declared[i].raw.key = key}
    OBVIOUS
  <2>2. T \in SUBSET (1 .. n) /\ T # {}
    BY <1>3, <1>4, <2>1
  <2>3. PICK m \in T : \A k \in T : k <= m
    BY <2>2, GreatestIndex
  <2>4. m \in DOMAIN declared /\ Last1(m)
    <3>1. \A j \in 1 .. n : j > m => ~(j <= m)
      BY <2>2
    <3> QED  BY <1>3, <2>1, <2>3, <3>1
  <2>5. merged[key] = declared[kept]
    <3>1. key \in {declared[i].raw.key : i \in DOMAIN declared} \ {NoKey}
      BY <1>4
    <3> QED  BY <3>1 DEF MergedParameters
  <2> HIDE DEF Last1
  <2>6. kept \in DOMAIN declared /\ Last1(kept)
    BY <2>4
  <2> HIDE DEF kept
  <2>7. /\ declared[kept].raw.key = key
        /\ \A j \in DOMAIN declared : j > kept => declared[j].raw.key # key
    BY <2>6 DEF Last1
  <2> QED  BY <2>5, <2>6, <2>7
<1> QED  BY <1>4, <1>5 DEF KeptLast

Identities(targets, list) == {Deref(targets, list[i]).key : i \in DOMAIN list} \ {NoKey}

OwnWins(targets, own, inherited, merged) ==
    /\ DOMAIN merged = Identities(targets, own) \cup Identities(targets, inherited)
    /\ \A key \in Identities(targets, own) : merged[key].level = "operation"

LEMMA OwnParameterWins ==
    ASSUME NormalizerAssumption, NEW targets, TargetsFit(targets), NEW op, OperationFits(op),
           NEW merged, merged = MergedParameters(targets, op)
    PROVE  /\ OwnWins(targets, op.parameters, op.pathParameters, merged)
           /\ \A key \in DOMAIN merged : merged[key].raw \in Dictionaries
<1>1. PICK declared : declared = Declared(targets, op)
  OBVIOUS
<1>2. PICK a : a = op.pathParameters
  OBVIOUS
<1>3. PICK b : b = op.parameters
  OBVIOUS
<1>4. PICK p, q : DeclaredAs(targets, a, b, declared, p, q)
  BY <1>1, <1>2, <1>3, DeclaredFits
<1>5. /\ p \in Nat /\ q \in Nat /\ DOMAIN declared = 1 .. (p + q)
      /\ DOMAIN a = 1 .. p /\ DOMAIN b = 1 .. q
      /\ \A i \in 1 .. p : /\ declared[i].level = "path" /\ a[i] \in Dictionaries
                           /\ declared[i].raw = Deref(targets, a[i])
      /\ \A i \in 1 .. q : /\ declared[p + i].level = "operation" /\ b[i] \in Dictionaries
                           /\ declared[p + i].raw = Deref(targets, b[i])
  BY <1>4, Zenon DEF DeclaredAs
<1>6. /\ DOMAIN merged = {declared[i].raw.key : i \in DOMAIN declared} \ {NoKey}
      /\ \A key \in DOMAIN merged :
            \E i \in DOMAIN declared :
               /\ declared[i].raw.key = key /\ merged[key] = declared[i]
               /\ \A j \in DOMAIN declared : j > i => declared[j].raw.key # key
  <2>1. KeptLast(declared, merged)
    BY <1>1, LastDeclared
  <2> QED  BY <2>1, Zenon DEF KeptLast
<1>7. ASSUME NEW i \in 1 .. (p + q)
      PROVE  i \in 1 .. p \/ \E k \in 1 .. q : i = p + k
  <2>1. i \notin 1 .. p => i - p \in 1 .. q /\ i = p + (i - p)
    BY <1>5
  <2> QED  BY <2>1
<1>8. \A i \in 1 .. p : i \in 1 .. (p + q)
  BY <1>5
<1>9. \A i \in 1 .. q : p + i \in 1 .. (p + q)
  BY <1>5
<1>10. \A i \in DOMAIN declared :
          \/ \E k \in 1 .. p : declared[i].raw = Deref(targets, a[k])
          \/ \E k \in 1 .. q : declared[i].raw = Deref(targets, b[k])
  <2>1. ASSUME NEW i \in DOMAIN declared
        PROVE  \/ \E k \in 1 .. p : declared[i].raw = Deref(targets, a[k])
               \/ \E k \in 1 .. q : declared[i].raw = Deref(targets, b[k])
    <3>1. i \in 1 .. p \/ \E k \in 1 .. q : i = p + k
      BY <1>5, <1>7, <2>1, Zenon
    <3>2. ASSUME NEW k \in 1 .. q, i = p + k PROVE declared[i].raw = Deref(targets, b[k])
      BY <1>5, <3>2, Zenon
    <3> QED  BY <1>5, <3>1, <3>2, Zenon
  <2> QED  BY <2>1
<1>11. DOMAIN merged = Identities(targets, b) \cup Identities(targets, a)
  <2>1. ASSUME NEW key \in DOMAIN merged
        PROVE  key \in Identities(targets, b) \cup Identities(targets, a)
    <3>1. PICK i \in DOMAIN declared : key = declared[i].raw.key /\ key # NoKey
      BY <1>6, Zenon
    <3>2. CASE \E k \in 1 .. p : declared[i].raw = Deref(targets, a[k])
      <4>1. PICK k \in DOMAIN a : declared[i].raw = Deref(targets, a[k])
        BY <1>5, <3>2
      <4> QED  BY <3>1, <4>1 DEF Identities
    <3>3. CASE \E k \in 1 .. q : declared[i].raw = Deref(targets, b[k])
      <4>1. PICK k \in DOMAIN b : declared[i].raw = Deref(targets, b[k])
        BY <1>5, <3>3
      <4> QED  BY <3>1, <4>1 DEF Identities
    <3> QED  BY <1>10, <3>2, <3>3
  <2>2. ASSUME NEW key \in Identities(targets, a) PROVE key \in DOMAIN merged
    <3>1. PICK i \in DOMAIN a : key = Deref(targets, a[i]).key /\ key # NoKey
      BY <2>2 DEF Identities
    <3>2. i \in DOMAIN declared /\ key = declared[i].raw.key
      BY <1>5, <1>8, <3>1
    <3> QED  BY <1>6, <3>1, <3>2
  <2>3. ASSUME NEW key \in Identities(targets, b) PROVE key \in DOMAIN merged
    <3>1. PICK i \in 1 .. q : key = declared[p + i].raw.key /\ key # NoKey
      <4>1. PICK i \in DOMAIN b : key = Deref(targets, b[i]).key /\ key # NoKey
        BY <2>3 DEF Identities
      <4> QED  BY <1>5, <4>1
    <3>2. p + i \in DOMAIN declared
      BY <1>5, <1>9
    <3> QED  BY <1>6, <3>1, <3>2
  <2> QED  BY <2>1, <2>2, <2>3
<1>12. ASSUME NEW key \in Identities(targets, b) PROVE merged[key].level = "operation"
  <2>1. PICK k \in 1 .. q : key = declared[p + k].raw.key
    <3>1. PICK i \in DOMAIN b : key = Deref(targets, b[i]).key
      BY <1>12 DEF Identities
    <3> QED  BY <1>5, <3>1
  <2>2. key \in DOMAIN merged
    BY <1>11
  <2>3. PICK i \in DOMAIN declared :
           /\ declared[i].raw.key = key /\ merged[key] = declared[i]
           /\ \A j \in DOMAIN declared : j > i => declared[j].raw.key # key
    BY <1>6, <2>2
  <2>4. ~(p + k > i)
    BY <1>5, <1>9, <2>1, <2>3
  <2>5. i \notin 1 .. p
    <3>1. i \in 1 .. (p + q)
      BY <1>5
    <3> QED  BY <1>5, <2>4, <3>1
  <2>6. PICK m \in 1 .. q : i = p + m
    BY <1>5, <1>7, <2>5
  <2> QED  BY <1>5, <2>3, <2>6
<1>13. ASSUME NEW key \in DOMAIN merged PROVE merged[key].raw \in Dictionaries
  <2>2. \A i \in DOMAIN declared : declared[i].raw \in Dictionaries
    <3>1. ASSUME NEW i \in DOMAIN declared PROVE declared[i].raw \in Dictionaries
      <4>1. PICK raw \in Dictionaries : declared[i].raw = Deref(targets, raw)
        <5>1. CASE \E k \in 1 .. p : declared[i].raw = Deref(targets, a[k])
          BY <1>5, <5>1, Zenon
        <5>2. CASE \E k \in 1 .. q : declared[i].raw = Deref(targets, b[k])
          BY <1>5, <5>2, Zenon
        <5> QED  BY <1>10, <3>1, <5>1, <5>2, Zenon
      <4> QED  BY <4>1, DerefFits
    <3> QED  BY <3>1
  <2> QED  BY <1>6, <2>2
<1> QED  BY <1>2, <1>3, <1>11, <1>12, <1>13 DEF OwnWins

LEMMA ParametersAreReal ==
    ASSUME NormalizerAssumption, NEW targets, TargetsFit(targets), NEW op, OperationFits(op)
    PROVE  AllReal(targets, ParameterStatuses(targets, op))
<1>1. PICK merged : merged = MergedParameters(targets, op)
  OBVIOUS
<1>2. /\ AllReal(targets, StatusesOf(targets, op.pathParameters))
      /\ AllReal(targets, StatusesOf(targets, op.parameters))
  <2>1. op.pathParameters \in Seq(Dictionaries) /\ op.parameters \in Seq(Dictionaries)
    BY DEF OperationFits
  <2> QED  BY <2>1, ListedIsReal
<1>3. ASSUME NEW key \in DOMAIN merged
      PROVE  AllReal(targets, StatusesOf(targets, merged[key].raw.schema))
  <2>1. merged[key].raw \in Dictionaries
    BY <1>1, <1>3, OwnParameterWins
  <2>2. merged[key].raw.schema \in Seq(Dictionaries)
    BY <2>1 DEF NormalizerAssumption
  <2> QED  BY <2>2, ListedIsReal
<1>4. ASSUME NEW r \in ParameterStatuses(targets, op)
      PROVE  \/ r \in StatusesOf(targets, op.pathParameters) \cup StatusesOf(targets, op.parameters)
             \/ \E key \in DOMAIN merged : r \in StatusesOf(targets, merged[key].raw.schema)
  BY <1>1, <1>4 DEF ParameterStatuses
<1> QED  BY <1>2, <1>3, <1>4 DEF AllReal

(* The schemas of the contents, each as a visit from the outside.          *)
SchemasOf(targets, raw) ==
    [k \in DOMAIN raw.schema |-> NormalizeSchema(targets)[Visit(raw.schema[k], {})]]

FromContents(targets, contents, schemas) ==
    /\ contents \in Seq(Dictionaries) /\ DOMAIN schemas = DOMAIN contents
    /\ \A i \in DOMAIN contents :
          /\ DOMAIN schemas[i] = DOMAIN Deref(targets, contents[i]).schema
          /\ \A k \in DOMAIN schemas[i] :
                \E raw \in Dictionaries :
                   /\ raw = Deref(targets, contents[i]).schema[k]
                   /\ schemas[i][k] = NormalizeSchema(targets)[Visit(raw, {})]

LEMMA ContentsFit ==
    ASSUME NormalizerAssumption, NEW targets, TargetsFit(targets), NEW op, OperationFits(op),
           NEW contents, contents = Contents(op),
           NEW schemas, schemas = ContentSchemas(targets, op)
    PROVE  FromContents(targets, contents, schemas)
<1>1. op.body \in Seq(Dictionaries) /\ op.responses \in Seq(Dictionaries)
  BY DEF OperationFits
<1>2. contents \in Seq(Dictionaries)
  BY <1>1 DEF Contents
<1>3. schemas = [i \in DOMAIN contents |-> SchemasOf(targets, Deref(targets, contents[i]))]
  BY Zenon DEF ContentSchemas, SchemasOf
<1>4. ASSUME NEW i \in DOMAIN contents
      PROVE  /\ DOMAIN schemas[i] = DOMAIN Deref(targets, contents[i]).schema
             /\ \A k \in DOMAIN schemas[i] :
                   \E raw \in Dictionaries :
                      /\ raw = Deref(targets, contents[i]).schema[k]
                      /\ schemas[i][k] = NormalizeSchema(targets)[Visit(raw, {})]
  <2>1. PICK schema : schema = Deref(targets, contents[i]).schema
    OBVIOUS
  <2>2. schemas[i] = [k \in DOMAIN schema |-> NormalizeSchema(targets)[Visit(schema[k], {})]]
    <3>1. schemas[i] = SchemasOf(targets, Deref(targets, contents[i]))
      BY <1>3, <1>4, Zenon
    <3> QED  BY <2>1, <3>1, Zenon DEF SchemasOf
  <2>3. contents[i] \in Dictionaries
    BY <1>2, <1>4
  <2>4. Deref(targets, contents[i]) \in Dictionaries
    BY <2>3, DerefFits
  <2>5. schema \in Seq(Dictionaries)
    BY <2>1, <2>4 DEF NormalizerAssumption
  <2>6. \A k \in DOMAIN schema : schema[k] \in Dictionaries
    BY <2>5
  <2>7. DOMAIN schemas[i] = DOMAIN schema
    BY <2>2, Zenon
  <2>8. ASSUME NEW k \in DOMAIN schema
        PROVE  schemas[i][k] = NormalizeSchema(targets)[Visit(schema[k], {})]
    BY <2>2, <2>8, Zenon
  <2> QED  BY <2>1, <2>6, <2>7, <2>8
<1>5. DOMAIN schemas = DOMAIN contents
  BY <1>3, Zenon
<1> QED  BY <1>2, <1>4, <1>5 DEF FromContents

LEMMA FromOutside ==
    ASSUME NEW raw \in Dictionaries, NEW v, v = Visit(raw, {})
    PROVE  /\ v \in Visits /\ v.raw = raw /\ v.visited = {}
           /\ \A leads, used : Rooted(leads, v.visited, used)
           /\ \A targets : Whole(targets, v.visited)
  BY DEF Visits, Visit, Rooted, Whole

LEMMA ContentsAreReal ==
    ASSUME NormalizerAssumption, NEW targets, TargetsFit(targets), NEW op, OperationFits(op)
    PROVE  AllReal(targets, ContentStatuses(targets, op))
<1>1. PICK contents : contents = Contents(op)
  OBVIOUS
<1>2. PICK schemas : schemas = ContentSchemas(targets, op)
  OBVIOUS
<1>3. FromContents(targets, contents, schemas)
  BY <1>1, <1>2, ContentsFit
<1>4. ASSUME NEW i \in DOMAIN schemas, NEW k \in DOMAIN schemas[i], NEW n \in DOMAIN schemas[i][k]
      PROVE  AllReal(targets, schemas[i][k][n].reported)
  <2>1. PICK raw \in Dictionaries : schemas[i][k] = NormalizeSchema(targets)[Visit(raw, {})]
    BY <1>3, <1>4 DEF FromContents
  <2>2. PICK v : v = Visit(raw, {})
    OBVIOUS
  <2>3. ReportsReal(targets, v)
    BY <2>2, FromOutside, ReportedIsReal
  <2>4. \A level \in ToSet(NormalizeSchema(targets)[v]) : AllReal(targets, level.reported)
    BY <2>2, <2>3, FromOutside DEF ReportsReal
  <2>5. schemas[i][k][n] \in ToSet(NormalizeSchema(targets)[v])
    BY <1>4, <2>1, <2>2 DEF ToSet
  <2> QED  BY <2>4, <2>5
<1>5. AllReal(targets, StatusesOf(targets, contents))
  BY <1>3, ListedIsReal DEF FromContents
<1>6. ASSUME NEW r \in ContentStatuses(targets, op)
      PROVE  \/ r \in StatusesOf(targets, contents)
             \/ \E i \in DOMAIN schemas : \E k \in DOMAIN schemas[i] :
                   \E n \in DOMAIN schemas[i][k] : r \in schemas[i][k][n].reported
  BY <1>1, <1>2, <1>6 DEF ContentStatuses
<1> QED  BY <1>4, <1>5, <1>6 DEF AllReal

(* An operation as it comes out.                                           *)
OverriddenAt(targets, op, out) ==
    OwnWins(targets, op.parameters, op.pathParameters, out.parameters)

CutOffAt(targets, op, out) ==
    \A i \in DOMAIN out.schemas : \A k \in DOMAIN out.schemas[i] :
       (\E n \in DOMAIN out.schemas[i][k] : out.schemas[i][k][n].status = "circular")
         <=> \E ref \in ItemReference[Deref(targets, Contents(op)[i]).schema[k]] :
                NeverEnds(Leads(targets, ItemReference), ref)

LEMMA OperationAsWritten ==
    ASSUME NormalizerAssumption, NEW doc, TargetsFit(doc.targets),
           NEW op, OperationFits(op), NEW out, out = NormalizedOperation(doc, op)
    PROVE  OverriddenAt(doc.targets, op, out) /\ CutOffAt(doc.targets, op, out)
<1>1. PICK targets : targets = doc.targets
  OBVIOUS
<1>2. PICK merged : merged = MergedParameters(targets, op)
  OBVIOUS
<1>3. out.parameters = OperationParameters(targets, op) /\ out.schemas = ContentSchemas(targets, op)
  BY <1>1 DEF NormalizedOperation
<1>4. TargetsFit(targets)
  BY <1>1
<1>5. /\ DOMAIN OperationParameters(targets, op) = DOMAIN merged
      /\ \A key \in DOMAIN merged : OperationParameters(targets, op)[key].level = merged[key].level
  BY <1>2 DEF OperationParameters
<1>6. OverriddenAt(targets, op, out)
  <2>1. OwnWins(targets, op.parameters, op.pathParameters, merged)
    BY <1>2, <1>4, OwnParameterWins
  <2>2. \A key \in Identities(targets, op.parameters) : key \in DOMAIN merged
    BY <2>1 DEF OwnWins
  <2> QED  BY <1>3, <1>5, <2>1, <2>2 DEF OverriddenAt, OwnWins
<1>7. PICK schemas : schemas = ContentSchemas(targets, op)
  OBVIOUS
<1>8. PICK contents : contents = Contents(op)
  OBVIOUS
<1>9. FromContents(targets, contents, schemas)
  BY <1>4, <1>7, <1>8, ContentsFit
<1>10. ASSUME NEW i \in DOMAIN schemas, NEW k \in DOMAIN schemas[i]
       PROVE  (\E n \in DOMAIN schemas[i][k] : schemas[i][k][n].status = "circular")
                <=> \E ref \in ItemReference[Deref(targets, contents[i]).schema[k]] :
                       NeverEnds(Leads(targets, ItemReference), ref)
  <2>1. PICK raw \in Dictionaries : /\ raw = Deref(targets, contents[i]).schema[k]
                                    /\ schemas[i][k] = NormalizeSchema(targets)[Visit(raw, {})]
    BY <1>9, <1>10 DEF FromContents
  <2>2. PICK v : v = Visit(raw, {})
    OBVIOUS
  <2>3. /\ v \in Visits /\ v.raw = raw
        /\ Rooted(Leads(targets, ItemReference), v.visited, ItemReference[v.raw])
    BY <2>1, <2>2, FromOutside
  <2>4. CutOff(targets, v)
    BY <1>4, <2>3, CutOffWhenCircular
  <2>5. (\E level \in ToSet(NormalizeSchema(targets)[v]) : level.status = "circular")
           <=> \E ref \in ItemReference[raw] : NeverEnds(Leads(targets, ItemReference), ref)
    BY <2>3, <2>4 DEF CutOff
  <2>6. (\E level \in ToSet(schemas[i][k]) : level.status = "circular")
           <=> \E n \in DOMAIN schemas[i][k] : schemas[i][k][n].status = "circular"
    BY DEF ToSet
  <2> QED  BY <2>1, <2>2, <2>5, <2>6
<1>11. CutOffAt(targets, op, out)
  BY <1>3, <1>7, <1>8, <1>10 DEF CutOffAt
<1> QED  BY <1>1, <1>6, <1>11

(* The inductive invariant: what is out is what the operations so far come *)
(* out as, and what is recorded is what the document has.                  *)
Operations(doc) ==
    {NormalizedOperation(doc, doc.operations[o]) : o \in 1 .. Len(doc.operations)}

NormalizerInv ==
    /\ spec \in OpenAPIDocuments
    /\ index \in 0 .. Len(spec.operations)
    /\ normalized \in Seq(Operations(spec)) /\ Len(normalized) = index
    /\ \A o \in 1 .. index : normalized[o] = NormalizedOperation(spec, spec.operations[o])
    /\ AllReal(spec.targets, recorded)

LEMMA DocumentFits ==
    ASSUME NormalizerAssumption, NEW doc \in OpenAPIDocuments
    PROVE  /\ TargetsFit(doc.targets) /\ doc.schemes \in Seq(Dictionaries)
           /\ Len(doc.operations) \in Nat
           /\ \A o \in 1 .. Len(doc.operations) : OperationFits(doc.operations[o])
  BY DEF NormalizerAssumption, TargetsFit, OperationFits

LEMMA NormalizerInvHolds ==
    ASSUME NormalizerAssumption
    PROVE  /\ NormalizerInit => NormalizerInv
           /\ NormalizerInv /\ [NormalizerNext]_normalizerVars => NormalizerInv'
<1>1. ASSUME NormalizerInit PROVE NormalizerInv
  <2>1. spec \in OpenAPIDocuments /\ index = 0 /\ normalized = <<>> /\ recorded = {}
    BY <1>1 DEF NormalizerInit
  <2>2. Len(spec.operations) \in Nat
    BY <2>1, DocumentFits
  <2>3. index \in 0 .. Len(spec.operations)
    BY <2>1, <2>2
  <2>4. PICK S : S = Operations(spec)
    OBVIOUS
  <2>5. normalized \in Seq(S) /\ Len(normalized) = index /\ 1 .. index = {}
    BY <2>1
  <2>6. AllReal(spec.targets, recorded)
    BY <2>1 DEF AllReal
  <2> QED  BY <2>1, <2>3, <2>4, <2>5, <2>6 DEF NormalizerInv
<1>2. ASSUME NormalizerInv, UNCHANGED normalizerVars PROVE NormalizerInv'
  BY <1>2 DEF NormalizerInv, normalizerVars
<1>3. ASSUME NormalizerInv, SecuritySchemes PROVE NormalizerInv'
  <2>1. spec' = spec /\ index' = index /\ normalized' = normalized
    BY <1>3 DEF SecuritySchemes
  <2>2. recorded' = StatusesOf(spec.targets, spec.schemes)
    BY <1>3 DEF SecuritySchemes
  <2>3. TargetsFit(spec.targets) /\ spec.schemes \in Seq(Dictionaries)
    BY <1>3, DocumentFits DEF NormalizerInv
  <2>4. AllReal(spec.targets, StatusesOf(spec.targets, spec.schemes))
    BY <2>3, ListedIsReal
  <2>5. AllReal(spec'.targets, recorded')
    BY <2>1, <2>2, <2>4, Zenon
  <2> QED  BY <1>3, <2>1, <2>5 DEF NormalizerInv
<1>4. ASSUME NormalizerInv, NormalizeOperation PROVE NormalizerInv'
  <2>1. PICK doc : doc = spec
    OBVIOUS
  <2>2. PICK op : op = doc.operations[index + 1]
    OBVIOUS
  <2>3. PICK out : out = NormalizedOperation(doc, op)
    OBVIOUS
  <2>4. /\ spec' = spec /\ index' = index + 1 /\ normalized' = Append(normalized, out)
        /\ recorded' = recorded \cup ParameterStatuses(doc.targets, op)
                         \cup ContentStatuses(doc.targets, op)
        /\ index < Len(doc.operations)
    BY <1>4, <2>1, <2>2, <2>3, Zenon DEF NormalizeOperation
  <2>5. PICK S : S = Operations(doc)
    OBVIOUS
  <2>6. /\ doc \in OpenAPIDocuments /\ index \in 0 .. Len(doc.operations)
        /\ normalized \in Seq(S) /\ Len(normalized) = index
        /\ \A o \in 1 .. index : normalized[o] = NormalizedOperation(doc, doc.operations[o])
        /\ AllReal(doc.targets, recorded)
    BY <1>4, <2>1, <2>5, Zenon DEF NormalizerInv
  <2>7. /\ TargetsFit(doc.targets) /\ Len(doc.operations) \in Nat
        /\ \A o \in 1 .. Len(doc.operations) : OperationFits(doc.operations[o])
    BY <2>6, DocumentFits
  <2>8. /\ index + 1 \in 1 .. Len(doc.operations) /\ index + 1 \in 0 .. Len(doc.operations)
        /\ index \in Nat
    BY <2>4, <2>6, <2>7
  <2>9. OperationFits(op)
    BY <2>2, <2>7, <2>8
  <2>10. AllReal(doc.targets, recorded')
    <3>1. /\ AllReal(doc.targets, ParameterStatuses(doc.targets, op))
          /\ AllReal(doc.targets, ContentStatuses(doc.targets, op))
      BY <2>7, <2>9, ParametersAreReal, ContentsAreReal
    <3> QED  BY <2>4, <2>6, <3>1 DEF AllReal
  <2>11. out \in S
    BY <2>2, <2>3, <2>5, <2>8 DEF Operations
  <2>12. /\ normalized' \in Seq(S) /\ Len(normalized') = index + 1
         /\ normalized'[index + 1] = out /\ \A o \in 1 .. index : normalized'[o] = normalized[o]
    BY <2>4, <2>6, <2>11, AppendProperties
  <2>13. ASSUME NEW o \in 1 .. (index + 1)
         PROVE  normalized'[o] = NormalizedOperation(doc, doc.operations[o])
    <3>1. o \in 1 .. index \/ o = index + 1
      BY <2>8, <2>13
    <3> QED  BY <2>2, <2>3, <2>6, <2>12, <3>1
  <2>14. spec' = doc
    BY <2>1, <2>4
  <2> QED  BY <2>4, <2>5, <2>6, <2>8, <2>10, <2>12, <2>13, <2>14, Zenon DEF NormalizerInv
<1>5. ASSUME NormalizerInv, ReturnNormalized PROVE NormalizerInv'
  BY <1>5 DEF NormalizerInv, ReturnNormalized
<1> QED  BY <1>1, <1>2, <1>3, <1>4, <1>5 DEF NormalizerNext

LEMMA NormalizerInvShows ==
    ASSUME NormalizerAssumption, NormalizerInv
    PROVE  NormalizedAsWritten
<1>1. PICK targets : targets = spec.targets
  OBVIOUS
<1>2. spec \in OpenAPIDocuments /\ AllReal(targets, recorded)
  BY <1>1 DEF NormalizerInv
<1>3. DOMAIN normalized = 1 .. index
  BY DEF NormalizerInv
<1>4. ASSUME NEW o \in DOMAIN normalized
      PROVE  /\ OverriddenAt(targets, spec.operations[o], normalized[o])
             /\ CutOffAt(targets, spec.operations[o], normalized[o])
  <2>1. /\ TargetsFit(spec.targets) /\ Len(spec.operations) \in Nat
        /\ \A p \in 1 .. Len(spec.operations) : OperationFits(spec.operations[p])
    BY <1>2, DocumentFits
  <2>2. index \in 0 .. Len(spec.operations) /\ o \in 1 .. index
    BY <1>3, <1>4 DEF NormalizerInv
  <2>3. o \in 1 .. Len(spec.operations)
    BY <2>1, <2>2
  <2>4. OperationFits(spec.operations[o])
    BY <2>1, <2>3
  <2>5. normalized[o] = NormalizedOperation(spec, spec.operations[o])
    BY <2>2 DEF NormalizerInv
  <2> QED  BY <1>1, <2>1, <2>4, <2>5, OperationAsWritten
<1>5. OverrideByIdentity
  BY <1>1, <1>4 DEF OverrideByIdentity, OverriddenAt, OwnWins, Identities
<1>6. CircularIffCycle
  <2>1. \A r \in recorded : r[2] = "circular" => NeverEnds(Leads(targets, UsedReferences), r[1])
    BY <1>2 DEF AllReal, Given
  <2> QED  BY <1>1, <1>4, <2>1, Zenon DEF CircularIffCycle, CutOffAt
<1>7. UnresolvedIsDangling
  <2>1. \A r \in recorded : r[2] = "unresolved_internal" <=> Missing(targets, r[1])
    BY <1>2 DEF AllReal, Given
  <2> QED  BY <1>1, <2>1, Zenon DEF UnresolvedIsDangling, Missing
<1> QED  BY <1>5, <1>6, <1>7 DEF NormalizedAsWritten, StatusesAreReal

(* For every document, an operation comes out of normalize_openapi_spec as *)
(* it is written, after every step: its own parameters win over those of   *)
(* its path by name and place; a schema is cut off as circular exactly     *)
(* when its references and items go round; and no status is recorded of a  *)
(* reference that the document does not give it.                           *)
THEOREM NormalizedStaysAsWritten == NormalizerSpec => []NormalizedAsWritten
<1>1. NormalizerInit => NormalizerInv
  BY NormalizerAssumption, NormalizerInvHolds
<1>2. NormalizerInv /\ [NormalizerNext]_normalizerVars => NormalizerInv'
  BY NormalizerAssumption, NormalizerInvHolds
<1>3. NormalizerInv => NormalizedAsWritten
  BY NormalizerAssumption, NormalizerInvShows
<1> QED  BY <1>1, <1>2, <1>3, PTL DEF NormalizerSpec
=============================================================================
