------------------------- MODULE ArchiveExtraction -------------------------
(***************************************************************************)
(* extract_source_archive of services/archive.py: an uploaded archive is   *)
(* written to a temporary file inside the directory it is extracted to,    *)
(* and its members are checked and written one after the other.            *)
(*                                                                         *)
(* The library that decompresses is a stream of chunks that ends or raises *)
(* at any moment and need not agree with the sizes in the headers.         *)
(***************************************************************************)
EXTENDS Naturals, Sequences, FiniteSets

CONSTANTS
    Paths,              \* the places below dest_dir a member may name
    ParentOf,           \* the directory of each of them, or Dest
    Dest, Outside,      \* dest_dir itself, and any place not below it
    TempZip,            \* _source.zip, one of Paths
    Archives,
    MaxFiles, MaxTotal, MaxSingle, ChunkBytes

Member == [target : Paths \cup {Outside}, link : BOOLEAN, dir : BOOLEAN, declared : Nat]

ASSUME ArchiveAssumption ==
    /\ TempZip \in Paths
    /\ ParentOf \in [Paths -> Paths \cup {Dest}]
    /\ Archives \subseteq [large : BOOLEAN, zip : BOOLEAN, stuck : BOOLEAN, members : Seq(Member)]
    /\ Outside \notin Paths /\ Dest \notin Paths
    /\ MaxFiles \in Nat /\ MaxTotal \in Nat /\ MaxSingle \in Nat

VARIABLES
    archive,
    step,               \* where the function is
    member,             \* the member the loop is at
    declaredTotal,      \* total_uncompressed_bytes
    actualTotal,        \* actual_total_uncompressed
    memberBytes,        \* member_extracted_bytes
    files,              \* the size of each file on disk but the temporary one
    directories,
    zipOnDisk,          \* the temporary file: absent, whole or truncated
    delivered,          \* history: what the library gave for each member
    outcome

archiveVars == <<archive, step, member, declaredTotal, actualTotal, memberBytes, files,
                 directories, zipOnDisk, delivered, outcome>>

Outcomes == {"none", "accepted", "refused", "failed"}

ArchiveInit ==
    /\ archive \in Archives
    /\ step = "upload"
    /\ member = 0
    /\ declaredTotal = 0 /\ actualTotal = 0 /\ memberBytes = 0
    /\ files = <<>> /\ directories = {}
    /\ zipOnDisk = "absent"
    /\ delivered = [i \in DOMAIN archive.members |-> 0]
    /\ outcome = "none"

CurrentMember == archive.members[member]
Ancestors(path) == {ParentOf[path]} \ {Dest}

(* Raise leads to the finally, which has the last word on disk. *)
Raise(as) == outcome' = as /\ step' = "finally"

(* The archive as a whole: its size before anything is written, then its   *)
(* format and the number of its members.                                   *)
CheckArchive ==
    /\ step = "upload"
    /\ IF archive.large
       THEN outcome' = "refused" /\ step' = "over" /\ UNCHANGED zipOnDisk
       ELSE /\ zipOnDisk' = "whole"
            /\ IF ~archive.zip \/ Len(archive.members) > MaxFiles
               THEN Raise("refused")
               ELSE step' = "members" /\ UNCHANGED outcome
    /\ UNCHANGED <<archive, member, declaredTotal, actualTotal, memberBytes, files,
                   directories, delivered>>

(* The next member: link, declared sizes, escape; then the directories it  *)
(* needs, and the member and its file are opened, which may fail.  A name  *)
(* that is taken by the other kind raises.  A member with the name of the  *)
(* temporary file truncates the archive while it is read; the library may  *)
(* go on with what it holds of it, or raise.                               *)
CheckMember ==
    /\ step = "members" /\ member < Len(archive.members)
    /\ LET m == archive.members[member + 1]
           refused == \/ m.link \/ m.declared > MaxSingle
                      \/ declaredTotal + m.declared > MaxTotal \/ m.target = Outside
           path == m.target
           needs == Ancestors(path) \cup (IF m.dir THEN {path} ELSE {})
           taken == needs \cap (DOMAIN files \cup {TempZip}) # {}
       IN  /\ declaredTotal' = IF m.link \/ m.declared > MaxSingle
                               THEN declaredTotal ELSE declaredTotal + m.declared
           /\ IF refused
              THEN Raise("refused") /\ UNCHANGED <<files, directories, zipOnDisk, memberBytes>>
              ELSE IF taken
              THEN Raise("failed") /\ UNCHANGED <<files, directories, zipOnDisk, memberBytes>>
              ELSE /\ directories' = directories \cup needs
                   /\ IF m.dir
                      THEN /\ step' = "members"
                           /\ UNCHANGED <<files, zipOnDisk, memberBytes, outcome>>
                      ELSE IF path \in directories'
                      THEN Raise("failed") /\ UNCHANGED <<files, zipOnDisk, memberBytes>>
                      ELSE \/ Raise("failed") /\ UNCHANGED <<files, zipOnDisk, memberBytes>>
                           \/ /\ step' = "reading"
                              /\ memberBytes' = 0
                              /\ IF path = TempZip
                                 THEN zipOnDisk' = "truncated" /\ UNCHANGED files
                                 ELSE /\ files' = [p \in DOMAIN files \cup {path} |->
                                                    IF p = path THEN 0 ELSE files[p]]
                                      /\ UNCHANGED zipOnDisk
                              /\ UNCHANGED outcome
    /\ member' = member + 1
    /\ UNCHANGED <<archive, actualTotal, delivered>>

Written(n) == [path \in DOMAIN files |->
                 files[path] + (IF path = CurrentMember.target THEN n ELSE 0)]

(* Mutants of ReadChunk: the chunk is written before it is counted; a      *)
(* chunk that fits exactly ends the member and is not written.             *)
ReadChunkThenCheck(n) ==
    /\ step = "reading"
    /\ files' = Written(n)
    /\ memberBytes' = memberBytes + n /\ actualTotal' = actualTotal + n
    /\ delivered' = [delivered EXCEPT ![member] = @ + n]
    /\ IF memberBytes' > MaxSingle \/ actualTotal' > MaxTotal
       THEN Raise("refused") ELSE UNCHANGED <<step, outcome>>
    /\ UNCHANGED <<archive, member, declaredTotal, directories, zipOnDisk>>

(* A chunk is counted for its member and for the archive before it is      *)
(* written.                                                                *)
ReadChunk(n) ==
    /\ step = "reading"
    /\ memberBytes' = memberBytes + n /\ actualTotal' = actualTotal + n
    /\ delivered' = [delivered EXCEPT ![member] = @ + n]
    /\ IF memberBytes' > MaxSingle \/ actualTotal' > MaxTotal
       THEN Raise("refused") /\ UNCHANGED files
       ELSE files' = Written(n) /\ UNCHANGED <<step, outcome>>
    /\ UNCHANGED <<archive, member, declaredTotal, directories, zipOnDisk>>

EndOfMember ==
    /\ step = "reading"
    /\ step' = "members"
    /\ UNCHANGED <<archive, member, declaredTotal, actualTotal, memberBytes, files,
                   directories, zipOnDisk, delivered, outcome>>

(* The stream is corrupt, or nothing can be written any more. *)
ReadFails ==
    /\ step = "reading"
    /\ Raise("failed")
    /\ UNCHANGED <<archive, member, declaredTotal, actualTotal, memberBytes, files,
                   directories, zipOnDisk, delivered>>

AllWritten ==
    /\ step = "members" /\ member = Len(archive.members)
    /\ Raise("accepted")
    /\ UNCHANGED <<archive, member, declaredTotal, actualTotal, memberBytes, files,
                   directories, zipOnDisk, delivered>>

(* finally: os.remove, whose error is passed over. *)
RemoveZip ==
    /\ step = "finally"
    /\ step' = "over"
    /\ zipOnDisk' \in IF archive.stuck THEN {zipOnDisk} ELSE {"absent"}
    /\ UNCHANGED <<archive, member, declaredTotal, actualTotal, memberBytes, files,
                   directories, delivered, outcome>>

ArchiveNext ==
    \/ CheckArchive \/ CheckMember
    \/ \E n \in 1 .. ChunkBytes : ReadChunk(n)
    \/ EndOfMember \/ ReadFails \/ AllWritten \/ RemoveZip

ArchiveSpec == ArchiveInit /\ [][ArchiveNext]_archiveVars

----------------------------------------------------------------------------
(* The bytes on disk, one by one.                                          *)
Stored == UNION {{path} \X (1 .. files[path]) : path \in DOMAIN files}

(* Below dest_dir and within both budgets, member by member and in total;  *)
(* files that were written twice count once.                               *)
DiskWithinBudget ==
    /\ DOMAIN files \cup directories \subseteq Paths
    /\ \A path \in DOMAIN files : files[path] <= MaxSingle
    /\ Cardinality(Stored) <= MaxTotal

LastOf(path) ==
    {i \in DOMAIN archive.members :
        /\ archive.members[i].target = path /\ ~archive.members[i].dir
        /\ \A j \in i + 1 .. Len(archive.members) : archive.members[j].target # path}

(* An archive that is accepted is on disk member by member, as the library *)
(* delivered it, and nothing else is, the uploaded file included; only a   *)
(* member with the name of that file is lost with it.                      *)
AcceptedIsOnDisk ==
    step = "over" =>
        /\ outcome = "accepted" =>
              /\ \A path \in Paths \ {TempZip} : \A i \in LastOf(path) :
                    path \in DOMAIN files /\ files[path] = delivered[i]
              /\ \A path \in DOMAIN files : LastOf(path) # {}
              /\ Len(archive.members) <= MaxFiles
        /\ zipOnDisk # "absent" => archive.stuck

(* Whatever the headers say and however the extraction ends, what it has   *)
(* put on disk is within the budgets, and an accepted archive is there     *)
(* whole and alone (archive.py:86-158).                                    *)
ExtractionIsExact == DiskWithinBudget /\ AcceptedIsOnDisk
============================================================================
