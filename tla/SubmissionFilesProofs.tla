------------------------- MODULE SubmissionFilesProofs -------------------------
(* Theorems about SubmissionFiles, for every set of uploads, every archive    *)
(* and every list of archive names.                                           *)
EXTENDS SubmissionFiles, TLAPS

-----------------------------------------------------------------------------
(* The constants                                                              *)

Entry == [top : STRING, path : STRING, data : STRING]

\* What an archive holds is a sequence.
LEMMA ArchiveEntries ==
  ASSUME NEW d \in DOMAIN Inside
  PROVE  /\ Inside[d] \in Seq(Entry)
         /\ Len(Inside[d]) \in Nat
         /\ DOMAIN Inside[d] = 1 .. Len(Inside[d])
<1>1. Inside[d] \in Seq(Entry)
  BY FilesAssumption DEF Entry
<1> QED BY <1>1

LEMMA UploadEntries ==
  /\ Entries \in Seq(Entry)
  /\ Len(Entries) \in Nat
  /\ DOMAIN Entries = 1 .. Len(Entries)
  /\ Kept \subseteq DOMAIN Entries
<1>1. Entries \in Seq(Entry)
  BY ArchiveEntries DEF Entries
<1> QED BY <1>1 DEF Kept

\* An accepted upload is one, and is not named Dockerfile.
LEMMA Accepted ==
  ASSUME NEW u \in Upload, ValidateSubmissionFile(u)
  PROVE  u # NoUpload /\ u.path # Dockerfile
<1>1. NoUpload.language = "none"
  BY DEF NoUpload
<1>2. u.language # "none"
  BY DEF ValidateSubmissionFile, Languages
<1> QED BY <1>1, <1>2, FilesAssumption

\* os.Create, as what becomes of each path.
LEMMA PutFiles ==
  ASSUME NEW p, NEW data, files' = Put(p, data)
  PROVE  /\ DOMAIN files' = DOMAIN files \cup {p}
         /\ files'[p] = data
         /\ \A q \in DOMAIN files : q # p => files'[q] = files[q]
BY DEF Put

-----------------------------------------------------------------------------
(* Types                                                                      *)

LEMMA PutTypes ==
  ASSUME NEW p, NEW data \in Contents, Range(files) \subseteq Contents, files' = Put(p, data)
  PROVE  Range(files') \subseteq Contents
BY DEF Put, Range

LEMMA OpenedContents ==
  ASSUME reader \in DOMAIN Inside, NEW i \in DOMAIN Opened
  PROVE  Opened[i].data \in Contents
BY DEF Opened, Contents

\* What is read and shipped are contents that came from the upload, or torn
\* and generated ones, and a build always has a submission.
THEOREM FilesTypeCorrect == Spec => []TypeOK
<1> USE DEF Stop
<1>1. Init => TypeOK
  <2>1. Range(Empty) \subseteq Contents
    BY DEF Empty, Range
  <2> SUFFICES ASSUME Init PROVE TypeOK
    OBVIOUS
  <2>2. upload = NoUpload /\ files = Empty /\ present = FALSE /\ deleted = FALSE /\ builds = 0
        /\ pc = "idle" /\ shipped = NoTree
    BY DEF Init
  <2>3. (files # Empty => present) /\ present \in BOOLEAN /\ deleted \in BOOLEAN
    BY <2>2
  <2>4. Range(files) \subseteq Contents
    BY <2>1, <2>2
  <2> QED BY <2>2, <2>3, <2>4 DEF TypeOK
<1>2. TypeOK /\ [Next]_vars => TypeOK'
  <2> SUFFICES ASSUME TypeOK, [Next]_vars PROVE TypeOK'
    OBVIOUS
  <2> USE DEF TypeOK
  <2>1. Torn \in Contents /\ Generated \in Contents
    BY DEF Contents
  <2>2. ASSUME NEW u \in Upload, Create(u) \/ CreateFails(u) PROVE TypeOK'
    <3>1. u.data \in Contents /\ u # NoUpload
      BY <2>2, Accepted DEF Create, CreateFails, Contents
    <3>2. Range(files') \subseteq Contents
      <4>1. CASE files' = Empty
        BY <4>1 DEF Empty, Range
      <4> QED BY <2>1, <2>2, <3>1, <4>1, PutTypes DEF Create, CreateFails
    <3> QED BY <2>2, <3>1, <3>2 DEF Create, CreateFails, Opened
  <2>3. CASE Delete
    <3>1. Range(Empty) \subseteq Contents
      BY DEF Empty, Range
    <3> QED BY <2>3, <3>1 DEF Delete, Opened
  <2>4. CASE Build \/ Fail \/ NoArchive
    BY <2>4 DEF Build, Fail, NoArchive, Opened
  <2>5. CASE FindArchive
    <3>1. reader' \in DOMAIN Inside /\ next' = 1
      BY <2>5 DEF FindArchive
    <3>2. next' \in 1 .. Len(Opened') + 1
      BY <3>1, ArchiveEntries DEF Opened
    <3> QED BY <2>5, <3>1, <3>2 DEF FindArchive
  <2>6. CASE WriteEntry
    <3>1. reader \in DOMAIN Inside /\ next \in DOMAIN Opened
      BY <2>6 DEF WriteEntry, Written
    <3>2. Range(files') \subseteq Contents
      BY <2>6, <3>1, OpenedContents, PutTypes DEF WriteEntry
    <3>3. next' \in 1 .. Len(Opened) + 1
      BY <2>6, <3>1, ArchiveEntries DEF WriteEntry, Opened
    <3> QED BY <2>6, <3>1, <3>2, <3>3 DEF WriteEntry, Opened
  <2>7. CASE TearEntry
    BY <2>1, <2>7, PutTypes DEF TearEntry
  <2>8. CASE SkipEntry
    <3>1. reader \in DOMAIN Inside /\ next \in DOMAIN Opened
      BY <2>8 DEF SkipEntry
    <3>2. next' \in 1 .. Len(Opened) + 1
      BY <2>8, <3>1, ArchiveEntries DEF SkipEntry, Opened
    <3> QED BY <2>8, <3>1, <3>2 DEF SkipEntry, Opened
  <2>9. CASE Extracted
    BY <2>9 DEF Extracted
  <2>10. CASE WriteDockerfile
    BY <2>1, <2>10, PutTypes DEF WriteDockerfile
  <2>11. CASE TearDockerfile
    BY <2>1, <2>11, PutTypes DEF TearDockerfile
  <2>12. CASE Ship
    BY <2>12 DEF Ship
  <2>13. CASE UNCHANGED vars
    BY <2>13 DEF vars, Opened
  <2> QED
    BY <2>2, <2>3, <2>4, <2>5, <2>6, <2>7, <2>8, <2>9, <2>10, <2>11, <2>12, <2>13 DEF Next
<1> QED BY <1>1, <1>2, PTL DEF Spec

-----------------------------------------------------------------------------
(* What the upload should become                                              *)

\* The upload is set once, and what it should become with it.
LEMMA SameUpload ==
  ASSUME upload' = upload
  PROVE  /\ Entries' = Entries /\ Kept' = Kept /\ Sources' = Sources
         /\ Plain' = Plain
         /\ \A p : SourceAt(p)' = SourceAt(p)
         /\ \A i \in Kept : Place(Entries[i])' = Place(Entries[i])
         /\ \A n, k : LastBefore(n, k)' = LastBefore(n, k)
BY DEF Entries, Kept, Sources, Plain, SourceAt, Place, Tops, LastBefore

\* zipCommonPrefix finds the folder that was zipped as a whole.
LEMMA WholeFolder ==
  ASSUME NEW i \in DOMAIN Entries, Entries[i].top # ""
  PROVE  CommonPrefix(Entries) <=> Tops = {Entries[i].top}
<1>1. Tops = {Entries[j].top : j \in DOMAIN Entries}
  BY DEF Tops, Range
<1>2. ASSUME CommonPrefix(Entries) PROVE \A j \in DOMAIN Entries : Entries[j].top = Entries[i].top
  BY <1>2 DEF CommonPrefix
<1>3. ASSUME Tops = {Entries[i].top} PROVE CommonPrefix(Entries)
  <2>1. ASSUME NEW j \in DOMAIN Entries PROVE Entries[j].top = Entries[i].top
    <3>1. Entries[j].top \in Tops
      BY <1>1
    <3> QED BY <1>3, <3>1
  <2> QED BY <2>1 DEF CommonPrefix
<1> QED BY <1>1, <1>2, <1>3

\* The extraction of the upload itself writes the kept entries in their places.
LEMMA ExtractsUpload ==
  ASSUME upload.path \in Zips, upload.data \in DOMAIN Inside, reader = upload.data
  PROVE  /\ Opened = Entries
         /\ Written(Opened) = Kept
         /\ \A i \in Kept : PathOf(Opened, i) = Place(Entries[i])
<1>1. Opened = Entries
  BY DEF Opened, Entries
<1>2. ASSUME NEW i \in DOMAIN Entries PROVE Leaves(Entries, i) <=> i \notin Kept
  BY WholeFolder DEF Leaves, Kept
<1>3. ASSUME NEW i \in DOMAIN Entries PROVE PathOf(Entries, i) = Place(Entries[i])
  BY WholeFolder DEF PathOf, Place
<1> QED BY <1>1, <1>2, <1>3, UploadEntries DEF Written

-----------------------------------------------------------------------------
(* The extraction, entry by entry                                             *)

LEMMA LaidNone == Laid(1)
BY UploadEntries DEF Laid

\* An entry is written over what its path held.
LEMMA LaidOn ==
  ASSUME NEW n \in Kept, Laid(n), upload' = upload,
         files' = Put(Place(Entries[n]), Entries[n].data)
  PROVE  Laid(n + 1)'
<1>1. Kept \subseteq Nat
  BY UploadEntries
<1> SUFFICES ASSUME NEW i \in Kept, i < n + 1
             PROVE  \E k \in Kept :
                      /\ LastBefore(n + 1, k)
                      /\ Place(Entries[k]) = Place(Entries[i])
                      /\ Place(Entries[i]) \in DOMAIN files'
                      /\ files'[Place(Entries[i])] = Entries[k].data
  BY SameUpload DEF Laid
<1>2. CASE Place(Entries[i]) = Place(Entries[n])
  <2>1. LastBefore(n + 1, n)
    BY <1>1 DEF LastBefore
  <2> QED BY <1>2, <2>1, PutFiles
<1>3. CASE Place(Entries[i]) # Place(Entries[n])
  <2>1. i < n
    BY <1>1, <1>3
  <2>2. PICK k \in Kept : /\ LastBefore(n, k)
                          /\ Place(Entries[k]) = Place(Entries[i])
                          /\ Place(Entries[i]) \in DOMAIN files
                          /\ files[Place(Entries[i])] = Entries[k].data
    BY <2>1 DEF Laid
  <2>3. ASSUME NEW j \in Kept, j < n + 1, Place(Entries[j]) = Place(Entries[k]) PROVE j <= k
    <3>1. j < n
      BY <1>1, <1>3, <2>2, <2>3
    <3> QED BY <2>2, <2>3, <3>1 DEF LastBefore
  <2>4. LastBefore(n + 1, k)
    BY <1>1, <2>2, <2>3 DEF LastBefore
  <2> QED BY <1>3, <2>2, <2>4, PutFiles
<1> QED BY <1>2, <1>3

\* An entry that would leave the directory is passed over.
LEMMA LaidPast ==
  ASSUME NEW n \in DOMAIN Entries, n \notin Kept, Laid(n), upload' = upload, files' = files
  PROVE  Laid(n + 1)'
<1>1. Kept \subseteq Nat /\ n \in Nat
  BY UploadEntries
<1>2. \A i \in Kept : i < n + 1 => i < n
  BY <1>1
<1>3. \A k \in Kept : LastBefore(n, k) => LastBefore(n + 1, k)
  BY <1>1, <1>2 DEF LastBefore
<1>4. Laid(n + 1)
  BY <1>2, <1>3 DEF Laid
<1> QED BY <1>4, SameUpload DEF Laid

\* Past the last entry, every source is there in its last version.
LEMMA LaidAll ==
  ASSUME NEW n \in Nat, n > Len(Entries), Laid(n)
  PROVE  AllLaid
<1> SUFFICES ASSUME NEW p \in Sources PROVE p \in DOMAIN files /\ files[p] = SourceAt(p)
  BY DEF AllLaid
<1> DEFINE Last(i) == /\ Place(Entries[i]) = p
                      /\ \A j \in Kept : Place(Entries[j]) = p => j <= i
<1>1. Kept \subseteq Nat /\ \A i \in Kept : i < n
  BY UploadEntries
<1>2. PICK i \in Kept : Place(Entries[i]) = p
  BY DEF Sources
<1>3. PICK k \in Kept : /\ LastBefore(n, k)
                        /\ Place(Entries[k]) = p
                        /\ p \in DOMAIN files
                        /\ files[p] = Entries[k].data
  BY <1>1, <1>2 DEF Laid
<1>4. Last(k)
  BY <1>1, <1>3 DEF LastBefore
<1>5. \A m \in Kept : Last(m) => m = k
  BY <1>1, <1>4
<1>6. (CHOOSE m \in Kept : Last(m)) = k
  BY <1>4, <1>5
<1> QED BY <1>3, <1>6 DEF SourceAt

-----------------------------------------------------------------------------
(* The directory                                                              *)

FilesOK == TypeOK /\ FilesInv

\* A build that works on a directory that has not been deleted.
LEMMA AtWork ==
  ASSUME FilesOK, pc # "idle", ~deleted
  PROVE  upload # NoUpload /\ builds # 0 /\ DirectoryInv
BY DEF FilesOK, TypeOK, FilesInv

\* FilesInv after a step of a build: the directory is all that it can change.
LEMMA BuildKeeps ==
  ASSUME FilesOK, UNCHANGED <<upload, deleted>>, builds # 0, builds' # 0,
         upload # NoUpload /\ ~deleted => DirectoryInv'
  PROVE  FilesInv'
BY DEF FilesOK, FilesInv

LEMMA CreateKeepsFiles ==
  ASSUME FilesOK, NEW u \in Upload, Create(u) \/ CreateFails(u)
  PROVE  FilesInv'
<1> USE DEF FilesOK, TypeOK, FilesInv
<1>1. upload = NoUpload /\ ~deleted /\ builds = 0 /\ pc = "idle" /\ shipped = NoTree /\ files = Empty
      /\ UNCHANGED <<deleted, builds, pc, shipped>>
  BY DEF Create, CreateFails
<1>2. CASE CreateFails(u)
  BY <1>1, <1>2 DEF CreateFails
<1>3. CASE Create(u)
  <2>1. upload' = u /\ u # NoUpload /\ u.path # Dockerfile /\ present' = TRUE
    BY <1>3, Accepted DEF Create
  <2>2. DOMAIN files' = {u.path} /\ files'[u.path] = u.data
    BY <1>1, <1>3, PutFiles DEF Create, Empty
  <2>3. DirectoryInv'
    BY <1>1, <2>1, <2>2 DEF DirectoryInv, BuildInv
  <2> QED BY <1>1, <2>1, <2>3
<1> QED BY <1>2, <1>3

\* The files a build writes into the directory of a plain upload are sources,
\* and, where there is none among these, the Dockerfile.
LEMMA PutKeepsPlain ==
  ASSUME FilesOK, DirectoryInv, Plain, upload' = upload, upload.path # Dockerfile,
         NEW p, NEW data, files' = Put(p, data),
         p # upload.path,
         p \in Sources \/ (p = Dockerfile /\ data \in {Generated, Torn})
  PROVE  /\ files'[upload.path] = upload.data
         /\ DOMAIN files' \subseteq Sources \cup {upload.path, Dockerfile}
         /\ Dockerfile \in DOMAIN files' \ Sources => files'[Dockerfile] \in {Generated, Torn}
<1>0. /\ DOMAIN files' = DOMAIN files \cup {p}
      /\ files'[p] = data
      /\ \A q \in DOMAIN files : q # p => files'[q] = files[q]
  BY PutFiles
<1>1. files'[upload.path] = upload.data
  BY <1>0 DEF DirectoryInv
<1>2. DOMAIN files' \subseteq Sources \cup {upload.path, Dockerfile}
  BY <1>0 DEF DirectoryInv
<1>3. ASSUME Dockerfile \in DOMAIN files' \ Sources PROVE files'[Dockerfile] \in {Generated, Torn}
  <2>1. CASE p = Dockerfile
    BY <1>0, <1>3, <2>1
  <2>2. CASE p # Dockerfile
    BY <1>0, <1>3, <2>2 DEF DirectoryInv
  <2> QED BY <2>1, <2>2
<1> QED BY <1>1, <1>2, <1>3

\* A step of a build that leaves the files as they are.
LEMMA FilesKept ==
  ASSUME FilesOK, DirectoryInv, UNCHANGED <<upload, files, present, builds>>, builds # 0,
         pc' # "find", pc' # "tar",
         Plain \/ builds = 1 => BuildInv'
  PROVE  DirectoryInv'
BY SameUpload DEF DirectoryInv

LEMMA StartKeepsFiles ==
  ASSUME FilesOK, Build \/ FindArchive \/ NoArchive
  PROVE  FilesInv'
<1> USE DEF FilesOK, TypeOK, FilesInv
<1>1. CASE Build
  <2>1. upload # NoUpload /\ ~deleted /\ pc' = "find" /\ UNCHANGED <<upload, files, present, deleted>>
        /\ builds' # 0 /\ (builds' = 1 => builds = 0)
    BY <1>1 DEF Build
  <2>2. DirectoryInv'
    BY <2>1, SameUpload DEF DirectoryInv, BuildInv
  <2> QED BY <2>1, <2>2
<1>2. CASE FindArchive \/ NoArchive
  <2>1. pc = "find" /\ pc' \in {"extract", "dockerfile"}
        /\ UNCHANGED <<upload, files, present, deleted, builds>>
    BY <1>2 DEF FindArchive, NoArchive
  <2>2. builds # 0
    BY <2>1
  <2>3. ASSUME upload # NoUpload, ~deleted, Plain \/ builds = 1
        PROVE  BuildInv'
    <3>1. DirectoryInv /\ upload.path \in DOMAIN files
      BY <2>3 DEF DirectoryInv
    <3>2. files[upload.path] = upload.data
      BY <2>1, <2>3, <3>1 DEF DirectoryInv, BuildInv
    <3>3. ASSUME NEW p \in Zips, p \in DOMAIN files PROVE p = upload.path
      <4>1. CASE Plain
        <5>1. p \notin Sources /\ p # Dockerfile
          BY <4>1, FilesAssumption DEF Plain, Zips
        <5> QED BY <3>1, <3>3, <4>1, <5>1 DEF DirectoryInv
      <4>2. CASE builds = 1
        BY <2>1, <3>1, <3>3, <4>2 DEF DirectoryInv, BuildInv
      <4> QED BY <2>3, <4>1, <4>2
    <3>4. CASE FindArchive
      <4>1. PICK i \in DOMAIN ZipNames : /\ <<ZipNames[i]>> \in DOMAIN files
                                         /\ archive' = <<ZipNames[i]>>
                                         /\ reader' = files[<<ZipNames[i]>>]
        BY <3>4 DEF FindArchive, FirstZip
      <4>2. archive' = upload.path /\ archive' \in Zips /\ reader' = upload.data
        BY <3>2, <3>3, <4>1 DEF Zips
      <4>3. pc' = "extract" /\ next' = 1 /\ Laid(1)
        BY <3>4, LaidNone DEF FindArchive
      <4>4. Laid(next)'
        BY <2>1, <4>3, SameUpload DEF Laid
      <4> QED BY <2>1, <4>2, <4>3, <4>4 DEF BuildInv, Zips
    <3>5. CASE NoArchive
      <4>1. upload.path \notin Zips /\ pc' = "dockerfile"
        BY <3>1, <3>5 DEF NoArchive, Zips
      <4>2. Sources = {}
        BY <4>1 DEF Sources, Kept, Entries
      <4>3. AllLaid'
        BY <2>1, <4>2, SameUpload DEF AllLaid
      <4> QED BY <4>1, <4>3 DEF BuildInv
    <3> QED BY <1>2, <3>4, <3>5
  <2>4. ASSUME upload # NoUpload, ~deleted PROVE DirectoryInv'
    BY <2>1, <2>2, <2>3, <2>4, FilesKept
  <2> QED BY <2>1, <2>2, <2>4, BuildKeeps
<1> QED BY <1>1, <1>2

LEMMA ExtractKeepsFiles ==
  ASSUME FilesOK, WriteEntry \/ TearEntry \/ SkipEntry \/ Extracted
  PROVE  FilesInv'
<1> USE DEF FilesOK, TypeOK, FilesInv
<1>1. pc = "extract" /\ builds # 0 /\ UNCHANGED <<upload, deleted, builds>>
      /\ reader \in DOMAIN Inside /\ next \in 1 .. Len(Opened) + 1 /\ next \in Nat
  <2>1. Len(Opened) \in Nat
    BY ArchiveEntries DEF WriteEntry, TearEntry, SkipEntry, Extracted, Opened
  <2> QED BY <2>1 DEF WriteEntry, TearEntry, SkipEntry, Extracted, Stop
<1> SUFFICES ASSUME upload # NoUpload, ~deleted PROVE DirectoryInv'
  BY <1>1, BuildKeeps
<1>2. DirectoryInv /\ upload.path # Dockerfile
  OBVIOUS
<1>3. ASSUME Plain \/ builds = 1
      PROVE  /\ archive = upload.path /\ archive \in Zips /\ reader = upload.data /\ Laid(next)
             /\ Opened = Entries /\ Written(Opened) = Kept
             /\ \A i \in Kept : PathOf(Opened, i) = Place(Entries[i])
  BY <1>1, <1>2, <1>3, ExtractsUpload DEF DirectoryInv, BuildInv, Zips
<1>4. ASSUME Plain, next \in Written(Opened)
      PROVE  PathOf(Opened, next) \in Sources /\ PathOf(Opened, next) # upload.path
  BY <1>3, <1>4 DEF Sources, Plain
<1>5. ASSUME NEW data, next \in Written(Opened), files' = Put(PathOf(Opened, next), data),
             present' = TRUE, pc' # "tar", pc' # "find",
             Plain \/ builds = 1 => BuildInv'
      PROVE  DirectoryInv'
  <2>1. upload.path \in DOMAIN files'
    BY <1>2, <1>5, PutFiles DEF DirectoryInv
  <2>2. ASSUME Plain
        PROVE  /\ files'[upload.path] = upload.data
               /\ DOMAIN files' \subseteq Sources \cup {upload.path, Dockerfile}
               /\ Dockerfile \in DOMAIN files' \ Sources => files'[Dockerfile] \in {Generated, Torn}
    BY <1>1, <1>2, <1>4, <1>5, <2>2, PutKeepsPlain
  <2> QED BY <1>1, <1>5, <2>1, <2>2, SameUpload DEF DirectoryInv
<1>6. CASE WriteEntry
  <2>1. ASSUME Plain \/ builds = 1 PROVE BuildInv'
    <3>1. PICK n \in Kept : n = next /\ files' = Put(Place(Entries[n]), Entries[n].data)
      BY <1>3, <1>6, <2>1 DEF WriteEntry
    <3>2. Laid(n)
      BY <1>3, <2>1, <3>1 DEF Laid
    <3>3. Laid(n + 1)'
      BY <1>1, <3>1, <3>2, LaidOn
    <3>4. next' = n + 1 /\ UNCHANGED <<pc, archive, reader>>
      BY <1>6, <3>1 DEF WriteEntry
    <3>5. Laid(next)'
      BY <3>3, <3>4 DEF Laid
    <3> QED BY <1>1, <1>3, <2>1, <3>4, <3>5 DEF BuildInv, Zips
  <2> QED BY <1>1, <1>5, <1>6, <2>1 DEF WriteEntry
<1>7. CASE TearEntry
  BY <1>5, <1>7 DEF TearEntry, Stop, BuildInv
<1>8. CASE SkipEntry
  <2>1. ASSUME Plain \/ builds = 1 PROVE BuildInv'
    <3>1. PICK n \in DOMAIN Entries : n = next /\ n \notin Kept /\ files' = files
      BY <1>3, <1>8, <2>1 DEF SkipEntry
    <3>2. Laid(n)
      BY <1>3, <2>1, <3>1 DEF Laid
    <3>3. Laid(n + 1)'
      BY <1>1, <3>1, <3>2, LaidPast
    <3>4. next' = n + 1 /\ UNCHANGED <<pc, archive, reader>>
      BY <1>8, <3>1 DEF SkipEntry
    <3>5. Laid(next)'
      BY <3>3, <3>4 DEF Laid
    <3> QED BY <1>1, <1>3, <2>1, <3>4, <3>5 DEF BuildInv, Zips
  <2> QED BY <1>1, <1>2, <1>8, <2>1, FilesKept DEF SkipEntry
<1>9. CASE Extracted
  <2>1. ASSUME Plain \/ builds = 1 PROVE BuildInv'
    <3>1. AllLaid
      BY <1>1, <1>3, <1>9, <2>1, LaidAll DEF Extracted
    <3>2. AllLaid' /\ pc' = "dockerfile"
      BY <1>1, <1>9, <3>1, SameUpload DEF Extracted, AllLaid
    <3> QED BY <3>2 DEF BuildInv
  <2> QED BY <1>1, <1>2, <1>9, <2>1, FilesKept DEF Extracted
<1> QED BY <1>6, <1>7, <1>8, <1>9

LEMMA FinishKeepsFiles ==
  ASSUME FilesOK, WriteDockerfile \/ TearDockerfile \/ Ship \/ Fail
  PROVE  FilesInv'
<1> USE DEF FilesOK, TypeOK, FilesInv
<1>1. pc # "idle" /\ builds # 0 /\ UNCHANGED <<upload, deleted, builds>>
  BY DEF WriteDockerfile, TearDockerfile, Ship, Fail, Stop
<1> SUFFICES ASSUME upload # NoUpload, ~deleted PROVE DirectoryInv'
  BY <1>1, BuildKeeps
<1>2. DirectoryInv /\ upload.path # Dockerfile
  OBVIOUS
<1>3. CASE Ship \/ Fail
  BY <1>1, <1>2, <1>3, FilesKept DEF Ship, Fail, Stop, BuildInv
<1>4. ASSUME pc = "dockerfile", NEW data \in {Generated, Torn}, Dockerfile \notin DOMAIN files,
             files' = Put(Dockerfile, data), present' = present, pc' \in {"tar", "idle"}
      PROVE  DirectoryInv'
  <2>1. upload.path \in DOMAIN files' /\ Dockerfile \in DOMAIN files'
    BY <1>2, <1>4, PutFiles DEF DirectoryInv
  <2>2. ASSUME Plain
        PROVE  /\ files'[upload.path] = upload.data
               /\ DOMAIN files' \subseteq Sources \cup {upload.path, Dockerfile}
               /\ Dockerfile \in DOMAIN files' \ Sources => files'[Dockerfile] \in {Generated, Torn}
    BY <1>1, <1>2, <1>4, <2>2, PutKeepsPlain
  <2>3. ASSUME Plain \/ builds = 1 PROVE AllLaid'
    <3>1. AllLaid
      BY <1>2, <1>4, <2>3 DEF DirectoryInv, BuildInv
    <3> QED BY <1>1, <1>4, <3>1, PutFiles, SameUpload DEF AllLaid
  <2>4. Plain \/ builds = 1 => BuildInv'
    BY <1>4, <2>3 DEF BuildInv
  <2> QED BY <1>1, <1>2, <1>4, <2>1, <2>2, <2>4, SameUpload DEF DirectoryInv
<1>5. CASE WriteDockerfile
  <2>1. CASE Dockerfile \notin DOMAIN files
    BY <1>4, <1>5, <2>1 DEF WriteDockerfile
  <2>2. CASE Dockerfile \in DOMAIN files
    <3>1. pc = "dockerfile" /\ pc' = "tar" /\ UNCHANGED <<files, present>>
      BY <1>5, <2>2 DEF WriteDockerfile
    <3>2. Plain \/ builds = 1 => BuildInv'
      BY <1>1, <1>2, <3>1, SameUpload DEF DirectoryInv, BuildInv, AllLaid
    <3> QED BY <1>1, <1>2, <2>2, <3>1, <3>2, SameUpload DEF DirectoryInv
  <2> QED BY <2>1, <2>2
<1>6. CASE TearDockerfile
  BY <1>4, <1>6 DEF TearDockerfile, Stop
<1> QED BY <1>3, <1>5, <1>6

LEMMA FilesHold == Spec => []FilesOK
<1>1. Init => FilesInv
  BY DEF Init, FilesInv
<1>2. TypeOK /\ FilesInv /\ [Next]_vars => FilesInv'
  <2> SUFFICES ASSUME FilesOK, [Next]_vars PROVE FilesInv'
    BY DEF FilesOK
  <2>1. CASE Delete
    BY <2>1 DEF Delete, FilesOK, FilesInv
  <2>2. CASE UNCHANGED vars
    <3>1. DirectoryInv' = DirectoryInv
      BY <2>2, SameUpload DEF vars, DirectoryInv, BuildInv, AllLaid, Laid
    <3> QED BY <2>2, <3>1 DEF vars, FilesOK, FilesInv
  <2> QED
    BY <2>1, <2>2, CreateKeepsFiles, StartKeepsFiles, ExtractKeepsFiles, FinishKeepsFiles DEF Next
<1> QED BY <1>1, <1>2, FilesTypeCorrect, PTL DEF Spec, FilesOK

-----------------------------------------------------------------------------
(* What is shipped                                                            *)

\* Until the next build ships, what was shipped stays what it was; an upload
\* with archives inside counts on its first build only.
LEMMA ShippedKept ==
  ASSUME FilesOK, [Next]_vars, ~Ship, shipped' # NoTree, ~deleted'
  PROVE  /\ upload' = upload /\ shipped' = shipped /\ ~deleted
         /\ builds' = 1 => builds = 1
<1> USE DEF FilesOK, TypeOK, FilesInv
<1>1. shipped' = shipped
  BY DEF Next, Create, CreateFails, Delete, Build, Fail, FindArchive, NoArchive, WriteEntry,
         TearEntry, SkipEntry, Extracted, WriteDockerfile, TearDockerfile, vars
<1>2. builds # 0 /\ upload # NoUpload
  BY <1>1
<1>3. ~Delete /\ \A u \in Upload : ~Create(u) /\ ~CreateFails(u)
  BY <1>2 DEF Delete, Create, CreateFails
<1>4. CASE Build
  BY <1>1, <1>2, <1>4 DEF Build
<1>5. CASE UNCHANGED <<upload, deleted, builds>>
  BY <1>1, <1>5
<1> QED
  BY <1>3, <1>4, <1>5
  DEF Next, Fail, FindArchive, NoArchive, WriteEntry, TearEntry, SkipEntry, Extracted,
      WriteDockerfile, TearDockerfile, vars

\* Whatever builds failed or died half-way before, a build ships every source
\* of the upload, whole and in the archive's last version of it.
THEOREM SourcesAreShipped == Spec => []SourcesIntact
<1>1. Init => SourcesIntact
  BY DEF Init, SourcesIntact
<1>2. FilesOK /\ SourcesIntact /\ [Next]_vars => SourcesIntact'
  <2> SUFFICES ASSUME FilesOK, SourcesIntact, [Next]_vars PROVE SourcesIntact'
    OBVIOUS
  <2>1. CASE Ship
    <3>1. pc = "tar" /\ shipped' = files /\ UNCHANGED <<upload, deleted, builds>>
      BY <2>1 DEF Ship
    <3>2. ASSUME ~deleted, Plain \/ builds = 1 PROVE AllLaid
      BY <3>1, <3>2, AtWork DEF DirectoryInv, BuildInv
    <3> QED BY <3>1, <3>2, SameUpload DEF SourcesIntact, AllLaid
  <2>2. CASE ~Ship
    BY <2>2, ShippedKept, SameUpload DEF SourcesIntact
  <2> QED BY <2>1, <2>2
<1> QED BY <1>1, <1>2, FilesHold, PTL DEF Spec

\* Of an upload without archives inside, nothing else is shipped but the
\* upload itself and a Dockerfile, the submission's own if it brings one.
THEOREM NothingElseIsShipped == Spec => []NothingElse
<1>1. Init => NothingElse
  BY DEF Init, NothingElse
<1>2. FilesOK /\ NothingElse /\ [Next]_vars => NothingElse'
  <2> SUFFICES ASSUME FilesOK, NothingElse, [Next]_vars PROVE NothingElse'
    OBVIOUS
  <2>1. CASE Ship
    <3>1. pc = "tar" /\ shipped' = files /\ UNCHANGED <<upload, deleted>>
      BY <2>1 DEF Ship
    <3>2. ASSUME ~deleted, Plain
          PROVE  /\ DOMAIN files = Sources \cup {upload.path, Dockerfile}
                 /\ files[upload.path] = upload.data
                 /\ Dockerfile \notin Sources => files[Dockerfile] \in {Generated, Torn}
      <4>1. DirectoryInv /\ AllLaid
        BY <3>1, <3>2, AtWork DEF DirectoryInv, BuildInv
      <4> QED BY <3>1, <3>2, <4>1 DEF DirectoryInv, AllLaid
    <3> QED BY <3>1, <3>2, SameUpload DEF NothingElse
  <2>2. CASE ~Ship
    BY <2>2, ShippedKept, SameUpload DEF NothingElse
  <2> QED BY <2>1, <2>2
<1> QED BY <1>1, <1>2, FilesHold, PTL DEF Spec

\* Only the extraction that was under way when a submission was deleted brings
\* its directory back.
THEOREM DeletedStaysDeleted == Spec => StaysDeleted
<1>1. FilesOK /\ [Next]_vars => [deleted /\ ~present => (present' => pc = "extract")]_vars
  <2> SUFFICES ASSUME FilesOK, Next, deleted, ~present, present' PROVE pc = "extract"
    OBVIOUS
  <2>1. upload # NoUpload
    BY DEF FilesOK, FilesInv
  <2> QED
    BY <2>1
    DEF Next, Create, CreateFails, Delete, Build, Fail, FindArchive, NoArchive, WriteEntry,
        TearEntry, SkipEntry, Extracted, WriteDockerfile, TearDockerfile, Ship
<1> QED BY <1>1, FilesHold, PTL DEF Spec, StaysDeleted

=============================================================================
