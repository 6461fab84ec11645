---------------------------- MODULE SubmissionFiles ----------------------------
(* What becomes of an uploaded file: the API validates it and stages it       *)
(* (utils/validator.go, Create and saveUpload in api/submission_handler.go),  *)
(* and every run of the submission has the worker extract it, complete it     *)
(* with a Dockerfile and ship the directory to Docker                         *)
(* (services/tar_helper.go, BuildImage in services/sandbox_service.go).       *)
(* There is one directory: a submission's own.  The content of a file is a    *)
(* value of its own, and Inside tells which contents are archives.            *)
EXTENDS Naturals, Sequences, Functions

CONSTANTS
  Upload,    \* the uploads: [language, ext, size, path, data]
  Inside,    \* the entries [top, path, data] of the contents that are archives
  ZipNames,  \* the file names that end in .zip, as os.ReadDir sorts them
  MaxMB      \* MAX_UPLOAD_MB

VARIABLES
  upload,    \* the submission, NoUpload while there is none
  files,     \* the submission's directory: the content of every path in it
  present,   \* the directory exists
  deleted,   \* the submission has been deleted
  builds,    \* BuildImage was called never, once, or more often
  pc,        \* where BuildImage is
  archive,   \* the path of the archive it extracts
  reader,    \* what that file held when it was opened
  next,      \* the entry of it that comes next
  shipped    \* the files of the last build context handed to Docker

vars == <<upload, files, present, deleted, builds, pc, archive, reader, next, shipped>>

Languages == {"go", "cpp", "rust", "python"}
Extensions(language) ==
  [go |-> {".go"}, cpp |-> {".cpp", ".cc"}, rust |-> {".rs"}, python |-> {".py"}][language]
    \cup {".tar.gz", ".zip"}

\* NormalizeLanguage has already trimmed and lowered the language; filepath.Ext
\* is the last extension of the name.
ValidateSubmissionFile(u) ==
  /\ u.size <= MaxMB
  /\ u.language \in Languages
  /\ u.ext \in Extensions(u.language)

NoUpload == [language |-> "none", ext |-> "", size |-> 0, path |-> << >>, data |-> "none"]
Empty == [p \in {} |-> "none"]
NoTree == [p \in {"none"} |-> "none"]

\* What a write that is cut short leaves, and the Dockerfile dockerfileFor makes.
Torn == "torn"
Generated == "generated"
Dockerfile == <<"Dockerfile">>

\* The entries of an archive come in an order; half a file and the generated
\* Dockerfile are not archives; "Dockerfile" has no extension, so that it is
\* neither an archive's name nor one an upload is accepted under.
ASSUME FilesAssumption ==
  /\ \A d \in DOMAIN Inside : Inside[d] \in Seq([top : STRING, path : STRING, data : STRING])
  /\ {Torn, Generated} \cap DOMAIN Inside = {}
  /\ \A i \in DOMAIN ZipNames : <<ZipNames[i]>> # Dockerfile
  /\ \A u \in Upload : ValidateSubmissionFile(u) => u.path # Dockerfile

Put(p, data) == [q \in DOMAIN files \cup {p} |-> IF q = p THEN data ELSE files[q]]

Init ==
  /\ upload = NoUpload
  /\ files = Empty /\ present = FALSE
  /\ deleted = FALSE
  /\ builds = 0
  /\ pc = "idle"
  /\ archive = << >> /\ reader = "none" /\ next = 1
  /\ shipped = NoTree

-----------------------------------------------------------------------------
(* The API                                                                    *)

\* Create: validated, saved under its base name, its row inserted.
Create(u) ==
  /\ upload = NoUpload /\ ~present
  /\ ValidateSubmissionFile(u)
  /\ upload' = u
  /\ present' = TRUE
  /\ files' = Put(u.path, u.data)
  /\ UNCHANGED <<deleted, builds, pc, archive, reader, next, shipped>>

\* The directory stays when the file or the row cannot be written; there is no
\* submission then, and no build.
CreateFails(u) ==
  /\ upload = NoUpload /\ ~present
  /\ ValidateSubmissionFile(u)
  /\ present' = TRUE
  /\ files' \in {Empty, Put(u.path, Torn), Put(u.path, u.data)}
  /\ UNCHANGED <<upload, deleted, builds, pc, archive, reader, next, shipped>>

\* Delete: os.RemoveAll, whatever a build is doing with the directory.
Delete ==
  /\ upload # NoUpload /\ ~deleted
  /\ deleted' = TRUE
  /\ present' = FALSE
  /\ files' = Empty
  /\ UNCHANGED <<upload, builds, pc, archive, reader, next, shipped>>

-----------------------------------------------------------------------------
(* BuildImage                                                                 *)

Stop == pc' = "idle" /\ archive' = << >> /\ reader' = "none" /\ next' = 1

\* Mutant of Build: for a directory without a submission.
BuildUnknown ==
  /\ present /\ ~deleted
  /\ pc = "idle"
  /\ pc' = "find"
  /\ builds' = IF builds = 2 THEN 2 ELSE builds + 1
  /\ UNCHANGED <<upload, files, present, deleted, archive, reader, next, shipped>>

\* A build, for every run of the submission.
Build ==
  /\ upload # NoUpload /\ ~deleted
  /\ pc = "idle"
  /\ pc' = "find"
  /\ builds' = IF builds = 2 THEN 2 ELSE builds + 1
  /\ UNCHANGED <<upload, files, present, deleted, archive, reader, next, shipped>>

\* Whatever fails, and the death of the process, ends the build.
Fail ==
  /\ pc # "idle"
  /\ Stop
  /\ UNCHANGED <<upload, files, present, deleted, builds, shipped>>

\* extractSubmissionZip takes the first .zip of the directory.
FirstZip(i) ==
  /\ <<ZipNames[i]>> \in DOMAIN files
  /\ \A j \in DOMAIN ZipNames : <<ZipNames[j]>> \in DOMAIN files => i <= j

FindArchive ==
  /\ pc = "find" /\ present
  /\ \E i \in DOMAIN ZipNames :
       /\ FirstZip(i)
       /\ files[<<ZipNames[i]>>] \in DOMAIN Inside
       /\ archive' = <<ZipNames[i]>>
       /\ reader' = files[<<ZipNames[i]>>]
  /\ pc' = "extract" /\ next' = 1
  /\ UNCHANGED <<upload, files, present, deleted, builds, shipped>>

NoArchive ==
  /\ pc = "find" /\ present
  /\ \A i \in DOMAIN ZipNames : <<ZipNames[i]>> \notin DOMAIN files
  /\ pc' = "dockerfile"
  /\ UNCHANGED <<upload, files, present, deleted, builds, archive, reader, next, shipped>>

\* zipCommonPrefix: the directory all the entries are in.
CommonPrefix(entries) ==
  \E i \in DOMAIN entries : \A j \in DOMAIN entries :
    entries[j].top = entries[i].top /\ entries[j].top # ""

\* Where an entry is written: without that directory, below dest otherwise.
PathOf(entries, i) ==
  LET e == entries[i] IN
    IF e.top = "" \/ CommonPrefix(entries) THEN <<e.path>> ELSE <<e.top, e.path>>
\* The guard against entries that leave the directory: they are skipped.
Leaves(entries, i) == entries[i].top = ".." /\ ~CommonPrefix(entries)
Written(entries) == {i \in DOMAIN entries : ~Leaves(entries, i)}

\* The archive is open: what it holds stays readable although its name goes.
Opened == Inside[reader]

\* Mutant of WriteEntry: what is there already is not written again.
WriteEntryOnce ==
  /\ pc = "extract" /\ next \in Written(Opened)
  /\ PathOf(Opened, next) # archive
  /\ files' = IF PathOf(Opened, next) \in DOMAIN files THEN files
              ELSE Put(PathOf(Opened, next), Opened[next].data)
  /\ present' = TRUE
  /\ next' = next + 1
  /\ UNCHANGED <<upload, deleted, builds, pc, archive, reader, shipped>>

\* One entry.  MkdirAll makes the directories it needs, a deleted one too.
WriteEntry ==
  /\ pc = "extract" /\ next \in Written(Opened)
  /\ PathOf(Opened, next) # archive
  /\ files' = Put(PathOf(Opened, next), Opened[next].data)
  /\ present' = TRUE
  /\ next' = next + 1
  /\ UNCHANGED <<upload, deleted, builds, pc, archive, reader, shipped>>

\* Mutant of TearEntry: it is copied to another name first, which stays.
TearEntryAside ==
  /\ pc = "extract" /\ next \in Written(Opened)
  /\ files' = Put(<<"tmp">>, Torn)
  /\ present' = TRUE
  /\ Stop
  /\ UNCHANGED <<upload, deleted, builds, shipped>>

\* The copy is cut short: always, when the entry is the archive being read.
TearEntry ==
  /\ pc = "extract" /\ next \in Written(Opened)
  /\ files' = Put(PathOf(Opened, next), Torn)
  /\ present' = TRUE
  /\ Stop
  /\ UNCHANGED <<upload, deleted, builds, shipped>>

SkipEntry ==
  /\ pc = "extract" /\ next \in DOMAIN Opened \ Written(Opened)
  /\ next' = next + 1
  /\ UNCHANGED <<upload, files, present, deleted, builds, pc, archive, reader, shipped>>

Extracted ==
  /\ pc = "extract" /\ next > Len(Opened)
  /\ pc' = "dockerfile"
  /\ UNCHANGED <<upload, files, present, deleted, builds, archive, reader, next, shipped>>

\* Mutant of WriteDockerfile: the directory is made when it is missing.
WriteDockerfileAnywhere ==
  /\ pc = "dockerfile"
  /\ files' = IF Dockerfile \in DOMAIN files THEN files ELSE Put(Dockerfile, Generated)
  /\ present' = TRUE
  /\ pc' = "tar"
  /\ UNCHANGED <<upload, deleted, builds, archive, reader, next, shipped>>

\* A Dockerfile is generated when there is none.
WriteDockerfile ==
  /\ pc = "dockerfile" /\ present
  /\ files' = IF Dockerfile \in DOMAIN files THEN files ELSE Put(Dockerfile, Generated)
  /\ pc' = "tar"
  /\ UNCHANGED <<upload, present, deleted, builds, archive, reader, next, shipped>>

TearDockerfile ==
  /\ pc = "dockerfile" /\ present /\ Dockerfile \notin DOMAIN files
  /\ files' = Put(Dockerfile, Torn)
  /\ Stop
  /\ UNCHANGED <<upload, present, deleted, builds, shipped>>

\* createTarContext, and ImageBuild gets the result.
Ship ==
  /\ pc = "tar" /\ present
  /\ shipped' = files
  /\ Stop
  /\ UNCHANGED <<upload, files, present, deleted, builds>>

Next ==
  \/ \E u \in Upload : Create(u) \/ CreateFails(u)
  \/ Delete
  \/ Build \/ Fail
  \/ FindArchive \/ NoArchive
  \/ WriteEntry \/ TearEntry \/ SkipEntry \/ Extracted
  \/ WriteDockerfile \/ TearDockerfile
  \/ Ship

Spec == Init /\ [][Next]_vars

-----------------------------------------------------------------------------
Contents == {u.data : u \in Upload} \cup {Torn, Generated}
  \cup UNION {{Inside[d][i].data : i \in DOMAIN Inside[d]} : d \in DOMAIN Inside}

\* A build only works on a submission, and what it ships are contents of the
\* upload, of its archives, or its own.
TypeOK ==
  /\ upload \in Upload \cup {NoUpload}
  /\ Range(files) \subseteq Contents
  /\ present \in BOOLEAN /\ (files # Empty => present)
  /\ deleted \in BOOLEAN
  /\ builds \in 0 .. 2
  /\ pc \in {"idle", "find", "extract", "dockerfile", "tar"}
  /\ pc # "idle" => upload # NoUpload
  /\ pc = "extract" => reader \in DOMAIN Inside /\ next \in 1 .. Len(Opened) + 1
  /\ shipped = NoTree \/ Range(shipped) \subseteq Contents

\* What the upload should become: its last entry of every path, or itself, as
\* an archive does that is not named one.  A folder that was zipped as a whole
\* is its contents.
Zips == {<<ZipNames[i]>> : i \in DOMAIN ZipNames}
Entries ==
  IF upload.path \in Zips /\ upload.data \in DOMAIN Inside THEN Inside[upload.data] ELSE << >>
Tops == {e.top : e \in Range(Entries)}
Place(e) == IF e.top = "" \/ Tops = {e.top} THEN <<e.path>> ELSE <<e.top, e.path>>
Kept == {i \in DOMAIN Entries : Entries[i].top = ".." => Tops = {".."}}
Sources == {Place(Entries[i]) : i \in Kept}
SourceAt(p) == Entries[CHOOSE i \in Kept :
  /\ Place(Entries[i]) = p
  /\ \A j \in Kept : Place(Entries[j]) = p => j <= i].data

\* An entry that is itself a .zip of the directory's top: the next build may
\* extract that one.
Plain == Sources \cap Zips = {}

\* Whatever builds failed or died half-way before, a build ships every source
\* of the upload, whole and in its last version, the submission's own
\* Dockerfile among them.  An upload with archives among its sources can count
\* on that for its first build only.
SourcesIntact ==
  shipped # NoTree /\ ~deleted /\ (Plain \/ builds = 1) =>
    \A p \in Sources : p \in DOMAIN shipped /\ shipped[p] = SourceAt(p)

\* Nothing else is shipped, but for the upload itself and the Dockerfile, and a
\* Dockerfile that the submission does not bring is the generated one, or what
\* an earlier build left of it.
NothingElse == shipped # NoTree /\ ~deleted /\ Plain =>
  /\ DOMAIN shipped = Sources \cup {upload.path, Dockerfile}
  /\ shipped[upload.path] = upload.data
  /\ Dockerfile \notin Sources => shipped[Dockerfile] \in {Generated, Torn}

\* What the three rest on.  The entries the extraction has passed are in the
\* directory, each path with the last of them,
LastBefore(n, k) == k \in Kept /\ k < n /\
  \A j \in Kept : j < n /\ Place(Entries[j]) = Place(Entries[k]) => j <= k
Laid(n) == \A i \in Kept : i < n =>
  \E k \in Kept :
    /\ LastBefore(n, k)
    /\ Place(Entries[k]) = Place(Entries[i])
    /\ Place(Entries[i]) \in DOMAIN files
    /\ files[Place(Entries[i])] = Entries[k].data

\* and at its end the sources are, on top of whatever an earlier build left.
AllLaid == \A p \in Sources : p \in DOMAIN files /\ files[p] = SourceAt(p)

BuildInv ==
  /\ pc = "find" /\ builds = 1 => DOMAIN files = {upload.path} /\ files[upload.path] = upload.data
  /\ pc = "extract" => archive = upload.path /\ archive \in Zips /\ reader = upload.data /\ Laid(next)
  /\ pc \in {"dockerfile", "tar"} => AllLaid

DirectoryInv ==
  /\ present /\ upload.path \in DOMAIN files
  /\ builds = 0 => DOMAIN files = {upload.path} /\ files[upload.path] = upload.data
  /\ Plain =>
       /\ files[upload.path] = upload.data
       /\ DOMAIN files \subseteq Sources \cup {upload.path, Dockerfile}
       /\ Dockerfile \in DOMAIN files \ Sources => files[Dockerfile] \in {Generated, Torn}
       /\ pc = "tar" => Dockerfile \in DOMAIN files
  /\ Plain \/ builds = 1 => BuildInv

FilesInv ==
  /\ upload = NoUpload => ~deleted /\ builds = 0
  /\ upload # NoUpload => upload.path # Dockerfile
  /\ builds = 0 => pc = "idle" /\ shipped = NoTree
  /\ upload # NoUpload /\ ~deleted => DirectoryInv

\* Only a build that was extracting when the submission was deleted brings its
\* directory back: one that is past that fails instead.
StaysDeleted == [][deleted /\ ~present => (present' => pc = "extract")]_vars

=============================================================================
