--------------------------- MODULE MCSubmissionFiles ---------------------------
(* Instances of SubmissionFiles for TLC.                                      *)
EXTENDS SubmissionFiles

File(top, path, data) == [top |-> top, path |-> path, data |-> data]

\* A zipped folder; its contents; a folder zipped on a Mac; one with an entry
\* written twice and one that leaves the directory; one with archives inside.
MCInside == [
  folder |-> <<File("proj", "Dockerfile", "own"), File("proj", "main", "m1")>>,
  flat   |-> <<File("", "main", "m1"), File("", "main", "m2"), File("..", "main", "m3")>>,
  mac    |-> <<File("proj", "Dockerfile", "own"), File("__MACOSX", "main", "m2")>>,
  nested |-> <<File("", "a.zip", "data"), File("", "main", "m1")>>,
  self   |-> <<File("", "main", "m1"), File("", "sub.zip", "data"), File("", "more", "m3")>>,
  data   |-> <<File("", "main", "m4")>>]

Zip(language, data) ==
  [language |-> language, ext |-> ".zip", size |-> 1, path |-> <<"sub.zip">>, data |-> data]
Single(language, ext, size) ==
  [language |-> language, ext |-> ext, size |-> size, path |-> <<"main">>, data |-> "m1"]

MCUpload ==
  {Zip("cpp", d) : d \in DOMAIN MCInside} \cup
  {Single("cpp", ".cc", 1), Single("python", ".py", 2), Single("go", ".gz", 1)} \cup
  {[Single("rust", ".rs", 1) EXCEPT !.data = "folder"]}

MCZipNames == <<"a.zip", "sub.zip">>
=============================================================================
