------------------------------- MODULE PathTree -------------------------------
(***************************************************************************)
(* Directories as functions from paths to what is found there, and what    *)
(* the file operations of boost and of utils/file_util.cc do to them.  The *)
(* directory itself, "." in ParentOf, is always there.                     *)
(***************************************************************************)
CONSTANTS
  Paths,      \* the paths considered
  ParentOf    \* the directory that holds each of them

ASSUME PathAssumption == ParentOf \in [Paths -> Paths \cup {"."}] /\ "." \notin Paths

\* A file of the old version or of the new one, the difference between the two,
\* a file that was not written to its end, a symbolic link, a directory.
Contents == {"none", "dir", "old", "new", "diff", "torn", "link"}
Trees == [Paths -> Contents]
NoPaths == [p \in Paths |-> "none"]

Above[p \in Paths] ==
  IF ParentOf[p] = "." THEN {} ELSE {ParentOf[p]} \cup Above[ParentOf[p]]
WellFormed(t) == \A p \in Paths : t[p] # "none" => \A q \in Above[p] : t[q] = "dir"

There(t, p) == t[p] # "none"
IsDir(t, p) == t[p] = "dir"
IsFile(t, p) == t[p] \notin {"none", "dir", "link"}
ParentThere(t, p) == \A q \in Above[p] : IsDir(t, q)
HasChildren(t, p) == \E q \in Paths : p \in Above[q] /\ There(t, q)

\* create_directories()
CanMakeDirs(t, dirs) == \A q \in dirs : t[q] \in {"none", "dir"}
MakeDirs(t, dirs) == [q \in Paths |-> IF q \in dirs THEN "dir" ELSE t[q]]

\* copy_file() and CopyFile() with overwrite_if_exists
CanCopyOver(src, t, p) == IsFile(src, p) /\ ~IsDir(t, p) /\ ParentThere(t, p)

\* remove() is content with a path that is not there.
CanRemove(t, p) == ~HasChildren(t, p)
Without(t, gone) ==
  [q \in Paths |-> IF q \in gone \/ Above[q] \cap gone # {} THEN "none" ELSE t[q]]
===============================================================================
