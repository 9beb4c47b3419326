------------------------------- MODULE FileTree -------------------------------
(***************************************************************************)
(* Directory trees of a package, and what the helpers of                   *)
(* utils/file_util.cc do to them.  A tree maps "." (the directory itself)  *)
(* and the entries a package has at its top level to the set of what is    *)
(* found there: {} for an entry that does not exist, Dot for an existing   *)
(* directory, and <<name, version>> for a file.                            *)
(***************************************************************************)
CONSTANT CodeEntries   \* top-level entries of a package besides the named ones

StorageKeys == {"data", "shared"}
CodeLike == CodeEntries \cup {"manifest"}
Entries == CodeLike \cup StorageKeys
Nodes == Entries \cup {"."}

Dot == <<"dir", 0>>
Missing == [n \in Nodes |-> {}]
EmptyDir == [Missing EXCEPT !["."] = {Dot}]

Exists(t) == t["."] # {}
Has(t, e) == t[e] # {}
IsEmpty(t) == \A e \in Entries : ~Has(t, e)
Put(t, e, files) == [t EXCEPT ![e] = files]
Drop(t, e) == Put(t, e, {})

Names(files) == {f[1] : f \in files}

\* CopyDir() with FS_MERGE_DIRECTORIES: a file whose name is taken is skipped.
Merge(dst, src) == dst \cup {f \in src : f[1] \notin Names(dst)}

\* rename() onto an absent or empty directory; otherwise MoveDir() falls back
\* on copying, which merges.
MoveTree(src, dst) ==
  IF IsEmpty(dst) THEN src ELSE [n \in Nodes |-> Merge(dst[n], src[n])]

\* What a copy that stops half way may have added to dst.
CopyCut(dst, src) == {dst \cup part : part \in SUBSET (Merge(dst, src) \ dst)}

\* What a remove_all() that stops half way may have left.
RemoveCut(t) == {[n \in Nodes |-> IF n \in kept \cup {"."} THEN t[n] ELSE {}] :
                   kept \in SUBSET Entries}
===============================================================================
