------------------------- MODULE MCPackageModification ------------------------
(* Small packages: a file, a directory with a file, and what an installed package
   has besides. *)
EXTENDS PackageModification
MCParent == [p \in {"f", "d", "d/x", "bin", "bin/link", "data", "icon", ".mmc"} |->
               CASE p = "d/x" -> "d" [] p = "bin/link" -> "bin" [] OTHER -> "."]
MCPaths == DOMAIN MCParent
Tree(f, d, x, bin, link, extra) ==
  [p \in MCPaths |->
     CASE p = "f" -> f [] p = "d" -> d [] p = "d/x" -> x [] p = "bin" -> bin
       [] p = "bin/link" -> link [] OTHER -> extra]
Dirs(file) == {<<"none", "none">>, <<"dir", "none">>, <<"dir", file>>, <<file, "none">>}
MCInstalled ==
  {Tree(f, d[1], d[2], b[1], b[2], b[3]) :
     f \in {"none", "old"}, d \in Dirs("old"),
     b \in {<<"dir", "link", "dir">>, <<"none", "none", "none">>}}
New(f, d) == Tree(f, d[1], d[2], "none", "none", "none")
MCRdsContents == {New(f, d) : f \in {"none", "new"}, d \in Dirs("new") \ {<<"dir", "none">>}}
MCDeltaContents ==
  {New(f, d) : f \in {"none", "new", "diff"}, d \in Dirs("new") \cup {<<"dir", "diff">>}}
===============================================================================
