--------------------------- MODULE MCCloudAccounts ---------------------------
(* Instances of CloudAccounts for TLC. *)
EXTENDS CloudAccounts, TLC

CONSTANTS c1, docs, a, x, y

OneClient == {c1}
TwoWords == {docs, a}

\* One of them looks like the path of a file a in a folder docs.
ThreeTitles == {<<docs>>, <<a>>, <<docs, a>>}

\* A rename gives a file the title with the slash, or a plain one.
TwoTitles == {<<docs, a>>, <<a>>}

\* A folder with a file, and a local file of the same name.
FolderAndFile == 1 :> [parent |-> Root, title |-> <<docs>>, folder |-> TRUE, content |-> "none"]
              @@ 2 :> [parent |-> 1, title |-> <<a>>, folder |-> FALSE, content |-> x]
LocalFile == a :> y

\* The folder's name begins with the file's.
FolderExtendsFile == {<<docs, a>>}
=============================================================================
