--------------------------- MODULE MCFileTransfers ---------------------------
(* Instances of FileTransfers for TLC.                                     *)
EXTENDS FileTransfers, TLC

CONSTANTS w1, w2, n1, n2, x, y

TwoWorkers == {w1, w2}
TwoNames == {n1, n2}
TwoContents == {x, y}

\* The file system with these entries and no others.
holding(entries) ==
  [p \in Paths |-> IF p = Root THEN Dir
                   ELSE IF \E e \in entries : e[1] = p
                        THEN (CHOOSE e \in entries : e[1] = p)[2] ELSE Absent]

\* The source <<n1>> is a directory or a file; the destination <<n2>> is a
\* directory that is empty, holds a tree to merge with or holds something of
\* the other kind, or it is a file.
SomeTrees ==
  {holding({<<<<n1>>, Dir>>, <<<<n1, n1>>, x>>, <<<<n2>>, Dir>>}),
   holding({<<<<n1>>, Dir>>, <<<<n1, n1>>, x>>, <<<<n1, n2>>, Dir>>,
            <<<<n2>>, Dir>>, <<<<n2, n1>>, Dir>>, <<<<n2, n1, n1>>, y>>}),
   holding({<<<<n1>>, Dir>>, <<<<n2>>, Dir>>, <<<<n2, n1>>, y>>}),
   holding({<<<<n1>>, x>>, <<<<n2>>, Dir>>}),
   holding({<<<<n1>>, x>>, <<<<n2>>, Dir>>, <<<<n2, n1>>, Dir>>}),
   holding({<<<<n1>>, x>>, <<<<n2>>, y>>})}

transfers(op, src, dest, overwrite) ==
  [op : op, src : src, dest : dest, overwrite : overwrite]

\* Copies and moves of n1 into n2 and into itself, of n2/n1 back to the root;
\* removals and renamings of what they read and write; a missing destination
\* and a bad name.
SomeJobs ==
  transfers({"copy", "move"}, {<<n1>>}, {<<n2>>}, BOOLEAN)
  \cup transfers({"move"}, {<<n1>>}, {<<n1>>}, {FALSE})
  \cup transfers({"move"}, {<<n2, n1>>}, {Root}, {FALSE, TRUE})
  \cup transfers({"copy"}, {<<n1>>}, {<<n2, n2>>}, {FALSE})
  \cup [op : {"remove"}, src : {<<n1>>, <<n2, n1>>}]
  \cup [op : {"rename"}, src : {<<n2>>}, newName : {n1, BadName}]
  \cup [op : {"rename"}, src : {<<n1>>}, newName : {n2}]
=============================================================================
