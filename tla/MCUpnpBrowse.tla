---------------------------- MODULE MCUpnpBrowse ----------------------------
(* Instances of UpnpBrowse for TLC.                                        *)
EXTENDS UpnpBrowse, TLC

CONSTANTS s1, s2, a, b, ab, host

TwoServers == {s1, s2}

\* The ids of the second server are "1", "1$2" and one that is no number.
MixedNumbers == s1 :> [c \in Ids |-> c] @@ s2 :> [c \in Ids |-> IF c = 3 THEN 0 ELSE 1]
MixedUnreadable == s1 :> {} @@ s2 :> {3}

TwoTitles == {a, b}
FourWords == {a, b, ab, host}

\* The words of one character are gone without it.
FirstCharacterLost == a :> Empty @@ b :> Empty @@ ab :> b @@ host :> ab

\* Paths of one name and of two, with two slashes in a row before a word of
\* two characters or of one, with three slashes, with one at the end; a text
\* without a slash; and the description's URL, which is the path when the
\* client of getProperties gives none.
SomePaths == {<<a>>, <<a, b>>, <<a, Empty, ab>>, <<a, Empty, b>>,
              <<a, Empty, Empty, b>>, <<a, Empty>>, <<>>, <<Empty, host, a>>}

\* Every tree of the first server; of the second one the folder a, its folder b,
\* and an object with unreadable numbers in the root, in the first folder or in
\* the second.
Folder == [parent |-> Root, title |-> a]
SubFolder == [parent |-> 1, title |-> b]
SomeTrees ==
  s1 :> {t \in [Ids -> Objects] : wellFounded(t)} @@
  s2 :> {<<Folder, SubFolder, third>> :
           third \in {Absent} \cup [parent : {Root, 1, 2}, title : {a}]}
=============================================================================
