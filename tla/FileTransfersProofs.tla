------------------------- MODULE FileTransfersProofs -------------------------
(***************************************************************************)
(* Proofs about FileTransfers, for any number of workers, names, requests  *)
(* and starting trees, and any limit on the length of a path.              *)
(*                                                                         *)
(* The type invariant is inductive, because it ties the call a worker is   *)
(* about to make to the kind of its job, and the entries a copy still has  *)
(* to do to its source and destination; the file system stays a tree.      *)
(* What a worker that is alone answers is proved from two invariants that  *)
(* follow its request from call to call: QuietInv for the refusals and     *)
(* ExactInv for the successes.                                             *)
(***************************************************************************)
EXTENDS FileTransfers, SequenceTheorems, NaturalsInduction, WellFoundedInduction,
        TLAPS

-----------------------------------------------------------------------------
(* Paths.                                                                  *)

LEMMA PathIsSeq ==
  ASSUME NEW p \in Paths
  PROVE  p \in Seq(Names) /\ Len(p) \in 0..Depth
  BY BoundsAssumption DEF Paths

LEMMA SeqIsPath ==
  ASSUME NEW p \in Seq(Names), Len(p) <= Depth
  PROVE  p \in Paths
  <1>1. p \in [1..Len(p) -> Names] /\ Len(p) \in Nat
    OBVIOUS
  <1>2. Len(p) \in 0..Depth
    BY BoundsAssumption
  <1> QED
    BY <1>1, <1>2 DEF Paths

LEMMA RootIsPath == Root \in Paths
  <1>1. Root \in Seq(Names) /\ Len(Root) = 0
    BY DEF Root
  <1>2. Len(Root) <= Depth
    BY <1>1, BoundsAssumption
  <1> QED
    BY <1>1, <1>2, SeqIsPath

\* The path without its last name.
LEMMA FrontFacts ==
  ASSUME NEW s \in Seq(Names), NEW n \in Nat, n <= Len(s)
  PROVE  /\ SubSeq(s, 1, n) \in Seq(Names)
         /\ Len(SubSeq(s, 1, n)) = n
         /\ \A i \in 1..n : SubSeq(s, 1, n)[i] = s[i]
  <1>1. SubSeq(s, 1, n) \in Seq(Names)
    OBVIOUS
  <1>2. Len(SubSeq(s, 1, n)) = n
    OBVIOUS
  <1>3. \A i \in 1..n : SubSeq(s, 1, n)[i] = s[i]
    OBVIOUS
  <1> QED
    BY <1>1, <1>2, <1>3, Zenon

\* A path is its parent and its last name.
LEMMA ParentFacts ==
  ASSUME NEW p \in Paths, p # Root
  PROVE  /\ parent(p) \in Paths
         /\ Len(parent(p)) = Len(p) - 1
         /\ \A i \in 1..(Len(p) - 1) : parent(p)[i] = p[i]
         /\ last(p) \in Names
         /\ p = Append(parent(p), last(p))
  <1>1. p \in Seq(Names) /\ Len(p) \in 0..Depth
    BY PathIsSeq
  <1>2. Len(p) > 0
    BY <1>1 DEF Root
  <1>3. /\ parent(p) \in Seq(Names)
        /\ Len(parent(p)) = Len(p) - 1
        /\ \A i \in 1..(Len(p) - 1) : parent(p)[i] = p[i]
    <2>1. Len(p) - 1 \in Nat /\ Len(p) - 1 <= Len(p)
      BY <1>1, <1>2, BoundsAssumption
    <2> QED
      BY <1>1, <2>1, FrontFacts, Zenon DEF parent
  <1>4. parent(p) \in Paths
    BY <1>1, <1>2, <1>3, SeqIsPath, BoundsAssumption
  <1>5. last(p) \in Names
    BY <1>1, <1>2 DEF last
  <1>6. p = Append(parent(p), last(p))
    <2> DEFINE q == Append(parent(p), last(p))
    <2>1. /\ q \in Seq(Names) /\ Len(q) = Len(p)
          /\ \A i \in 1..Len(p) : q[i] = p[i]
      BY <1>1, <1>2, <1>3, <1>5, AppendProperties DEF last
    <2> QED
      BY <1>1, <2>1, SeqEqual
  <1> QED
    BY <1>3, <1>4, <1>5, <1>6

\* One name more, and back.
LEMMA ChildFacts ==
  ASSUME NEW p \in Seq(Names), NEW n \in Names
  PROVE  /\ Append(p, n) \in Seq(Names)
         /\ Len(Append(p, n)) = Len(p) + 1
         /\ last(Append(p, n)) = n
         /\ Append(p, n) # Root
         /\ \A i \in 1..Len(p) : Append(p, n)[i] = p[i]
         /\ Append(p, n) \in Paths => p \in Paths /\ parent(Append(p, n)) = p
  <1>1. /\ Append(p, n) \in Seq(Names)
        /\ Len(Append(p, n)) = Len(p) + 1
        /\ last(Append(p, n)) = n
        /\ \A i \in 1..Len(p) : Append(p, n)[i] = p[i]
    BY DEF last
  <1>2. Append(p, n) # Root
    BY AppendProperties DEF Root
  <1>3. ASSUME Append(p, n) \in Paths PROVE p \in Paths
    <2>1. Len(Append(p, n)) \in 0..Depth
      BY <1>3, PathIsSeq
    <2>2. Len(p) <= Depth
      BY <1>1, <2>1, BoundsAssumption
    <2> QED
      BY <2>2, SeqIsPath
  <1>4. parent(Append(p, n)) = p
    <2> DEFINE q == parent(Append(p, n))
    <2>1. q \in Seq(Names) /\ Len(q) = Len(p) /\ \A i \in 1..Len(p) : q[i] = p[i]
      BY <1>1, FrontFacts DEF parent
    <2> QED
      BY <2>1, SeqEqual
  <1> QED
    BY <1>1, <1>2, <1>3, <1>4

\* A child is where its parent is.
LEMMA UnderChild ==
  ASSUME NEW p \in Seq(Names), NEW q \in Seq(Names), NEW n \in Names,
         under(q, p)
  PROVE  under(Append(q, n), p)
  BY DEF under

\* The paths of a job are paths; a transfer's target is in its destination.
LEMMA JobFacts ==
  ASSUME NEW j \in Jobs
  PROVE  /\ j.op \in {"copy", "move", "remove", "rename"}
         /\ j.src \in Paths /\ j.src # Root
         /\ j.op \in {"copy", "move"} =>
              /\ j.dest \in Paths /\ j.overwrite \in BOOLEAN
              /\ desPath(j) \in Seq(Names)
              /\ Len(desPath(j)) = Len(j.dest) + 1
              /\ desPath(j) # Root
              /\ under(desPath(j), j.dest) /\ under(j.dest, j.dest)
         /\ under(j.src, j.src)
         /\ j.op = "rename" => j.newName \in Names \cup {BadName}
  <1>1. j \in JobType
    BY JobsAssumption
  <1>2. j.src \in Paths /\ j.src # Root
    BY <1>1 DEF JobType
  <1>3. under(j.src, j.src)
    BY <1>2, PathIsSeq, BoundsAssumption DEF under
  <1>4. j.op = "rename" => j.newName \in Names \cup {BadName}
    BY <1>1 DEF JobType
  <1>5. ASSUME j.op \in {"copy", "move"}
        PROVE  /\ j.dest \in Paths /\ j.overwrite \in BOOLEAN
               /\ desPath(j) \in Seq(Names)
               /\ Len(desPath(j)) = Len(j.dest) + 1
               /\ desPath(j) # Root
               /\ under(desPath(j), j.dest) /\ under(j.dest, j.dest)
    <2>1. j.dest \in Paths /\ j.overwrite \in BOOLEAN
      BY <1>1, <1>5 DEF JobType
    <2>2. j.dest \in Seq(Names) /\ last(j.src) \in Names
      BY <1>2, <2>1, PathIsSeq, ParentFacts
    <2>3. /\ desPath(j) \in Seq(Names) /\ Len(desPath(j)) = Len(j.dest) + 1
          /\ desPath(j) # Root
          /\ \A i \in 1..Len(j.dest) : desPath(j)[i] = j.dest[i]
      BY <2>2, ChildFacts DEF desPath
    <2>4. Len(j.dest) \in Nat
      BY <2>2
    <2> QED
      BY <2>1, <2>3, <2>4 DEF under
  <1>6. j.op \in {"copy", "move", "remove", "rename"}
    BY <1>1 DEF JobType
  <1> QED
    BY <1>2, <1>3, <1>4, <1>5, <1>6

\* An entry of a copy leads to paths below the source and the destination.
LEMMA EntryFacts ==
  ASSUME TypeOK, NEW w \in Workers, NEW e \in nextEntries(w)
  PROVE  /\ pc[w] = "copy" /\ job[w] \in Jobs
         /\ job[w].op \in {"copy", "move"}
         /\ e \in todo[w] /\ e[1] \in Paths /\ e[2] \in Seq(Names)
         /\ under(e[1], job[w].src) /\ under(e[2], job[w].dest)
         /\ targetOf(e) \in Seq(Names) /\ under(targetOf(e), job[w].dest)
  <1>1. pc[w] = "copy" /\ e \in todo[w]
    BY DEF nextEntries
  <1>2. /\ job[w] \in Jobs /\ job[w].op \in {"copy", "move"}
        /\ under(e[1], job[w].src) /\ under(e[2], job[w].dest)
    BY <1>1 DEF TypeOK
  <1>3. e[1] \in Paths /\ e[2] \in Seq(Names)
    BY <1>1 DEF TypeOK
  <1>4. e[1] # Root
    BY <1>2, <1>3, JobFacts, PathIsSeq DEF under, Root
  <1>5. last(e[1]) \in Names
    BY <1>3, <1>4, ParentFacts
  <1>6. job[w].dest \in Seq(Names)
    BY <1>2, JobFacts, PathIsSeq
  <1>7. targetOf(e) \in Seq(Names) /\ under(targetOf(e), job[w].dest)
    BY <1>2, <1>3, <1>5, <1>6, UnderChild, ChildFacts DEF targetOf
  <1> QED
    BY <1>1, <1>2, <1>3, <1>7

-----------------------------------------------------------------------------
(* A tree stays a tree.                                                    *)

\* Something is put at p: a directory, or something where no directory was.
LEMMA TreeWith ==
  ASSUME NEW t \in [Paths -> Held], isTree(t), NEW v \in Held \ {Absent},
         NEW p \in Paths, p # Root, t[parent(p)] = Dir, v = Dir \/ t[p] # Dir
  PROVE  isTree([t EXCEPT ![p] = v])
  <1> DEFINE u == [t EXCEPT ![p] = v]
  <1>1. Root \in Paths
    BY RootIsPath
  <1>2. u[Root] = Dir
    BY <1>1 DEF isTree
  <1>3. ASSUME NEW q \in Paths \ {Root}, u[q] # Absent
        PROVE  u[parent(q)] = Dir
    <2>1. parent(q) \in Paths /\ Len(parent(q)) = Len(q) - 1 /\ Len(q) \in Nat
      BY ParentFacts, PathIsSeq, BoundsAssumption
    <2>2. CASE q = p
      <3>1. parent(p) # p
        BY <2>1, <2>2
      <3> QED
        BY <2>1, <2>2, <3>1
    <2>3. CASE q # p
      <3>1. t[parent(q)] = Dir
        BY <1>3, <2>3 DEF isTree
      <3> QED
        BY <2>1, <3>1
    <2> QED
      BY <2>2, <2>3
  <1> QED
    BY <1>2, <1>3 DEF isTree

\* A leaf goes.
LEMMA TreeWithout ==
  ASSUME NEW t \in [Paths -> Held], isTree(t),
         NEW p \in Paths, p # Root, entriesOf(t, p) = {}
  PROVE  isTree([t EXCEPT ![p] = Absent])
  <1> DEFINE u == [t EXCEPT ![p] = Absent]
  <1>1. Root \in Paths
    BY RootIsPath
  <1>2. u[Root] = Dir
    BY <1>1 DEF isTree
  <1>3. ASSUME NEW q \in Paths \ {Root}, u[q] # Absent
        PROVE  u[parent(q)] = Dir
    <2>1. q # p /\ t[q] # Absent
      BY <1>3
    <2>2. /\ parent(q) \in Paths /\ last(q) \in Names
          /\ q = Append(parent(q), last(q))
      BY ParentFacts
    <2>3. t[parent(q)] = Dir
      BY <2>1 DEF isTree
    <2>4. parent(q) # p
      BY <2>1, <2>2 DEF entriesOf
    <2> QED
      BY <2>2, <2>3, <2>4
  <1> QED
    BY <1>2, <1>3 DEF isTree

\* create_directories: a path is filled with directories from the root down.
LEMMA TreeDirectories ==
  ASSUME NEW t \in [Paths -> Held], isTree(t), NEW d \in Paths,
         \A p \in Paths : under(d, p) => ~isFile(t[p])
  PROVE  isTree([p \in Paths |-> IF under(d, p) THEN Dir ELSE t[p]])
  <1> DEFINE u == [p \in Paths |-> IF under(d, p) THEN Dir ELSE t[p]]
  <1>1. Root \in Paths
    BY RootIsPath
  <1>2. u[Root] = Dir
    BY <1>1 DEF isTree
  <1>3. ASSUME NEW q \in Paths \ {Root}, u[q] # Absent
        PROVE  u[parent(q)] = Dir
    <2>1. /\ parent(q) \in Paths /\ Len(parent(q)) = Len(q) - 1 /\ Len(q) \in Nat
          /\ \A i \in 1..(Len(q) - 1) : parent(q)[i] = q[i]
      BY ParentFacts, PathIsSeq, BoundsAssumption
    <2>2. CASE under(d, q)
      <3>1. under(d, parent(q))
        BY <2>1, <2>2, PathIsSeq, BoundsAssumption DEF under
      <3> QED
        BY <2>1, <3>1
    <2>3. CASE ~under(d, q)
      <3>1. t[q] # Absent
        BY <1>3, <2>3
      <3>2. t[parent(q)] = Dir
        BY <3>1 DEF isTree
      <3> QED
        BY <2>1, <3>2
    <2> QED
      BY <2>2, <2>3
  <1> QED
    BY <1>2, <1>3 DEF isTree

\* rename(2): what was below s is below its sibling t.
LEMMA TreeRenamed ==
  ASSUME NEW t \in [Paths -> Held], isTree(t), NEW s \in Paths, s # Root,
         t[s] # Absent, NEW n \in Names
  PROVE  isTree(renamedTree(t, s, Append(parent(s), n)))
  <1> DEFINE g == Append(parent(s), n)
             u == renamedTree(t, s, g)
             m(p) == [p EXCEPT ![Len(s)] = last(s)]
  <1>1. Root \in Paths
    BY RootIsPath
  <1>2. /\ s \in Seq(Names) /\ Len(s) \in Nat /\ Len(s) > 0 /\ Len(s) <= Depth
        /\ parent(s) \in Paths /\ Len(parent(s)) = Len(s) - 1
        /\ \A i \in 1..(Len(s) - 1) : parent(s)[i] = s[i]
        /\ last(s) \in Names /\ t[parent(s)] = Dir
    <2>1. s \in Seq(Names) /\ Len(s) \in Nat /\ Len(s) > 0 /\ Len(s) <= Depth
      BY PathIsSeq, BoundsAssumption DEF Root
    <2> QED
      BY <2>1, ParentFacts DEF isTree
  <1>3. /\ g \in Seq(Names) /\ Len(g) = Len(s)
        /\ \A i \in 1..(Len(s) - 1) : g[i] = s[i]
    BY <1>2, ChildFacts, PathIsSeq
  <1>4. g \in Paths
    BY <1>2, <1>3, SeqIsPath
  <1>5. ASSUME NEW p \in Paths, under(p, g)
        PROVE  /\ m(p) \in Paths /\ Len(m(p)) = Len(p) /\ under(m(p), s)
               /\ \A i \in 1..Len(p) : m(p)[i] = IF i = Len(s) THEN last(s) ELSE p[i]
    <2>1. p \in Seq(Names) /\ Len(p) \in Nat /\ Len(s) <= Len(p)
      BY <1>3, <1>5, PathIsSeq, BoundsAssumption DEF under
    <2>2. /\ m(p) \in Paths /\ Len(m(p)) = Len(p)
          /\ \A i \in 1..Len(p) : m(p)[i] = IF i = Len(s) THEN last(s) ELSE p[i]
      <3>1. m(p) \in Seq(Names) /\ Len(m(p)) = Len(p)
        BY <1>2, <2>1
      <3>2. m(p) \in Paths
        <4>1. Len(m(p)) <= Depth
          BY <3>1, PathIsSeq, BoundsAssumption
        <4> HIDE DEF m
        <4> QED
          BY <3>1, <4>1, SeqIsPath
      <3>3. ASSUME NEW i \in 1..Len(p)
            PROVE  m(p)[i] = IF i = Len(s) THEN last(s) ELSE p[i]
        BY <1>2, <2>1
      <3> QED
        BY <3>1, <3>2, <3>3
    <2>3. under(m(p), s)
      BY <1>2, <1>3, <1>5, <2>1, <2>2 DEF under, last
    <2> QED
      BY <2>2, <2>3
  <1>6. u[Root] = Dir
    BY <1>1, <1>2, <1>3 DEF isTree, renamedTree, under, Root
  <1>7. ASSUME NEW q \in Paths \ {Root}, u[q] # Absent
        PROVE  u[parent(q)] = Dir
    <2>1. /\ parent(q) \in Paths /\ Len(parent(q)) = Len(q) - 1
          /\ Len(q) \in Nat /\ Len(q) > 0
          /\ \A i \in 1..(Len(q) - 1) : parent(q)[i] = q[i]
      BY ParentFacts, PathIsSeq, BoundsAssumption DEF Root
    <2>2. CASE q = g
      <3>1. parent(q) = parent(s)
        BY <1>2, <2>2, ChildFacts, PathIsSeq, <1>4
      <3>2. ~under(parent(s), g) /\ ~under(parent(s), s)
        BY <1>2, <1>3 DEF under
      <3> QED
        BY <1>2, <3>1, <3>2 DEF renamedTree
    <2>3. CASE under(q, g) /\ q # g
      <3>1. Len(q) > Len(g)
        <4>1. Len(q) >= Len(g) /\ (Len(q) = Len(g) =>
                \A i \in 1..Len(q) : q[i] = g[i])
          BY <1>2, <1>3, <2>1, <2>3 DEF under
        <4>2. Len(q) # Len(g)
          BY <1>3, <2>3, <4>1, SeqEqual, PathIsSeq
        <4> QED
          BY <1>2, <1>3, <2>1, <4>1, <4>2
      <3>2. under(parent(q), g)
        BY <1>2, <1>3, <2>1, <2>3, <3>1 DEF under
      <3>3. t[m(q)] # Absent
        BY <1>7, <2>3 DEF renamedTree
      <3>4. m(q) # Root /\ m(q) \in Paths /\ Len(m(q)) = Len(q)
        <4>1. m(q) \in Paths /\ Len(m(q)) = Len(q)
          BY <1>5, <2>1, <2>3
        <4>2. Len(Root) = 0
          BY DEF Root
        <4> QED
          BY <2>1, <4>1, <4>2
      <3>5. t[parent(m(q))] = Dir
        BY <3>3, <3>4 DEF isTree
      <3>6. parent(m(q)) = m(parent(q))
        <4>1. /\ parent(m(q)) \in Paths /\ Len(parent(m(q))) = Len(q) - 1
              /\ \A i \in 1..(Len(q) - 1) : parent(m(q))[i] = m(q)[i]
          BY <3>4, ParentFacts
        <4>2. /\ m(parent(q)) \in Paths /\ Len(m(parent(q))) = Len(q) - 1
              /\ \A i \in 1..(Len(q) - 1) : m(parent(q))[i] =
                     IF i = Len(s) THEN last(s) ELSE parent(q)[i]
          BY <1>5, <2>1, <3>2
        <4>3. \A i \in 1..(Len(q) - 1) : m(q)[i] =
                IF i = Len(s) THEN last(s) ELSE q[i]
          BY <1>5, <2>1, <2>3
        <4>4. \A i \in 1..(Len(q) - 1) : parent(m(q))[i] = m(parent(q))[i]
          BY <2>1, <4>1, <4>2, <4>3
        <4> HIDE DEF m
        <4> QED
          BY <4>1, <4>2, <4>4, PathIsSeq, SeqEqual
      <3> QED
        BY <2>1, <3>2, <3>5, <3>6 DEF renamedTree
    <2>4. CASE ~under(q, g)
      <3>1. ~under(q, s) /\ t[q] # Absent
        BY <1>7, <2>4 DEF renamedTree
      <3>2. t[parent(q)] = Dir
        BY <3>1 DEF isTree
      <3>3. ~under(parent(q), g) /\ ~under(parent(q), s)
        BY <1>2, <1>3, <2>1, <2>4, <3>1 DEF under
      <3> QED
        BY <2>1, <3>2, <3>3 DEF renamedTree
    <2> QED
      BY <2>2, <2>3, <2>4
  <1> QED
    BY <1>6, <1>7 DEF isTree

\* A call of the copy makes a directory or a file where one can be.
LEMMA CopyKeepsTree ==
  ASSUME TypeOK, NEW e, NEW v \in Held \ {Absent}
  PROVE  /\ takesDir(e[2]) => isTree([files EXCEPT ![e[2]] = Dir])
         /\ takesFile(e) => isTree([files EXCEPT ![targetOf(e)] = v])
  <1>1. files \in [Paths -> Held] /\ isTree(files) /\ files[Root] = Dir
    BY DEF TypeOK, isTree
  <1>2. Dir \in Held \ {Absent}
    BY ValuesAssumption DEF Held
  <1>3. ASSUME takesDir(e[2]) PROVE isTree([files EXCEPT ![e[2]] = Dir])
    <2>1. CASE files[e[2]] = Dir
      <3>1. [files EXCEPT ![e[2]] = Dir] = files
        BY <1>1, <2>1
      <3> QED
        BY <1>1, <3>1
    <2>2. CASE /\ ~exists(e[2]) /\ files[parent(e[2])] = Dir
      <3>1. e[2] \in Paths /\ e[2] # Root
        BY <1>1, <1>3, <2>2, ValuesAssumption DEF takesDir, exists
      <3> QED
        BY <1>1, <1>2, <2>2, <3>1, TreeWith
    <2> QED
      BY <1>3, <2>1, <2>2 DEF takesDir
  <1>4. ASSUME takesFile(e) PROVE isTree([files EXCEPT ![targetOf(e)] = v])
    <2>1. /\ targetOf(e) \in Paths /\ files[parent(targetOf(e))] = Dir
          /\ files[targetOf(e)] # Dir /\ targetOf(e) # Root
      BY <1>1, <1>4 DEF takesFile
    <2> QED
      BY <1>1, <2>1, TreeWith
  <1> QED
    BY <1>3, <1>4

-----------------------------------------------------------------------------
\* What every call of the copy keeps, once its effect on the files is known.
LEMMA CopyKeepsType ==
  ASSUME TypeOK, NEW w \in Workers, pc[w] = "copy",
         files' \in [Paths -> Held], isTree(files'),
         UNCHANGED <<job, ghosts>>,
         \/ afterCopy(w, "SUCCESS") \/ afterCopy(w, "PERMISSION_DENIED")
         \/ \E rest \in SUBSET (Paths \X Seq(Names)) :
              /\ \A e \in rest : /\ under(e[1], job[w].src)
                                 /\ under(e[2], job[w].dest)
              /\ todo' = [todo EXCEPT ![w] = rest] /\ UNCHANGED <<pc, status>>
  PROVE  TypeOK'
  <1>1. job[w] \in Jobs /\ job[w].op \in {"copy", "move"}
    BY DEF TypeOK
  <1>2. ASSUME NEW s \in {"SUCCESS", "PERMISSION_DENIED"}, afterCopy(w, s)
        PROVE  TypeOK'
    <2>1. todo' \in [Workers -> SUBSET (Paths \X Seq(Names))]
      BY <1>2 DEF afterCopy, TypeOK
    <2>2. CASE job[w].op = "copy"
      BY <1>2, <2>1, <2>2, ZenonT(30) DEF afterCopy, finish, ghosts, TypeOK, Statuses
    <2>3. CASE job[w].op = "move"
      BY <1>2, <2>1, <2>3, ZenonT(30) DEF afterCopy, ghosts, TypeOK, Statuses
    <2> QED
      BY <1>1, <2>2, <2>3
  <1>3. ASSUME NEW rest \in SUBSET (Paths \X Seq(Names)),
               \A e \in rest : /\ under(e[1], job[w].src)
                               /\ under(e[2], job[w].dest),
               todo' = [todo EXCEPT ![w] = rest], UNCHANGED <<pc, status>>
        PROVE  TypeOK'
    BY <1>3 DEF ghosts, TypeOK
  <1> QED
    BY <1>2, <1>3

\* An answer ends a request and keeps the shape of the state.
LEMMA FinishKeepsType ==
  ASSUME TypeOK, NEW w \in Workers, NEW s \in Statuses, finish(w, s),
         files' \in [Paths -> Held], isTree(files'),
         UNCHANGED <<job, todo, ghosts>>
  PROVE  TypeOK'
  BY DEF finish, ghosts, TypeOK

\* Every step of a worker keeps the shape of the state.
LEMMA StepKeepsType ==
  ASSUME TypeOK, NEW w \in Workers, Call(w) \/ \E j \in Jobs : takeUp(w, j)
  PROVE  TypeOK'
  <1> USE ValuesAssumption DEF Held
  <1>1. ASSUME NEW j \in Jobs, takeUp(w, j) PROVE TypeOK'
    <2>1. /\ files' = files /\ todo' = todo /\ job' = [job EXCEPT ![w] = j]
          /\ served' \in Nat
      BY <1>1 DEF takeUp, TypeOK
    <2>2. alone' \in [Workers -> BOOLEAN]
      BY <1>1 DEF takeUp
    <2>3. before' \in [Workers -> [Paths -> Held]]
      BY <1>1 DEF takeUp, TypeOK, Unknown
    <2>4. job' \in [Workers -> Jobs \cup {NoJob}]
      BY <1>1 DEF takeUp, TypeOK
    <2>5. \/ pc' = [pc EXCEPT ![w] = "validate"]
             /\ status' = [status EXCEPT ![w] = "NO_ERROR"]
          \/ \E s \in Statuses : /\ pc' = [pc EXCEPT ![w] = "idle"]
                                 /\ status' = [status EXCEPT ![w] = s]
      BY <1>1 DEF takeUp, finish, Statuses
    <2>6. CASE /\ pc' = [pc EXCEPT ![w] = "validate"]
               /\ status' = [status EXCEPT ![w] = "NO_ERROR"]
      BY <2>1, <2>2, <2>3, <2>4, <2>6 DEF TypeOK, Statuses
    <2>7. ASSUME NEW s \in Statuses, pc' = [pc EXCEPT ![w] = "idle"],
                 status' = [status EXCEPT ![w] = s]
          PROVE  TypeOK'
      BY <2>1, <2>2, <2>3, <2>4, <2>7 DEF TypeOK
    <2> QED
      BY <2>5, <2>6, <2>7
  <1>2. CASE validate(w)
    <2>1. job[w] \in Jobs /\ job[w].op \in {"copy", "move", "remove", "rename"}
      BY <1>2, JobFacts DEF validate, TypeOK
    <2>2. CASE finish(w, "INVALID_SOURCE_PATH")
      BY <1>2, <2>2 DEF validate, finish, ghosts, TypeOK, Statuses
    <2>3. CASE goOn(w, afterValidation(job[w].op))
      BY <1>2, <2>1, <2>3 DEF validate, goOn, afterValidation, ghosts, TypeOK
    <2> QED
      BY <1>2, <2>2, <2>3 DEF validate
  <1>3. CASE validateDest(w)
    BY <1>3 DEF validateDest, finish, goOn, ghosts, TypeOK, Statuses
  <1>4. CASE checkTarget(w)
    BY <1>4 DEF checkTarget, finish, goOn, ghosts, TypeOK, Statuses
  <1>5. CASE prepare(w)
    <2>1. job[w] \in Jobs /\ job[w].op \in {"copy", "move"}
      BY <1>5 DEF prepare, TypeOK
    <2>2. Len(desPath(job[w])) <= Depth
      BY <1>5 DEF prepare, TypeOK
    <2>3. /\ job[w].src \in Paths /\ job[w].dest \in Seq(Names)
          /\ desPath(job[w]) \in Seq(Names)
          /\ under(job[w].src, job[w].src)
          /\ under(job[w].dest, job[w].dest)
          /\ under(desPath(job[w]), job[w].dest)
      BY <2>1, JobFacts, PathIsSeq
    <2>4. files' \in [Paths -> Held]
      BY <1>5 DEF prepare, TypeOK
    <2>5. isTree(files')
      <3>1. CASE UNCHANGED files
        BY <3>1 DEF TypeOK
      <3>2. CASE /\ ~exists(desPath(job[w]))
                 /\ \A p \in Paths : under(desPath(job[w]), p) => ~isFile(files[p])
                 /\ files' = [p \in Paths |-> IF under(desPath(job[w]), p) THEN Dir
                                              ELSE files[p]]
        <4>1. desPath(job[w]) \in Paths
          BY <2>2, <2>3, SeqIsPath
        <4> QED
          BY <3>2, <4>1, TreeDirectories DEF TypeOK
      <3>3. CASE /\ exists(desPath(job[w]))
                 /\ files' = [p \in Paths |-> files[p]]
        BY <3>3 DEF TypeOK
      <3> QED
        BY <1>5, <3>1, <3>2, <3>3 DEF prepare
    <2>6. ASSUME NEW to \in {job[w].dest, desPath(job[w])}, startCopy(w, to)
          PROVE  TypeOK'
      <3>1. todo' = [todo EXCEPT ![w] = {<<job[w].src, to>>}]
        BY <2>6 DEF startCopy
      <3>2. {<<job[w].src, to>>} \in SUBSET (Paths \X Seq(Names))
        BY <2>3
      <3>3. todo' \in [Workers -> SUBSET (Paths \X Seq(Names))]
        BY <3>1, <3>2 DEF TypeOK
      <3>4. \A e \in todo'[w] : under(e[1], job[w].src) /\ under(e[2], job[w].dest)
        BY <2>3, <3>1 DEF TypeOK
      <3> QED
        BY <1>5, <2>1, <2>4, <2>5, <2>6, <3>1, <3>3, <3>4
           DEF prepare, startCopy, goOn, ghosts, TypeOK
    <2>7. CASE finish(w, "PERMISSION_DENIED") /\ UNCHANGED <<files, todo>>
      BY <1>5, <2>7, FinishKeepsType DEF prepare, TypeOK, Statuses
    <2> QED
      BY <1>5, <2>6, <2>7 DEF prepare
  <1>6. CASE copyDirectory(w)
    <2>1. PICK e \in nextEntries(w) :
            /\ takesDir(e[2])
            /\ files' = [files EXCEPT ![e[2]] = Dir]
            /\ copyRest(w, (todo[w] \ {e})
                           \cup {<<Append(e[1], n), Append(e[2], n)>> :
                                   n \in entriesOf(files', e[1])})
            /\ UNCHANGED <<job, ghosts>>
      BY <1>6 DEF copyDirectory
    <2> DEFINE new == {<<Append(e[1], n), Append(e[2], n)>> :
                         n \in entriesOf(files', e[1])}
               rest == (todo[w] \ {e}) \cup new
    <2>2. files' \in [Paths -> Held]
      BY <2>1 DEF TypeOK, takesDir
    <2>3. /\ pc[w] = "copy" /\ job[w] \in Jobs /\ job[w].op \in {"copy", "move"}
          /\ e[1] \in Seq(Names) /\ e[2] \in Seq(Names)
          /\ under(e[1], job[w].src) /\ under(e[2], job[w].dest)
      BY EntryFacts, PathIsSeq
    <2>4. job[w].src \in Seq(Names) /\ job[w].dest \in Seq(Names)
      BY <2>3, JobFacts, PathIsSeq
    <2>5. \A o \in new : /\ o \in Paths \X Seq(Names)
                         /\ under(o[1], job[w].src) /\ under(o[2], job[w].dest)
      <3>1. ASSUME NEW n \in entriesOf(files', e[1])
            PROVE  /\ Append(e[1], n) \in Paths
                   /\ Append(e[2], n) \in Seq(Names)
                   /\ under(Append(e[1], n), job[w].src)
                   /\ under(Append(e[2], n), job[w].dest)
        <4>1. n \in Names /\ Append(e[1], n) \in Paths
          BY DEF entriesOf
        <4> QED
          BY <2>3, <2>4, <4>1, UnderChild, ChildFacts
      <3>2. ASSUME NEW o \in new
            PROVE  /\ o \in Paths \X Seq(Names)
                   /\ under(o[1], job[w].src) /\ under(o[2], job[w].dest)
        <4>1. PICK n \in entriesOf(files', e[1]) :
                o = <<Append(e[1], n), Append(e[2], n)>>
          BY <3>2
        <4>2. o[1] = Append(e[1], n) /\ o[2] = Append(e[2], n)
          BY <4>1
        <4> QED
          BY <3>1, <4>1, <4>2
      <3> QED
        BY <3>2
    <2>6. rest \in SUBSET (Paths \X Seq(Names))
      BY <2>5 DEF TypeOK
    <2>7. \A o \in rest : under(o[1], job[w].src) /\ under(o[2], job[w].dest)
      BY <2>3, <2>5 DEF TypeOK
    <2>8. \/ afterCopy(w, "SUCCESS")
          \/ todo' = [todo EXCEPT ![w] = rest] /\ UNCHANGED <<pc, status>>
      BY <2>1 DEF copyRest
    <2>9. isTree(files')
      BY <2>1, CopyKeepsTree DEF Held
    <2> HIDE DEF rest
    <2> QED
      BY <2>1, <2>2, <2>3, <2>6, <2>7, <2>8, <2>9, CopyKeepsType
  <1>7. CASE copyFile(w)
    <2>1. PICK e \in nextEntries(w) :
            /\ isFile(files[e[1]]) /\ takesFile(e)
            /\ files' = [files EXCEPT ![targetOf(e)] =
                 IF job[w].overwrite \/ @ = Absent THEN files[e[1]] ELSE @]
            /\ copyRest(w, todo[w] \ {e})
            /\ UNCHANGED <<job, ghosts>>
      BY <1>7 DEF copyFile
    <2>2. pc[w] = "copy" /\ e[1] \in Paths
      BY EntryFacts
    <2>3. files' \in [Paths -> Held]
      BY <2>1, <2>2 DEF TypeOK
    <2>4. /\ todo[w] \ {e} \in SUBSET (Paths \X Seq(Names))
          /\ \A o \in todo[w] \ {e} : /\ under(o[1], job[w].src)
                                      /\ under(o[2], job[w].dest)
      BY <2>2 DEF TypeOK
    <2>5. \/ afterCopy(w, "SUCCESS")
          \/ todo' = [todo EXCEPT ![w] = todo[w] \ {e}] /\ UNCHANGED <<pc, status>>
      BY <2>1 DEF copyRest
    <2>6. isTree(files')
      <3>1. targetOf(e) \in Paths /\ files[e[1]] \in Held \ {Absent}
        BY <2>1, <2>2 DEF takesFile, isFile, TypeOK
      <3>2. CASE job[w].overwrite \/ files[targetOf(e)] = Absent
        <4>1. files' = [files EXCEPT ![targetOf(e)] = files[e[1]]]
          BY <2>1, <3>1, <3>2 DEF TypeOK
        <4>2. isTree([files EXCEPT ![targetOf(e)] = files[e[1]]])
          BY <2>1, <3>1, CopyKeepsTree
        <4> QED
          BY <4>1, <4>2
      <3>3. CASE ~(job[w].overwrite \/ files[targetOf(e)] = Absent)
        <4>1. files' = files
          BY <2>1, <3>1, <3>3 DEF TypeOK
        <4> QED
          BY <4>1 DEF TypeOK
      <3> QED
        BY <3>2, <3>3
    <2> QED
      BY <2>1, <2>2, <2>3, <2>4, <2>5, <2>6, CopyKeepsType
  <1>8. CASE copyThrows(w)
    <2>1. pc[w] = "copy"
      BY <1>8 DEF copyThrows, nextEntries
    <2>2. files' \in [Paths -> Held]
      BY <1>8 DEF copyThrows, TypeOK
    <2>3. isTree(files')
      <3>1. Dir \in Held \ {Absent} /\ Partial \in Held \ {Absent}
        OBVIOUS
      <3>2. CASE UNCHANGED files
        BY <3>2 DEF TypeOK
      <3>3. ASSUME NEW e \in nextEntries(w), takesFile(e),
                   files' = [files EXCEPT ![targetOf(e)] = Partial]
            PROVE  isTree(files')
        BY <3>1, <3>3, CopyKeepsTree
      <3>4. ASSUME NEW e \in nextEntries(w), takesDir(e[2]),
                   files' = [files EXCEPT ![e[2]] = Dir]
            PROVE  isTree(files')
        BY <3>1, <3>4, CopyKeepsTree
      <3> QED
        BY <1>8, <3>2, <3>3, <3>4 DEF copyThrows
    <2> QED
      BY <1>8, <2>1, <2>2, <2>3, CopyKeepsType DEF copyThrows
  <1>9. CASE removeAll(w)
    <2>1. files' \in [Paths -> Held]
      BY <1>9 DEF removeAll, TypeOK
    <2>2. isTree(files')
      <3>1. ASSUME NEW p \in Paths, under(p, job[w].src), entriesOf(files, p) = {},
                   files' = [files EXCEPT ![p] = Absent]
            PROVE  isTree(files')
        <4>1. job[w] \in Jobs
          BY <1>9 DEF removeAll, TypeOK
        <4>2. job[w].src # Root /\ job[w].src \in Seq(Names) /\ Len(job[w].src) \in Nat
          BY <4>1, JobFacts, PathIsSeq, BoundsAssumption
        <4>3. p # Root
          BY <3>1, <4>2 DEF under, Root
        <4> QED
          BY <3>1, <4>3, TreeWithout DEF TypeOK
      <3>2. CASE UNCHANGED files
        BY <3>2 DEF TypeOK
      <3> QED
        BY <1>9, <3>1, <3>2 DEF removeAll
    <2>3. \/ \E s \in Statuses : finish(w, s)
          \/ UNCHANGED <<pc, status>>
      BY <1>9 DEF removeAll, removed, TypeOK, Statuses
    <2>4. UNCHANGED <<job, todo, ghosts>>
      BY <1>9 DEF removeAll
    <2>5. CASE UNCHANGED <<pc, status>>
      BY <2>1, <2>4, <2>5, <2>2 DEF ghosts, TypeOK
    <2> QED
      BY <2>1, <2>3, <2>4, <2>5, <2>2, FinishKeepsType
  <1>10. CASE rename(w)
    <2>1. job[w] \in Jobs /\ job[w].op = "rename"
      BY <1>10 DEF rename, TypeOK
    <2>2. files' \in [Paths -> Held]
      <3>1. CASE /\ job[w].newName # BadName
                 /\ files' = renamedTree(files, job[w].src, renamed(job[w]))
        <4>1. job[w].src \in Paths /\ job[w].src # Root
          BY <2>1, JobFacts
        <4>2. last(job[w].src) \in Names
          BY <4>1, ParentFacts
        <4>3. ASSUME NEW p \in Paths
              PROVE  [p EXCEPT ![Len(job[w].src)] = last(job[w].src)] \in Paths
          BY <4>2 DEF Paths
        <4> QED
          BY <3>1, <4>3 DEF renamedTree, TypeOK
      <3> QED
        BY <1>10, <3>1 DEF rename, TypeOK
    <2>3. \E s \in Statuses : finish(w, s)
      BY <1>10 DEF rename, Statuses
    <2>4. isTree(files')
      <3>1. CASE /\ job[w].newName # BadName /\ exists(job[w].src)
                 /\ files' = renamedTree(files, job[w].src, renamed(job[w]))
        BY <2>1, <3>1, JobFacts, TreeRenamed DEF renamed, exists, TypeOK
      <3>2. CASE UNCHANGED files
        BY <3>2 DEF TypeOK
      <3> QED
        BY <1>10, <3>1, <3>2 DEF rename
    <2> QED
      BY <1>10, <2>2, <2>3, <2>4, FinishKeepsType DEF rename
  <1> QED
    BY <1>1, <1>2, <1>3, <1>4, <1>5, <1>6, <1>7, <1>8, <1>9, <1>10 DEF Call

\* The state keeps its shape: the next call of a worker is one of the job it
\* was given, and a copy never leaves the source and the destination tree.
THEOREM TypeCorrect == Spec => []TypeOK
  <1>1. Init => TypeOK
    BY TreesAssumption DEF Init, TypeOK, Held, Unknown, Statuses
  <1>2. TypeOK /\ [Next]_vars => TypeOK'
    <2> SUFFICES ASSUME TypeOK, [Next]_vars PROVE TypeOK'
      OBVIOUS
    <2>1. ASSUME NEW w \in Workers, Call(w) \/ \E j \in Jobs : takeUp(w, j)
          PROVE  TypeOK'
      BY <2>1, StepKeepsType
    <2>2. CASE UNCHANGED vars
      BY <2>2 DEF vars, ghosts, TypeOK
    <2> QED
      BY <2>1, <2>2 DEF Next, Rest
  <1> QED
    BY <1>1, <1>2, PTL DEF Spec

\* A step destroys what a path holds only where its worker has a licence.
LEMMA StepIsLicensed ==
  ASSUME TypeOK, NEW w \in Workers, Call(w) \/ \E j \in Jobs : takeUp(w, j),
         NEW p \in Paths, exists(p), files'[p] # files[p]
  PROVE  licensed(w, p)
  <1>1. ASSUME NEW j \in Jobs, takeUp(w, j) PROVE FALSE
    BY <1>1 DEF takeUp
  <1>2. CASE validate(w) \/ validateDest(w) \/ checkTarget(w)
    BY <1>2 DEF validate, validateDest, checkTarget
  <1>3. CASE prepare(w)
    <2>1. /\ ~exists(desPath(job[w]))
          /\ \A q \in Paths : under(desPath(job[w]), q) => ~isFile(files[q])
          /\ files'[p] = IF under(desPath(job[w]), p) THEN Dir ELSE files[p]
      BY <1>3 DEF prepare, TypeOK
    <2>2. files[p] = Dir
      BY <2>1 DEF exists, isFile
    <2> QED
      BY <2>1, <2>2
  <1>4. CASE copyDirectory(w)
    <2>1. PICK e \in nextEntries(w) : /\ takesDir(e[2])
                                     /\ files' = [files EXCEPT ![e[2]] = Dir]
      BY <1>4 DEF copyDirectory
    <2> QED
      BY <2>1 DEF takesDir, exists, TypeOK
  <1>5. CASE copyFile(w)
    <2>1. PICK e \in nextEntries(w) :
            /\ targetOf(e) \in Paths
            /\ files' = [files EXCEPT ![targetOf(e)] =
                 IF job[w].overwrite \/ @ = Absent THEN files[e[1]] ELSE @]
      BY <1>5 DEF copyFile, takesFile
    <2>2. p = targetOf(e) /\ job[w].overwrite
      BY <2>1 DEF exists, TypeOK
    <2> QED
      BY <2>2, EntryFacts DEF licensed
  <1>6. CASE copyThrows(w)
    <2>1. PICK e \in nextEntries(w) :
            \/ UNCHANGED files
            \/ /\ job[w].overwrite \/ ~exists(targetOf(e))
               /\ files' = [files EXCEPT ![targetOf(e)] = Partial]
            \/ takesDir(e[2]) /\ files' = [files EXCEPT ![e[2]] = Dir]
      BY <1>6 DEF copyThrows
    <2>2. p = targetOf(e) /\ job[w].overwrite
      BY <2>1 DEF takesDir, exists, TypeOK
    <2> QED
      BY <2>2, EntryFacts DEF licensed
  <1>7. CASE removeAll(w)
    BY <1>7 DEF removeAll, licensed, TypeOK
  <1>8. CASE rename(w)
    BY <1>8 DEF rename, renamedTree, licensed, TypeOK
  <1> QED
    BY <1>1, <1>2, <1>3, <1>4, <1>5, <1>6, <1>7, <1>8 DEF Call

\* Whatever the workers do at the same time, something that exists changes or
\* disappears only where a request asked for it to be removed, moved away,
\* renamed or overwritten: skip_existing closes the gap between the check and
\* the copy, for every entry of the tree.
THEOREM FilesAreSafe == Spec => NothingClobbered
  <1> DEFINE Allowed == \A p \in Paths : exists(p) /\ files'[p] # files[p] =>
                          \E w \in Workers : licensed(w, p)
  <1>1. TypeOK /\ [Next]_vars => [Allowed]_vars
    <2> SUFFICES ASSUME TypeOK, Next PROVE Allowed \/ UNCHANGED vars
      OBVIOUS
    <2>1. ASSUME NEW w \in Workers, Call(w) \/ \E j \in Jobs : takeUp(w, j)
          PROVE  Allowed
      BY <2>1, StepIsLicensed
    <2> QED
      BY <2>1 DEF Next, Rest
  <1> QED
    BY <1>1, TypeCorrect, PTL DEF Spec, NothingClobbered

-----------------------------------------------------------------------------
(* Paths and trees all the way down.                                       *)

\* A set of numbers has a least one: what inductions over a path rest on.
LEMMA NatLeast ==
  ASSUME NEW T \in SUBSET Nat, T # {}
  PROVE  \E m \in T : \A n \in T : m <= n
  <1>1. \E m \in T : \A n \in T : ~(<<n, m>> \in OpToRel(<, Nat))
    BY WFMin, NatLessThanWellFounded, Zenon
  <1>2. \E m \in T : \A n \in T : ~(n < m)
    BY <1>1, Zenon DEF OpToRel
  <1> QED
    BY <1>2

LEMMA UnderFacts ==
  ASSUME NEW p \in Seq(Names), NEW q \in Seq(Names), under(q, p)
  PROVE  /\ Len(p) <= Len(q)
         /\ Len(p) = Len(q) => p = q
         /\ \A r \in Seq(Names) : under(r, q) => under(r, p)
  <1>1. Len(p) \in Nat /\ Len(q) \in Nat /\ Len(p) <= Len(q)
        /\ \A i \in 1..Len(p) : q[i] = p[i]
    BY DEF under
  <1>2. Len(p) = Len(q) => p = q
    BY <1>1, SeqEqual
  <1>3. ASSUME NEW r \in Seq(Names), under(r, q) PROVE under(r, p)
    BY <1>1, <1>3 DEF under
  <1> QED
    BY <1>1, <1>2, <1>3

\* Two prefixes of one path: one of them is a prefix of the other.
LEMMA UnderBoth ==
  ASSUME NEW p \in Seq(Names), NEW q \in Seq(Names), NEW r \in Seq(Names),
         under(r, p), under(r, q)
  PROVE  under(p, q) \/ under(q, p)
  <1>1. Len(p) \in Nat /\ Len(q) \in Nat /\ Len(p) <= Len(r) /\ Len(q) <= Len(r)
    BY DEF under
  <1>2. CASE Len(p) <= Len(q)
    BY <1>1, <1>2 DEF under
  <1>3. CASE Len(q) <= Len(p)
    BY <1>1, <1>3 DEF under
  <1> QED
    BY <1>1, <1>2, <1>3

\* What exists lies in directories up to the root.
LEMMA DeepTree ==
  ASSUME NEW t \in [Paths -> Held], isTree(t), NEW p \in Paths, NEW q \in Paths,
         under(q, p), q # p, t[q] # Absent
  PROVE  t[p] = Dir
  <1> DEFINE pre(n) == SubSeq(q, 1, n)
             T == {n \in Len(p)..(Len(q) - 1) : t[pre(n)] = Dir}
  <1>1. /\ p \in Seq(Names) /\ q \in Seq(Names) /\ Len(p) \in Nat /\ Len(q) \in Nat
        /\ Len(p) < Len(q) /\ Len(q) <= Depth
    BY PathIsSeq, UnderFacts, BoundsAssumption
  <1>2. ASSUME NEW n \in Nat, n <= Len(q)
        PROVE  /\ pre(n) \in Paths /\ Len(pre(n)) = n
               /\ \A i \in 1..n : pre(n)[i] = q[i]
    <2>1. /\ pre(n) \in Seq(Names) /\ Len(pre(n)) = n
          /\ \A i \in 1..n : pre(n)[i] = q[i]
      BY <1>1, <1>2, FrontFacts
    <2>2. n <= Depth
      BY <1>1, <1>2, BoundsAssumption
    <2> QED
      BY <2>1, <2>2, SeqIsPath
  <1>3. ASSUME NEW n \in Nat, n + 1 <= Len(q), t[pre(n + 1)] # Absent
        PROVE  t[pre(n)] = Dir
    <2>1. /\ pre(n + 1) \in Paths /\ Len(pre(n + 1)) = n + 1
          /\ \A i \in 1..(n + 1) : pre(n + 1)[i] = q[i]
      BY <1>1, <1>2, <1>3
    <2>2. /\ pre(n) \in Paths /\ Len(pre(n)) = n /\ \A i \in 1..n : pre(n)[i] = q[i]
      BY <1>1, <1>2, <1>3
    <2> HIDE DEF pre
    <2>3. pre(n + 1) # Root
      BY <2>1 DEF Root
    <2>4. /\ parent(pre(n + 1)) \in Paths /\ Len(parent(pre(n + 1))) = n
          /\ \A i \in 1..n : parent(pre(n + 1))[i] = pre(n + 1)[i]
      BY <2>1, <2>3, ParentFacts
    <2>5. parent(pre(n + 1)) = pre(n)
      BY <2>1, <2>2, <2>4, PathIsSeq, SeqEqual, SMTT(30)
    <2> QED
      BY <1>3, <2>1, <2>3, <2>5 DEF isTree
  <1>4. pre(Len(q)) = q /\ pre(Len(p)) = p
    <2>1. /\ pre(Len(q)) \in Paths /\ Len(pre(Len(q))) = Len(q)
          /\ \A i \in 1..Len(q) : pre(Len(q))[i] = q[i]
      BY <1>1, <1>2
    <2>2. /\ pre(Len(p)) \in Paths /\ Len(pre(Len(p))) = Len(p)
          /\ \A i \in 1..Len(p) : pre(Len(p))[i] = p[i]
      BY <1>1, <1>2 DEF under
    <2> HIDE DEF pre
    <2> QED
      BY <1>1, <2>1, <2>2, PathIsSeq, SeqEqual
  <1> HIDE DEF pre
  <1>5. Len(q) - 1 \in T
    BY <1>1, <1>3, <1>4
  <1>6. PICK m \in T : \A n \in T : m <= n
    <2>1. T \in SUBSET Nat /\ T # {}
      BY <1>1, <1>5
    <2> HIDE DEF T
    <2> QED
      BY <2>1, NatLeast
  <1>7. m = Len(p)
    <2>1. ASSUME m > Len(p) PROVE m - 1 \in T
      <3>1. t[pre(m)] # Absent
        BY <1>6, ValuesAssumption
      <3>2. m - 1 \in Nat /\ m - 1 + 1 = m /\ m <= Len(q)
        BY <1>1, <1>6, <2>1
      <3> QED
        BY <1>1, <1>3, <1>6, <2>1, <3>1, <3>2
    <2> QED
      BY <1>1, <1>6, <2>1
  <1> QED
    BY <1>4, <1>6, <1>7

-----------------------------------------------------------------------------
(* A worker that is alone: its answers are those to what it found.         *)

SourceMissing(j, b) == b[j.src] = Absent
DestMissing(j, b) ==
  \/ j.op \in {"copy", "move"} /\ b[j.dest] = Absent
  \/ j.op = "rename" /\ j.newName = BadName
InTheWay(j, b) ==
  /\ j.op \in {"copy", "move"} /\ ~j.overwrite
  /\ ~SourceMissing(j, b) /\ ~DestMissing(j, b)
  /\ desPath(j) \in Paths /\ b[desPath(j)] # Absent

\* What is below the source and not below the target is as it was.
Spared(j, b, tree) ==
  \A p \in Paths : under(p, j.src) /\ ~under(p, desPath(j)) => tree[p] = b[p]

\* The status s of a request j that found the files b and leaves tree.
RightAnswer(j, b, s, tree) ==
  /\ s = "INVALID_SOURCE_PATH" => SourceMissing(j, b)
  /\ s = "INVALID_DEST_PATH" => DestMissing(j, b)
  /\ s = "FILE_ALREADY_EXISTS" <=> InTheWay(j, b)
  /\ SourceMissing(j, b) \/ DestMissing(j, b) =>
       s \in {"INVALID_SOURCE_PATH", "INVALID_DEST_PATH"}
  /\ s \in {"INVALID_SOURCE_PATH", "INVALID_DEST_PATH", "FILE_ALREADY_EXISTS"} =>
       tree = b
  /\ s = "PERMISSION_DENIED" /\ j.op = "copy" => Spared(j, b, tree)

\* A copy writes below its target; that of a file, which is given the
\* destination, also where there is no directory.
CopyApart(j, b, tree, es) ==
  \/ under(j.src, desPath(j))
  \/ /\ Spared(j, b, tree)
     /\ \A e \in es : \/ under(e[2], desPath(j))
                      \/ e = <<j.src, j.dest>> /\ isFile(b[j.src])

\* What a request knows at each of its calls.
Quiet(call, s, j, b, tree, es) ==
  /\ j \in Jobs /\ b \in [Paths -> Held] /\ isTree(b)
  /\ call \in {"validate", "validateDest", "check", "prepare", "rename"} => tree = b
  /\ call \notin {"validate", "idle"} => ~SourceMissing(j, b)
  /\ call \in {"check", "prepare", "copy"} => ~DestMissing(j, b)
  /\ call \in {"prepare", "copy"} => ~InTheWay(j, b)
  /\ call = "remove_all" /\ j.op = "move" =>
       /\ s \in {"SUCCESS", "PERMISSION_DENIED"}
       /\ ~DestMissing(j, b) /\ ~InTheWay(j, b)
  /\ call = "copy" /\ j.op = "copy" => CopyApart(j, b, tree, es)
  /\ call = "idle" => RightAnswer(j, b, s, tree)

QuietInv ==
  \A w \in Workers : alone[w] =>
    /\ \A u \in Workers \ {w} : pc[u] = "idle"
    /\ Quiet(pc[w], status[w], job[w], before[w], files, todo[w])

\* Nothing to refuse: success, or a call that failed.
LEMMA DoneRight ==
  ASSUME NEW j, NEW b, NEW tree, NEW s \in {"SUCCESS", "PERMISSION_DENIED"},
         ~SourceMissing(j, b), ~DestMissing(j, b), ~InTheWay(j, b),
         s = "SUCCESS" \/ j.op # "copy" \/ Spared(j, b, tree)
  PROVE  RightAnswer(j, b, s, tree)
  BY DEF RightAnswer

\* The target of a job and what is above it.
LEMMA AboveTarget ==
  ASSUME NEW j \in Jobs, j.op \in {"copy", "move"}
  PROVE  /\ under(desPath(j), desPath(j))
         /\ \A p \in Paths : under(desPath(j), p) => p = desPath(j) \/ under(j.dest, p)
  <1>1. /\ desPath(j) \in Seq(Names) /\ j.dest \in Seq(Names)
        /\ Len(desPath(j)) = Len(j.dest) + 1 /\ under(desPath(j), j.dest)
    BY JobFacts, PathIsSeq
  <1>2. under(desPath(j), desPath(j))
    BY <1>1 DEF under
  <1>3. ASSUME NEW p \in Paths, under(desPath(j), p), p # desPath(j)
        PROVE  under(j.dest, p)
    <2>1. p \in Seq(Names) /\ Len(p) \in Nat /\ Len(j.dest) \in Nat
      BY <1>1, PathIsSeq
    <2>2. Len(p) <= Len(desPath(j)) /\ Len(p) # Len(desPath(j))
      BY <1>1, <1>3, <2>1, UnderFacts
    <2>3. Len(p) <= Len(j.dest)
      BY <1>1, <2>1, <2>2
    <2> QED
      BY <1>1, <1>3, <2>1, <2>3 DEF under
  <1> QED
    BY <1>2, <1>3

\* When the source is below the target, there is nothing that is not.
LEMMA NothingApart ==
  ASSUME NEW j \in Jobs, j.op \in {"copy", "move"}, under(j.src, desPath(j)),
         NEW b, NEW tree
  PROVE  Spared(j, b, tree)
  <1>1. desPath(j) \in Seq(Names) /\ j.src \in Seq(Names)
    BY JobFacts, PathIsSeq
  <1> QED
    BY <1>1, PathIsSeq, UnderFacts DEF Spared

\* Where the entries of a copy are written.
LEMMA TargetsApart ==
  ASSUME TypeOK, NEW w \in Workers, NEW e \in nextEntries(w), NEW b,
         b \in [Paths -> Held], isTree(b), b[job[w].dest] # Absent,
         CopyApart(job[w], b, files, todo[w]), ~under(job[w].src, desPath(job[w]))
  PROVE  /\ files[e[1]] = Dir => under(e[2], desPath(job[w]))
         /\ takesFile(e) => \/ under(targetOf(e), desPath(job[w]))
                            \/ ~under(targetOf(e), job[w].src)
  <1> DEFINE j == job[w]
  <1>1. /\ j \in Jobs /\ j.op \in {"copy", "move"} /\ e \in todo[w]
        /\ e[1] \in Paths /\ e[2] \in Seq(Names) /\ under(e[1], j.src)
    BY EntryFacts
  <1>2. /\ j.src \in Paths /\ j.src # Root /\ j.dest \in Paths /\ j.src \in Seq(Names)
        /\ under(j.src, j.src) /\ desPath(j) \in Seq(Names)
    BY <1>1, JobFacts, PathIsSeq
  <1> HIDE DEF j
  <1>3. \/ under(e[2], desPath(j))
        \/ e[1] = j.src /\ e[2] = j.dest /\ isFile(b[j.src])
    BY <1>1 DEF CopyApart, j
  <1>4. files[j.src] = b[j.src]
    BY <1>2 DEF CopyApart, Spared, j
  <1>5. ASSUME under(e[2], desPath(j))
        PROVE  takesFile(e) => under(targetOf(e), desPath(j))
    <2>1. e[1] # Root
      BY <1>1, <1>2, PathIsSeq DEF under, Root
    <2>2. last(e[1]) \in Names
      BY <1>1, <2>1, ParentFacts
    <2> QED
      BY <1>1, <1>2, <1>5, <2>2, UnderChild DEF targetOf
  <1>6. ASSUME e[1] = j.src, e[2] = j.dest, isFile(b[j.src]), takesFile(e),
               under(targetOf(e), j.src)
        PROVE  under(targetOf(e), desPath(j))
    <2>1. CASE files[j.dest] = Dir
      <3>1. targetOf(e) = desPath(j)
        BY <1>2, <1>6, <2>1 DEF targetOf, desPath
      <3> QED
        BY <1>1, <3>1, AboveTarget DEF j
    <2>2. CASE files[j.dest] # Dir
      <3>1. targetOf(e) = j.dest /\ j.dest # j.src
        BY <1>6, <2>2 DEF targetOf, takesFile
      <3>2. b[j.src] = Dir
        BY <1>2, <1>6, <3>1, DeepTree DEF j
      <3> QED
        BY <1>6, <3>2 DEF isFile
    <2> QED
      BY <2>1, <2>2
  <1>7. files[e[1]] = Dir => under(e[2], desPath(j))
    BY <1>3, <1>4 DEF isFile
  <1> QED
    BY <1>3, <1>5, <1>6, <1>7 DEF j

\* Something written elsewhere spares the source.
LEMMA WriteSpares ==
  ASSUME TypeOK, NEW j, NEW b, Spared(j, b, files), NEW p, NEW v,
         files' = [files EXCEPT ![p] = v],
         under(p, desPath(j)) \/ ~under(p, j.src)
  PROVE  Spared(j, b, files')
  BY DEF Spared, TypeOK

LEMMA CopyStaysApart ==
  ASSUME TypeOK, NEW w \in Workers, NEW b,
         b \in [Paths -> Held], isTree(b), b[job[w].dest] # Absent,
         CopyApart(job[w], b, files, todo[w]), pc[w] = "copy",
         copyDirectory(w) \/ copyFile(w) \/ copyThrows(w)
  PROVE  /\ Spared(job[w], b, files')
         /\ pc'[w] = "copy" => CopyApart(job[w], b, files', todo'[w])
  <1> DEFINE j == job[w]
  <1>1. j \in Jobs /\ j.op \in {"copy", "move"} /\ desPath(j) \in Seq(Names)
    BY JobFacts DEF TypeOK
  <1>2. CASE under(j.src, desPath(j))
    BY <1>1, <1>2, NothingApart DEF CopyApart
  <1>3. CASE ~under(j.src, desPath(j))
    <2>1. Spared(j, b, files)
      BY <1>3 DEF CopyApart
    <2>2. ASSUME NEW e \in nextEntries(w)
          PROVE  /\ files[e[1]] = Dir => under(e[2], desPath(j))
                 /\ takesFile(e) => \/ under(targetOf(e), desPath(j))
                                    \/ ~under(targetOf(e), j.src)
      BY <1>3, TargetsApart
    <2>3. ASSUME NEW e \in nextEntries(w), files[e[1]] = Dir,
                 files' = [files EXCEPT ![e[2]] = Dir]
          PROVE  Spared(j, b, files')
      BY <2>1, <2>2, <2>3, WriteSpares
    <2>4. ASSUME NEW e \in nextEntries(w), takesFile(e), NEW v,
                 files' = [files EXCEPT ![targetOf(e)] = v]
          PROVE  Spared(j, b, files')
      BY <2>1, <2>2, <2>4, WriteSpares
    <2>5. Spared(j, b, files')
      <3>1. CASE copyDirectory(w)
        BY <2>3, <3>1 DEF copyDirectory
      <3>2. CASE copyFile(w)
        BY <2>4, <3>2 DEF copyFile
      <3>3. CASE copyThrows(w)
        BY <2>1, <2>3, <2>4, <3>3 DEF copyThrows
      <3> QED
        BY <3>1, <3>2, <3>3
    <2>6. ASSUME pc'[w] = "copy", NEW o \in todo'[w]
          PROVE  \/ under(o[2], desPath(j))
                 \/ o = <<j.src, j.dest>> /\ isFile(b[j.src])
      <3>1. CASE o \in todo[w]
        BY <1>3, <3>1 DEF CopyApart
      <3>2. CASE o \notin todo[w]
        <4>1. PICK e \in nextEntries(w) :
                /\ files[e[1]] = Dir
                /\ \E n \in entriesOf(files', e[1]) :
                     o = <<Append(e[1], n), Append(e[2], n)>>
          <5>1. ASSUME NEW r, afterCopy(w, r) PROVE FALSE
            BY <2>6, <5>1 DEF afterCopy, TypeOK
          <5>2. ASSUME NEW rest, copyRest(w, rest) PROVE o \in rest
            BY <2>6, <5>1, <5>2 DEF copyRest, TypeOK
          <5>3. ASSUME copyFile(w) \/ copyThrows(w) PROVE FALSE
            BY <3>2, <5>1, <5>2, <5>3 DEF copyFile, copyThrows
          <5>4. PICK e \in nextEntries(w) :
                  /\ files[e[1]] = Dir
                  /\ copyRest(w, (todo[w] \ {e})
                                 \cup {<<Append(e[1], n), Append(e[2], n)>> :
                                         n \in entriesOf(files', e[1])})
            BY <5>3 DEF copyDirectory
          <5>5. o \in {<<Append(e[1], n), Append(e[2], n)>> :
                         n \in entriesOf(files', e[1])}
            BY <3>2, <5>2, <5>4
          <5> QED
            BY <5>4, <5>5
        <4>2. PICK n \in Names : o[2] = Append(e[2], n)
          BY <4>1 DEF entriesOf
        <4>3. under(e[2], desPath(j)) /\ e[2] \in Seq(Names)
          BY <2>2, <4>1, EntryFacts
        <4> QED
          BY <1>1, <4>2, <4>3, UnderChild
      <3> QED
        BY <3>1, <3>2
    <2> QED
      BY <2>5, <2>6 DEF CopyApart
  <1> QED
    BY <1>2, <1>3

\* A copy starts apart from what it reads: the directories that prepare makes
\* are missing, and what is above the destination is there.
LEMMA CopyStartsApart ==
  ASSUME TypeOK, NEW w \in Workers, prepare(w), isTree(files),
         files[job[w].src] # Absent, files[job[w].dest] # Absent
  PROVE  /\ Spared(job[w], files, files')
         /\ pc'[w] = "copy" => CopyApart(job[w], files, files', todo'[w])
  <1> DEFINE j == job[w]
  <1>1. /\ j \in Jobs /\ j.op \in {"copy", "move"} /\ pc[w] = "prepare"
        /\ Len(desPath(j)) <= Depth
    BY DEF prepare, TypeOK
  <1>2. /\ j.dest \in Paths /\ desPath(j) \in Paths
        /\ under(desPath(j), desPath(j))
        /\ \A p \in Paths : under(desPath(j), p) => p = desPath(j) \/ under(j.dest, p)
    BY <1>1, JobFacts, SeqIsPath, AboveTarget
  <1>3. Spared(j, files, files')
    <2>1. CASE UNCHANGED files
      BY <2>1 DEF Spared
    <2>2. CASE /\ \A p \in Paths : under(desPath(j), p) => ~isFile(files[p])
               /\ files' = [p \in Paths |-> IF under(desPath(j), p) THEN Dir
                                            ELSE files[p]]
      <3>1. ASSUME NEW p \in Paths, ~under(p, desPath(j)), under(desPath(j), p)
            PROVE  files[p] = Dir
        <4>1. under(j.dest, p)
          BY <1>2, <3>1
        <4>2. files[p] # Absent
          BY <1>2, <4>1, DeepTree, ValuesAssumption DEF TypeOK
        <4> QED
          BY <2>2, <3>1, <4>2 DEF isFile
      <3> QED
        BY <2>2, <3>1 DEF Spared
    <2>3. CASE files' = [p \in Paths |-> files[p]]
      BY <2>3 DEF Spared
    <2> QED
      BY <2>1, <2>2, <2>3 DEF prepare
  <1>4. ASSUME pc'[w] = "copy"
        PROVE  \A e \in todo'[w] : \/ under(e[2], desPath(j))
                                   \/ e = <<j.src, j.dest>> /\ isFile(files[j.src])
    <2>1. CASE files[j.src] # Dir /\ startCopy(w, j.dest)
      <3>1. isFile(files[j.src])
        BY <2>1 DEF isFile
      <3>2. todo'[w] = {<<j.src, j.dest>>}
        BY <2>1 DEF startCopy, TypeOK
      <3> QED
        BY <3>1, <3>2
    <2>2. CASE startCopy(w, desPath(j))
      <3>1. todo'[w] = {<<j.src, desPath(j)>>}
        BY <2>2 DEF startCopy, TypeOK
      <3> QED
        BY <1>2, <3>1
    <2>3. CASE finish(w, "PERMISSION_DENIED")
      BY <1>4, <2>3 DEF finish, TypeOK
    <2> QED
      BY <2>1, <2>2, <2>3 DEF prepare
  <1> QED
    BY <1>3, <1>4 DEF CopyApart

\* How a call of the copy leaves the flow of its worker.
LEMMA CopyFlow ==
  ASSUME TypeOK, NEW w \in Workers,
         copyDirectory(w) \/ copyFile(w) \/ copyThrows(w)
  PROVE  /\ pc[w] = "copy" /\ job[w].op \in {"copy", "move"}
         /\ UNCHANGED <<job, ghosts>>
         /\ \/ UNCHANGED <<pc, status>>
            \/ /\ status'[w] \in {"SUCCESS", "PERMISSION_DENIED"}
               /\ pc'[w] = IF job[w].op = "copy" THEN "idle" ELSE "remove_all"
  <1>1. /\ pc[w] = "copy" /\ UNCHANGED <<job, ghosts>>
    BY DEF copyDirectory, copyFile, copyThrows, nextEntries
  <1>2. ASSUME NEW s \in {"SUCCESS", "PERMISSION_DENIED"}, afterCopy(w, s)
        PROVE  /\ status'[w] \in {"SUCCESS", "PERMISSION_DENIED"}
               /\ pc'[w] = IF job[w].op = "copy" THEN "idle" ELSE "remove_all"
    BY <1>2 DEF afterCopy, finish, TypeOK
  <1>3. \/ UNCHANGED <<pc, status>>
        \/ \E s \in {"SUCCESS", "PERMISSION_DENIED"} : afterCopy(w, s)
    BY DEF copyDirectory, copyFile, copyThrows, copyRest
  <1> QED
    BY <1>1, <1>2, <1>3 DEF TypeOK

\* A call of a worker that is alone.
LEMMA QuietCall ==
  ASSUME TypeOK, NEW w \in Workers, Call(w),
         Quiet(pc[w], status[w], job[w], before[w], files, todo[w])
  PROVE  Quiet(pc'[w], status'[w], job'[w], before'[w], files', todo'[w])
  <1> DEFINE j == job[w]
             b == before[w]
  <1>1. /\ j \in Jobs /\ b \in [Paths -> Held] /\ isTree(b)
        /\ j.op \in {"copy", "move", "remove", "rename"}
    BY JobFacts DEF Quiet
  <1>2. UNCHANGED <<job, ghosts>>
    BY DEF Call, validate, validateDest, checkTarget, prepare, copyDirectory, copyFile,
           copyThrows, removeAll, rename
  <1> SUFFICES Quiet(pc'[w], status'[w], j, b, files', todo'[w])
    BY <1>2 DEF ghosts
  <1>3. ASSUME NEW s, finish(w, s), RightAnswer(j, b, s, files')
        PROVE  Quiet(pc'[w], status'[w], j, b, files', todo'[w])
    <2>1. pc'[w] = "idle" /\ status'[w] = s
      BY <1>3 DEF finish, TypeOK
    <2> QED
      BY <1>1, <1>3, <2>1 DEF Quiet
  <1>4. CASE validate(w)
    <2>1. files' = b /\ files = b /\ j.op # "none"
      BY <1>1, <1>4 DEF validate, Quiet
    <2>2. CASE SourceMissing(j, b)
      <3>1. finish(w, "INVALID_SOURCE_PATH")
        BY <1>4, <2>1, <2>2 DEF validate, exists, SourceMissing
      <3>2. RightAnswer(j, b, "INVALID_SOURCE_PATH", files')
        BY <2>1, <2>2 DEF RightAnswer, InTheWay
      <3> QED
        BY <1>3, <3>1, <3>2
    <2>3. CASE ~SourceMissing(j, b)
      <3>1. pc'[w] = afterValidation(j.op)
        BY <1>4, <2>1, <2>3 DEF validate, exists, SourceMissing, goOn, TypeOK
      <3>2. pc'[w] \in {"validateDest", "remove_all", "rename"}
            /\ (pc'[w] = "remove_all" => j.op = "remove")
        BY <1>1, <3>1 DEF afterValidation
      <3> QED
        BY <1>1, <2>1, <2>3, <3>2 DEF Quiet
    <2> QED
      BY <2>2, <2>3
  <1>5. CASE validateDest(w)
    <2>1. files' = b /\ files = b /\ j.op \in {"copy", "move"} /\ ~SourceMissing(j, b)
      BY <1>5 DEF validateDest, Quiet, TypeOK
    <2>2. CASE DestMissing(j, b)
      <3>1. finish(w, "INVALID_DEST_PATH")
        BY <1>5, <2>1, <2>2 DEF validateDest, exists, DestMissing
      <3>2. RightAnswer(j, b, "INVALID_DEST_PATH", files')
        BY <2>1, <2>2 DEF RightAnswer, InTheWay
      <3> QED
        BY <1>3, <3>1, <3>2
    <2>3. CASE ~DestMissing(j, b)
      <3>1. pc'[w] = "check"
        BY <1>5, <2>1, <2>3 DEF validateDest, exists, DestMissing, goOn, TypeOK
      <3> QED
        BY <1>1, <2>1, <2>3, <3>1 DEF Quiet
    <2> QED
      BY <2>2, <2>3
  <1>6. CASE checkTarget(w)
    <2>1. /\ files' = b /\ files = b /\ j.op \in {"copy", "move"}
          /\ ~SourceMissing(j, b) /\ ~DestMissing(j, b)
      BY <1>6 DEF checkTarget, Quiet, TypeOK
    <2>2. desPath(j) \in Paths <=> Len(desPath(j)) <= Depth
      BY <1>1, <2>1, JobFacts, SeqIsPath, PathIsSeq, BoundsAssumption
    <2>3. CASE InTheWay(j, b)
      <3>1. finish(w, "FILE_ALREADY_EXISTS")
        BY <1>6, <2>1, <2>2, <2>3 DEF checkTarget, exists, InTheWay
      <3>2. RightAnswer(j, b, "FILE_ALREADY_EXISTS", files')
        BY <2>1, <2>3 DEF RightAnswer
      <3> QED
        BY <1>3, <3>1, <3>2
    <2>4. CASE ~InTheWay(j, b) /\ finish(w, "PERMISSION_DENIED")
      <3>1. Spared(j, b, files')
        BY <2>1 DEF Spared
      <3>2. RightAnswer(j, b, "PERMISSION_DENIED", files')
        BY <2>1, <2>4, <3>1, DoneRight
      <3> QED
        BY <1>3, <2>4, <3>2
    <2>5. CASE ~InTheWay(j, b) /\ goOn(w, "prepare")
      <3>1. pc'[w] = "prepare"
        BY <2>5 DEF goOn, TypeOK
      <3> QED
        BY <1>1, <2>1, <2>5, <3>1 DEF Quiet
    <2> QED
      BY <1>6, <2>1, <2>2, <2>3, <2>4, <2>5 DEF checkTarget, exists, InTheWay
  <1>7. CASE prepare(w)
    <2>1. /\ files = b /\ j.op \in {"copy", "move"} /\ ~SourceMissing(j, b)
          /\ ~DestMissing(j, b) /\ ~InTheWay(j, b)
      BY <1>7 DEF prepare, Quiet, TypeOK
    <2>2. /\ Spared(j, b, files')
          /\ pc'[w] = "copy" => CopyApart(j, b, files', todo'[w])
      BY <1>1, <1>7, <2>1, CopyStartsApart DEF SourceMissing, DestMissing
    <2>3. CASE finish(w, "PERMISSION_DENIED")
      BY <1>3, <2>1, <2>2, <2>3, DoneRight
    <2>4. CASE \E to : startCopy(w, to)
      <3>1. pc'[w] = "copy"
        BY <2>4 DEF startCopy, goOn, TypeOK
      <3> QED
        BY <1>1, <2>1, <2>2, <3>1 DEF Quiet
    <2> QED
      BY <1>7, <2>3, <2>4 DEF prepare
  <1>8. CASE copyDirectory(w) \/ copyFile(w) \/ copyThrows(w)
    <2>1. /\ pc[w] = "copy" /\ j.op \in {"copy", "move"}
          /\ \/ UNCHANGED <<pc, status>>
             \/ /\ status'[w] \in {"SUCCESS", "PERMISSION_DENIED"}
                /\ pc'[w] = IF j.op = "copy" THEN "idle" ELSE "remove_all"
      BY <1>8, CopyFlow
    <2>2. ~SourceMissing(j, b) /\ ~DestMissing(j, b) /\ ~InTheWay(j, b)
      BY <2>1 DEF Quiet
    <2>3. CASE j.op = "move"
      BY <1>1, <2>1, <2>2, <2>3 DEF Quiet
    <2>4. CASE j.op = "copy"
      <3>1. CopyApart(j, b, files, todo[w]) /\ b[j.dest] # Absent
        BY <2>1, <2>2, <2>4 DEF Quiet, DestMissing
      <3>2. /\ Spared(j, b, files')
            /\ pc'[w] = "copy" => CopyApart(j, b, files', todo'[w])
        BY <1>1, <1>8, <2>1, <3>1, CopyStaysApart
      <3>3. CASE UNCHANGED <<pc, status>>
        BY <1>1, <2>1, <2>2, <2>4, <3>2, <3>3 DEF Quiet
      <3>4. CASE pc'[w] = "idle" /\ status'[w] \in {"SUCCESS", "PERMISSION_DENIED"}
        <4>1. RightAnswer(j, b, status'[w], files')
          BY <2>2, <3>2, <3>4, DoneRight
        <4> QED
          BY <1>1, <3>4, <4>1 DEF Quiet
      <3> QED
        BY <2>1, <2>4, <3>3, <3>4
    <2> QED
      BY <2>1, <2>3, <2>4
  <1>9. CASE removeAll(w)
    <2>1. /\ pc[w] = "remove_all" /\ j.op \in {"move", "remove"}
          /\ ~SourceMissing(j, b) /\ ~DestMissing(j, b) /\ ~InTheWay(j, b)
          /\ j.op = "move" => status[w] \in {"SUCCESS", "PERMISSION_DENIED"}
      BY <1>9 DEF removeAll, Quiet, TypeOK, DestMissing, InTheWay
    <2>2. removed(w) \in {"SUCCESS", "PERMISSION_DENIED"}
      BY <2>1 DEF removed
    <2>3. ASSUME NEW s \in {"SUCCESS", "PERMISSION_DENIED"}, finish(w, s)
          PROVE  Quiet(pc'[w], status'[w], j, b, files', todo'[w])
      BY <1>3, <2>1, <2>3, DoneRight
    <2>4. CASE UNCHANGED <<pc, status>>
      BY <1>1, <2>1, <2>4 DEF Quiet
    <2> QED
      BY <1>9, <2>2, <2>3, <2>4 DEF removeAll
  <1>10. CASE rename(w)
    <2>1. pc[w] = "rename" /\ j.op = "rename" /\ files = b /\ ~SourceMissing(j, b)
      BY <1>10 DEF rename, Quiet, TypeOK
    <2>2. CASE j.newName = BadName
      <3>1. finish(w, "INVALID_DEST_PATH") /\ files' = b
        BY <1>10, <2>1, <2>2 DEF rename
      <3>2. RightAnswer(j, b, "INVALID_DEST_PATH", files')
        BY <2>1, <2>2, <3>1 DEF RightAnswer, DestMissing, InTheWay
      <3> QED
        BY <1>3, <3>1, <3>2
    <2>3. CASE j.newName # BadName
      <3>1. \E s \in {"SUCCESS", "PERMISSION_DENIED"} : finish(w, s)
        BY <1>10, <2>3 DEF rename
      <3>2. ~DestMissing(j, b) /\ ~InTheWay(j, b)
        BY <2>1, <2>3 DEF DestMissing, InTheWay
      <3> QED
        BY <1>3, <2>1, <3>1, <3>2, DoneRight
    <2> QED
      BY <2>2, <2>3
  <1> QED
    BY <1>4, <1>5, <1>6, <1>7, <1>8, <1>9, <1>10 DEF Call

\* A request that is taken up while everybody else is idle.
LEMMA QuietStart ==
  ASSUME TypeOK, NEW w \in Workers, NEW j \in Jobs, takeUp(w, j), alone'[w]
  PROVE  Quiet(pc'[w], status'[w], job'[w], before'[w], files', todo'[w])
  <1>1. /\ job'[w] = j /\ before'[w] = files /\ files' = files
        /\ files \in [Paths -> Held] /\ isTree(files)
    BY DEF takeUp, TypeOK
  <1>2. ASSUME NEW s, finish(w, s), RightAnswer(j, files, s, files)
        PROVE  Quiet(pc'[w], status'[w], j, files, files, todo'[w])
    <2>1. pc'[w] = "idle" /\ status'[w] = s
      BY <1>2 DEF finish, TypeOK
    <2> QED
      BY <1>1, <1>2, <2>1 DEF Quiet
  <1>3. CASE pc' = [pc EXCEPT ![w] = "validate"]
    <2>1. pc'[w] = "validate"
      BY <1>3 DEF TypeOK
    <2> QED
      BY <1>1, <2>1 DEF Quiet
  <1>4. CASE ~exists(j.src) /\ finish(w, "INVALID_SOURCE_PATH")
    <2>1. RightAnswer(j, files, "INVALID_SOURCE_PATH", files)
      BY <1>4 DEF RightAnswer, SourceMissing, InTheWay, exists
    <2> QED
      BY <1>1, <1>2, <1>4, <2>1
  <1>5. CASE /\ j.op \in {"copy", "move"} /\ ~exists(j.dest)
             /\ finish(w, "INVALID_DEST_PATH")
    <2>1. RightAnswer(j, files, "INVALID_DEST_PATH", files)
      BY <1>5 DEF RightAnswer, DestMissing, InTheWay, exists
    <2> QED
      BY <1>1, <1>2, <1>5, <2>1
  <1> QED
    BY <1>3, <1>4, <1>5 DEF takeUp

\* A call moves no worker but its own.
LEMMA OthersWait ==
  ASSUME TypeOK, NEW w \in Workers, Call(w)
  PROVE  \A u \in Workers \ {w} : pc'[u] = pc[u]
  <1>1. \/ UNCHANGED pc
        \/ \E c : pc' = [pc EXCEPT ![w] = c]
    <2>1. \A s : finish(w, s) => pc' = [pc EXCEPT ![w] = "idle"]
      BY DEF finish
    <2>2. \A c : goOn(w, c) => pc' = [pc EXCEPT ![w] = c]
      BY DEF goOn
    <2>3. \A s : afterCopy(w, s) => \E c : pc' = [pc EXCEPT ![w] = c]
      BY <2>1 DEF afterCopy
    <2>4. CASE validate(w) \/ validateDest(w)
      BY <2>1, <2>2, <2>4 DEF validate, validateDest
    <2>5. CASE checkTarget(w) \/ prepare(w)
      BY <2>1, <2>2, <2>5 DEF checkTarget, prepare, startCopy
    <2>6. CASE copyDirectory(w) \/ copyFile(w) \/ copyThrows(w)
      BY <2>3, <2>6 DEF copyDirectory, copyFile, copyThrows, copyRest
    <2>7. CASE removeAll(w) \/ rename(w)
      BY <2>1, <2>7 DEF removeAll, rename
    <2> QED
      BY <2>4, <2>5, <2>6, <2>7 DEF Call
  <1> QED
    BY <1>1 DEF TypeOK

LEMMA QuietKept == TypeOK /\ QuietInv /\ [Next]_vars => QuietInv'
  <1> SUFFICES ASSUME TypeOK, QuietInv, [Next]_vars, NEW v \in Workers, alone'[v]
               PROVE  /\ \A u \in Workers \ {v} : pc'[u] = "idle"
                      /\ Quiet(pc'[v], status'[v], job'[v], before'[v], files', todo'[v])
    BY DEF QuietInv
  <1>1. ASSUME NEW w \in Workers, Call(w)
        PROVE  /\ \A u \in Workers \ {v} : pc'[u] = "idle"
               /\ Quiet(pc'[v], status'[v], job'[v], before'[v], files', todo'[v])
    <2>1. alone' = alone /\ pc[w] # "idle"
      BY <1>1 DEF Call, validate, validateDest, checkTarget, prepare, copyDirectory,
                  copyFile, copyThrows, nextEntries, removeAll, rename, ghosts
    <2>2. /\ \A u \in Workers \ {v} : pc[u] = "idle"
          /\ Quiet(pc[v], status[v], job[v], before[v], files, todo[v])
      BY <2>1 DEF QuietInv
    <2>3. v = w
      BY <2>1, <2>2
    <2>4. \A u \in Workers \ {w} : pc'[u] = pc[u]
      BY <1>1, OthersWait
    <2> QED
      BY <1>1, <2>2, <2>3, <2>4, QuietCall
  <1>2. ASSUME NEW w \in Workers, NEW j \in Jobs, takeUp(w, j)
        PROVE  /\ \A u \in Workers \ {v} : pc'[u] = "idle"
               /\ Quiet(pc'[v], status'[v], job'[v], before'[v], files', todo'[v])
    <2>1. v = w /\ \A u \in Workers : pc[u] = "idle"
      BY <1>2 DEF takeUp
    <2>2. \A u \in Workers \ {w} : pc'[u] = pc[u]
      BY <1>2 DEF takeUp, finish, TypeOK
    <2> QED
      BY <1>2, <2>1, <2>2, QuietStart
  <1>3. CASE UNCHANGED vars
    BY <1>3 DEF vars, ghosts, QuietInv
  <1> QED
    BY <1>1, <1>2, <1>3 DEF Next, Rest

\* A request that is refused while nobody else does anything has to be, and
\* leaves everything as it was; every request that has to be refused is; and
\* a copy that breaks off, however deep in the tree, has not touched what it
\* was reading.
THEOREM RefusalsRight == Spec => []QuietRefusalsRight
  <1>1. Init => QuietInv
    BY DEF Init, QuietInv
  <1>2. QuietInv => QuietRefusalsRight
    <2>1. ASSUME QuietInv, NEW w \in Workers
          PROVE  pc[w] = "idle" /\ alone[w] =>
                   RightAnswer(job[w], before[w], status[w], files)
      BY <2>1 DEF QuietInv, Quiet
    <2> QED
      BY <2>1 DEF QuietRefusalsRight, RightAnswer, Spared, InTheWay, SourceMissing,
                  DestMissing
  <1> QED
    BY <1>1, <1>2, QuietKept, TypeCorrect, PTL DEF Spec

-----------------------------------------------------------------------------
(* Where what is below the target comes from.                              *)

origin(j, p) == j.src \o SubSeq(p, Len(desPath(j)) + 1, Len(p))

LEMMA ConcatFacts ==
  ASSUME NEW s \in Seq(Names), NEW t \in Seq(Names)
  PROVE  /\ s \o t \in Seq(Names) /\ Len(s \o t) = Len(s) + Len(t)
         /\ \A i \in 1..(Len(s) + Len(t)) :
              (s \o t)[i] = IF i <= Len(s) THEN s[i] ELSE t[i - Len(s)]
  <1>1. s \o t \in Seq(Names)
    OBVIOUS
  <1>2. Len(s \o t) = Len(s) + Len(t)
    OBVIOUS
  <1>3. \A i \in 1..(Len(s) + Len(t)) :
          (s \o t)[i] = IF i <= Len(s) THEN s[i] ELSE t[i - Len(s)]
    OBVIOUS
  <1> QED
    BY <1>1, <1>2, <1>3, Zenon

LEMMA OriginFacts ==
  ASSUME NEW j \in Jobs, j.op \in {"copy", "move"},
         NEW p \in Seq(Names), under(p, desPath(j))
  PROVE  /\ origin(j, p) \in Seq(Names)
         /\ Len(origin(j, p)) = Len(j.src) + (Len(p) - Len(desPath(j)))
         /\ \A i \in 1..Len(j.src) : origin(j, p)[i] = j.src[i]
         /\ \A i \in 1..(Len(p) - Len(desPath(j))) :
              origin(j, p)[Len(j.src) + i] = p[Len(desPath(j)) + i]
         /\ under(origin(j, p), j.src)
  <1> DEFINE d == desPath(j)
             m == Len(d)
             k == Len(j.src)
             tail == SubSeq(p, m + 1, Len(p))
  <1>1. /\ d \in Seq(Names) /\ j.src \in Seq(Names) /\ m \in Nat /\ k \in Nat
        /\ Len(p) \in Nat /\ m <= Len(p)
    BY JobFacts, PathIsSeq, UnderFacts
  <1> HIDE DEF m, k, d
  <1>2. /\ tail \in Seq(Names) /\ Len(tail) = Len(p) - m
        /\ \A i \in 1..(Len(p) - m) : tail[i] = p[m + i]
    <2>1. tail \in Seq(Names)
      BY <1>1
    <2>2. Len(tail) = Len(p) - m
      BY <1>1
    <2>3. \A i \in 1..(Len(p) - m) : tail[i] = p[m + i]
      BY <1>1
    <2> QED
      BY <2>1, <2>2, <2>3, Zenon
  <1> HIDE DEF tail
  <1> DEFINE o == j.src \o tail
  <1>3. /\ o \in Seq(Names) /\ Len(o) = k + Len(tail)
        /\ \A i \in 1..(k + Len(tail)) : o[i] = IF i <= k THEN j.src[i] ELSE tail[i - k]
    <2>1. /\ o \in Seq(Names) /\ Len(o) = Len(j.src) + Len(tail)
          /\ \A i \in 1..(Len(j.src) + Len(tail)) :
               o[i] = IF i <= Len(j.src) THEN j.src[i] ELSE tail[i - Len(j.src)]
      BY <1>1, <1>2, ConcatFacts, Zenon
    <2> QED
      BY <2>1 DEF k
  <1>4. origin(j, p) = o
    BY DEF origin, tail, m, d
  <1> HIDE DEF o
  <1>5. \A i \in 1..k : o[i] = j.src[i]
    BY <1>1, <1>2, <1>3, SMTT(30)
  <1>6. ASSUME NEW i \in 1..(Len(p) - m) PROVE o[k + i] = p[m + i]
    <2>1. k + i \in 1..(k + Len(tail)) /\ ~(k + i <= k) /\ (k + i) - k = i
      BY <1>1, <1>2
    <2>2. o[k + i] = tail[(k + i) - k]
      BY <1>3, <2>1
    <2> QED
      BY <1>2, <2>1, <2>2
  <1>7. Len(o) = k + (Len(p) - m)
    BY <1>2, <1>3
  <1> QED
    BY <1>1, <1>3, <1>4, <1>5, <1>6, <1>7 DEF k, m, d, under

\* The target comes from the source, and what is in it from what is there.
LEMMA OriginSteps ==
  ASSUME NEW j \in Jobs, j.op \in {"copy", "move"}
  PROVE  /\ origin(j, desPath(j)) = j.src
         /\ \A p \in Seq(Names), n \in Names :
              under(p, desPath(j)) => origin(j, Append(p, n)) = Append(origin(j, p), n)
         /\ \A p \in Seq(Names), q \in Seq(Names) :
              under(p, desPath(j)) /\ under(q, p) =>
                /\ under(origin(j, q), origin(j, p))
                /\ q # p => origin(j, q) # origin(j, p)
  <1> DEFINE d == desPath(j)
  <1>1. /\ d \in Seq(Names) /\ j.src \in Seq(Names) /\ under(d, d)
        /\ Len(d) \in Nat /\ Len(j.src) \in Nat
    BY JobFacts, PathIsSeq, AboveTarget
  <1>2. origin(j, d) = j.src
    <2>1. /\ origin(j, d) \in Seq(Names) /\ Len(origin(j, d)) = Len(j.src)
          /\ \A i \in 1..Len(j.src) : origin(j, d)[i] = j.src[i]
      BY <1>1, OriginFacts
    <2> QED
      BY <1>1, <2>1, SeqEqual
  <1> HIDE DEF d
  <1>3. ASSUME NEW p \in Seq(Names), NEW q \in Seq(Names), under(p, d), under(q, p)
        PROVE  /\ under(origin(j, q), origin(j, p))
               /\ q # p => origin(j, q) # origin(j, p)
    <2>1. under(q, d) /\ Len(d) <= Len(p) /\ Len(p) <= Len(q)
          /\ Len(p) \in Nat /\ Len(q) \in Nat
          /\ \A i \in 1..Len(p) : q[i] = p[i]
      BY <1>1, <1>3, UnderFacts DEF under
    <2> DEFINE f == origin(j, p)
               g == origin(j, q)
    <2>2. /\ f \in Seq(Names) /\ Len(f) = Len(j.src) + (Len(p) - Len(d))
          /\ \A i \in 1..Len(j.src) : f[i] = j.src[i]
          /\ \A i \in 1..(Len(p) - Len(d)) : f[Len(j.src) + i] = p[Len(d) + i]
      BY <1>3, OriginFacts DEF d
    <2>3. /\ g \in Seq(Names) /\ Len(g) = Len(j.src) + (Len(q) - Len(d))
          /\ \A i \in 1..Len(j.src) : g[i] = j.src[i]
          /\ \A i \in 1..(Len(q) - Len(d)) : g[Len(j.src) + i] = q[Len(d) + i]
      BY <2>1, OriginFacts DEF d
    <2> HIDE DEF f, g
    <2>4. ASSUME NEW i \in 1..Len(f) PROVE g[i] = f[i]
      <3>1. CASE i <= Len(j.src)
        BY <1>1, <2>1, <2>2, <2>3, <2>4, <3>1
      <3>2. CASE i > Len(j.src)
        <4> DEFINE h == i - Len(j.src)
        <4>1. h \in 1..(Len(p) - Len(d)) /\ h \in 1..(Len(q) - Len(d))
              /\ i = Len(j.src) + h /\ Len(d) + h \in 1..Len(p)
          BY <1>1, <2>1, <2>2, <2>4, <3>2
        <4>2. f[i] = p[Len(d) + h] /\ g[i] = q[Len(d) + h]
          BY <2>2, <2>3, <4>1
        <4> QED
          BY <2>1, <4>1, <4>2
      <3> QED
        BY <1>1, <2>2, <2>4, <3>1, <3>2
    <2>5. under(g, f)
      BY <1>1, <2>1, <2>2, <2>3, <2>4 DEF under
    <2>6. q # p => Len(g) # Len(f)
      <3>1. q # p => Len(q) # Len(p)
        BY <1>3, UnderFacts
      <3> QED
        BY <1>1, <2>1, <2>2, <2>3, <3>1
    <2> QED
      BY <2>5, <2>6 DEF f, g
  <1>4. ASSUME NEW p \in Seq(Names), NEW n \in Names, under(p, d)
        PROVE  origin(j, Append(p, n)) = Append(origin(j, p), n)
    <2> DEFINE q == Append(p, n)
               f == origin(j, p)
               g == origin(j, q)
               r == Append(f, n)
    <2>1. /\ q \in Seq(Names) /\ Len(q) = Len(p) + 1 /\ q[Len(p) + 1] = n
          /\ under(q, d) /\ Len(p) \in Nat /\ Len(d) <= Len(p)
      BY <1>1, <1>4, UnderChild, UnderFacts
    <2>2. under(q, p)
      BY DEF under
    <2> HIDE DEF q
    <2>3. f \in Seq(Names) /\ Len(f) = Len(j.src) + (Len(p) - Len(d))
      BY <1>4, OriginFacts DEF d
    <2>4. /\ g \in Seq(Names) /\ Len(g) = Len(j.src) + (Len(q) - Len(d))
          /\ \A i \in 1..(Len(q) - Len(d)) : g[Len(j.src) + i] = q[Len(d) + i]
      BY <2>1, OriginFacts DEF d
    <2>5. under(g, f)
      BY <1>3, <1>4, <2>1, <2>2
    <2> HIDE DEF f, g
    <2>6. Len(g) = Len(f) + 1 /\ Len(f) \in Nat /\ g[Len(f) + 1] = n
      <3> DEFINE h == Len(p) + 1 - Len(d)
      <3>0. /\ Len(p) \in Nat /\ Len(d) \in Nat /\ Len(j.src) \in Nat
            /\ Len(d) <= Len(p) /\ Len(q) = Len(p) + 1
            /\ Len(f) = Len(j.src) + (Len(p) - Len(d))
            /\ Len(g) = Len(j.src) + (Len(q) - Len(d))
        BY <1>1, <2>1, <2>3, <2>4
      <3>1. h \in 1..(Len(q) - Len(d)) /\ Len(d) + h = Len(p) + 1
        BY <3>0
      <3>2. Len(f) + 1 = Len(j.src) + h /\ Len(f) \in Nat /\ Len(g) = Len(f) + 1
        <4> DEFINE x == Len(p)
                   y == Len(d)
                   z == Len(j.src)
        <4>1. /\ x \in Nat /\ y \in Nat /\ z \in Nat /\ y <= x
              /\ Len(f) = z + (x - y) /\ Len(g) = z + (x + 1 - y) /\ h = x + 1 - y
          BY <3>0
        <4> HIDE DEF x, y, z, h
        <4>2. Len(f) + 1 = z + h /\ Len(f) \in Nat /\ Len(g) = Len(f) + 1
          BY <4>1
        <4> QED
          BY <4>2 DEF z
      <3>3. g[Len(j.src) + h] = q[Len(d) + h]
        BY <2>4, <3>1
      <3> HIDE DEF h
      <3> QED
        BY <2>1, <3>1, <3>2, <3>3
    <2>7. /\ r \in Seq(Names) /\ Len(r) = Len(f) + 1 /\ r[Len(f) + 1] = n
          /\ \A i \in 1..Len(f) : r[i] = f[i]
      BY <2>3
    <2> HIDE DEF r
    <2>8. \A i \in 1..Len(g) : g[i] = r[i]
      BY <2>5, <2>6, <2>7 DEF under
    <2>9. g = r
      BY <2>4, <2>6, <2>7, <2>8, SeqEqual
    <2> QED
      BY <2>9 DEF g, r, q, f
  <1> QED
    BY <1>2, <1>3, <1>4 DEF d

-----------------------------------------------------------------------------
(* What a removal leaves.                                                  *)

\* Something exists below src: then something without entries does.
LEMMA LeafBelow ==
  ASSUME NEW t \in [Paths -> Held], NEW src \in Paths,
         NEW p \in Paths, under(p, src), t[p] # Absent
  PROVE  \E q \in Paths : under(q, src) /\ t[q] # Absent /\ entriesOf(t, q) = {}
  <1> DEFINE T == {k \in 0..Depth : \E q \in Paths : /\ under(q, src) /\ t[q] # Absent
                                                     /\ k = Depth - Len(q)}
  <1>1. \A q \in Paths : q \in Seq(Names) /\ Len(q) \in Nat /\ Depth - Len(q) \in 0..Depth
    BY PathIsSeq, BoundsAssumption
  <1>2. T \in SUBSET Nat /\ T # {}
    <2>1. Depth - Len(p) \in T
      BY <1>1
    <2>2. T \in SUBSET Nat
      BY BoundsAssumption
    <2> HIDE DEF T
    <2> QED
      BY <2>1, <2>2
  <1>3. PICK m \in T : \A n \in T : m <= n
    <2> HIDE DEF T
    <2> QED
      BY <1>2, NatLeast
  <1>4. PICK q \in Paths : under(q, src) /\ t[q] # Absent /\ m = Depth - Len(q)
    BY <1>3
  <1>5. ASSUME NEW n \in entriesOf(t, q) PROVE FALSE
    <2> DEFINE c == Append(q, n)
    <2>1. n \in Names /\ c \in Paths /\ t[c] # Absent
      BY <1>5 DEF entriesOf
    <2>2. under(c, src)
      BY <1>1, <1>4, <2>1, UnderChild
    <2>3. Len(c) = Len(q) + 1
      BY <1>1, <2>1
    <2> HIDE DEF c
    <2>4. Depth - Len(c) \in T
      BY <1>1, <2>1, <2>2
    <2>5. Depth - Len(c) < m
      BY <1>1, <1>4, <2>1, <2>3, BoundsAssumption
    <2>6. m <= Depth - Len(c)
      BY <1>3, <2>4
    <2> QED
      BY <1>1, <1>3, <2>1, <2>5, <2>6, BoundsAssumption
  <1> QED
    BY <1>4, <1>5

\* What exists below a path exists in one of its entries.
LEMMA EntryAbove ==
  ASSUME NEW t \in [Paths -> Held], isTree(t), NEW p \in Paths,
         NEW q \in Paths, under(q, p), q # p, t[q] # Absent
  PROVE  q[Len(p) + 1] \in entriesOf(t, p) /\ under(q, Append(p, q[Len(p) + 1]))
  <1> DEFINE k == Len(p) + 1
             n == q[k]
             c == Append(p, n)
  <1>1. /\ p \in Seq(Names) /\ q \in Seq(Names) /\ Len(p) \in Nat /\ Len(q) \in Nat
        /\ k \in 1..Len(q) /\ Len(q) <= Depth
    BY PathIsSeq, UnderFacts, BoundsAssumption
  <1>2. n \in Names
    BY <1>1
  <1> HIDE DEF n
  <1>3. /\ c \in Seq(Names) /\ Len(c) = k
        /\ \A i \in 1..Len(p) : c[i] = p[i]
    BY <1>1, <1>2
  <1>4. c[k] = n
    BY <1>1, <1>2
  <1> HIDE DEF c
  <1>5. under(q, c)
    <2>1. ASSUME NEW i \in 1..Len(c) PROVE q[i] = c[i]
      <3>1. i \in 1..Len(p) \/ i = k
        BY <1>1, <1>3
      <3> QED
        BY <1>3, <1>4, <3>1 DEF under, n
    <2> QED
      BY <1>1, <1>3, <2>1 DEF under
  <1>6. c \in Paths
    BY <1>1, <1>3, SeqIsPath, BoundsAssumption
  <1>7. t[c] # Absent
    <2>1. CASE q = c
      BY <2>1
    <2>2. CASE q # c
      BY <1>5, <1>6, <2>2, DeepTree, ValuesAssumption
    <2> QED
      BY <2>1, <2>2
  <1> QED
    BY <1>2, <1>5, <1>6, <1>7 DEF entriesOf, c, n

\* Outside of the source everything is as in the tree b.
Removing(j, b, tree) == \A p \in Paths : ~under(p, j.src) => tree[p] = b[p]

LEMMA RemovalSteps ==
  ASSUME TypeOK, NEW w \in Workers, removeAll(w), NEW b, b \in [Paths -> Held],
         Removing(job[w], b, files)
  PROVE  \/ UNCHANGED <<pc, status>> /\ Removing(job[w], b, files')
         \/ finish(w, removed(w)) /\ files' = without(b, job[w].src)
         \/ finish(w, "PERMISSION_DENIED")
  <1> DEFINE j == job[w]
  <1>1. /\ j \in Jobs /\ j.src \in Paths /\ j.src \in Seq(Names)
        /\ files \in [Paths -> Held] /\ isTree(files)
    BY JobFacts, PathIsSeq DEF removeAll, TypeOK
  <1> DEFINE leaves == {p \in Paths : /\ under(p, j.src) /\ exists(p)
                                      /\ entriesOf(files, p) = {}}
  <1>2. CASE leaves = {} /\ UNCHANGED files /\ finish(w, removed(w))
    <2>1. \A p \in Paths : under(p, j.src) => files[p] = Absent
      BY <1>1, <1>2, LeafBelow DEF exists
    <2>2. files' = without(b, j.src)
      BY <1>1, <1>2, <2>1 DEF Removing, without
    <2> QED
      BY <1>2, <2>2
  <1>3. ASSUME NEW p \in leaves, files' = [files EXCEPT ![p] = Absent]
        PROVE  Removing(j, b, files')
    BY <1>1, <1>3 DEF Removing
  <1>4. ASSUME j.src \in leaves, files' = [files EXCEPT ![j.src] = Absent]
        PROVE  files' = without(b, j.src)
    <2>1. \A q \in Paths : under(q, j.src) /\ q # j.src => files[q] = Absent
      BY <1>1, <1>4, EntryAbove
    <2>2. files'[j.src] = Absent
      BY <1>1, <1>4
    <2>3. ASSUME NEW q \in Paths
          PROVE  files'[q] = IF under(q, j.src) THEN Absent ELSE b[q]
      <3>1. Removing(j, b, files')
        BY <1>3, <1>4
      <3>2. q # j.src => files'[q] = files[q]
        BY <1>1, <1>4
      <3> QED
        BY <1>1, <2>1, <2>2, <2>3, <3>1, <3>2 DEF Removing
    <2>4. files' \in [Paths -> Held]
      BY <1>1, <1>4 DEF Held
    <2> QED
      BY <2>3, <2>4 DEF without
  <1>5. \/ leaves = {} /\ UNCHANGED files /\ finish(w, removed(w))
        \/ \E p \in leaves : /\ files' = [files EXCEPT ![p] = Absent]
                             /\ p # j.src /\ UNCHANGED <<pc, status>>
        \/ j.src \in leaves /\ files' = [files EXCEPT ![j.src] = Absent]
                             /\ finish(w, removed(w))
        \/ finish(w, "PERMISSION_DENIED")
    BY DEF removeAll
  <1> HIDE DEF leaves
  <1> QED
    BY <1>2, <1>3, <1>4, <1>5

-----------------------------------------------------------------------------
(* A copy that goes well: for every entry it has done, the tree is as it   *)
(* is to be in the end, and for the others it is as it was.                *)

\* The copy neither reads what it writes nor meets what it cannot replace.
Apart(j, b) ==
  /\ b[j.dest] = Dir /\ ~under(j.dest, j.src)
  /\ agreeing(j, b) /\ ~under(j.src, desPath(j))

\* Something still has to be copied to the path, or to a path above it.
Pending(es, p) == \E e \in es : under(p, e[2])

CopiedSoFar(j, b, tree, es) ==
  /\ b[j.src] = Dir
  /\ \A e \in es : /\ under(e[2], desPath(j)) /\ e[1] = origin(j, e[2])
                   /\ b[e[1]] # Absent
                   /\ \A o \in es : under(o[2], e[2]) => o = e
  /\ \A p \in Paths :
       /\ ~under(p, desPath(j)) => tree[p] = b[p]
       /\ under(p, desPath(j)) /\ ~Pending(es, p) => tree[p] = copiedTree(j, b)[p]
       /\ Pending(es, p) /\ p # desPath(j) => tree[p] = b[p]
  /\ desPath(j) \in Paths =>
       tree[desPath(j)] \in {b[desPath(j)], copiedTree(j, b)[desPath(j)]}

\* A file is copied in one call.
FileTodo(j, b, tree, es) ==
  isFile(b[j.src]) /\ es = {<<j.src, j.dest>>} /\ tree = b

\* The target of a path is what comes to it from the source, where that may
\* be put there, and what was there.
LEMMA CopiedFacts ==
  ASSUME NEW j \in Jobs, j.op \in {"copy", "move"},
         NEW b \in [Paths -> Held]
  PROVE  /\ copiedTree(j, b) \in [Paths -> Held]
         /\ \A p \in Paths : copiedTree(j, b)[p] =
              IF /\ under(p, desPath(j)) /\ origin(j, p) \in Paths
                 /\ b[origin(j, p)] # Absent
                 /\ b[p] = Absent \/ (j.overwrite /\ isFile(b[origin(j, p)]))
              THEN b[origin(j, p)] ELSE b[p]
  <1>1. copiedTree(j, b) =
          [p \in Paths |->
             IF /\ under(p, desPath(j)) /\ origin(j, p) \in Paths
                /\ b[origin(j, p)] # Absent
                /\ b[p] = Absent \/ (j.overwrite /\ isFile(b[origin(j, p)]))
             THEN b[origin(j, p)] ELSE b[p]]
    BY DEF copiedTree, origin
  <1> QED
    BY <1>1

\* Nothing is both in the source and in the target.
LEMMA Separate ==
  ASSUME NEW j \in Jobs, j.op \in {"copy", "move"}, ~under(j.dest, j.src),
         ~under(j.src, desPath(j)), NEW p \in Seq(Names), under(p, j.src)
  PROVE  ~under(p, desPath(j))
  <1> SUFFICES ASSUME under(p, desPath(j)) PROVE FALSE
    OBVIOUS
  <1>1. /\ j.src \in Seq(Names) /\ j.dest \in Seq(Names)
        /\ desPath(j) \in Seq(Names) /\ Len(desPath(j)) = Len(j.dest) + 1
        /\ \A i \in 1..Len(j.dest) : desPath(j)[i] = j.dest[i]
    BY JobFacts, PathIsSeq DEF under
  <1>2. under(desPath(j), j.src)
    BY <1>1, UnderBoth
  <1>3. j.src # desPath(j)
    <2>1. under(desPath(j), desPath(j))
      BY AboveTarget
    <2> QED
      BY <2>1
  <1>4. Len(j.src) <= Len(j.dest)
    BY <1>1, <1>2, <1>3, UnderFacts
  <1> QED
    BY <1>1, <1>2, <1>4 DEF under

\* What is left when an entry e has been copied.
restOf(es, b, e) ==
  (es \ {e}) \cup {<<Append(e[1], n), Append(e[2], n)>> : n \in entriesOf(b, e[1])}

LEMMA KidFacts ==
  ASSUME NEW b, NEW u \in Paths, NEW v \in Seq(Names), NEW n \in entriesOf(b, u)
  PROVE  /\ n \in Names /\ Append(u, n) \in Paths /\ b[Append(u, n)] # Absent
         /\ Append(v, n) \in Seq(Names) /\ Append(v, n) # v
         /\ Len(Append(v, n)) = Len(v) + 1
         /\ under(Append(v, n), v) /\ ~under(v, Append(v, n))
  <1>1. n \in Names /\ Append(u, n) \in Paths /\ b[Append(u, n)] # Absent
    BY DEF entriesOf
  <1>2. Append(v, n) \in Seq(Names) /\ Len(Append(v, n)) = Len(v) + 1
    BY <1>1, ChildFacts
  <1>3. under(v, v)
    BY DEF under
  <1>4. under(Append(v, n), v)
    BY <1>1, <1>3, UnderChild
  <1>5. Len(v) \in Nat
    OBVIOUS
  <1>6. ~under(v, Append(v, n))
    BY <1>2, <1>5 DEF under
  <1> QED
    BY <1>1, <1>2, <1>3, <1>4, <1>6

\* Two paths with the same last step are the same, or nothing is below both.
LEMMA KidsApart ==
  ASSUME NEW v \in Seq(Names), NEW n \in Names, NEW m \in Names,
         under(Append(v, n), Append(v, m))
  PROVE  n = m
  <1> DEFINE f == Append(v, n)
             g == Append(v, m)
             k == Len(v) + 1
  <1>1. f[k] = n
    OBVIOUS
  <1>2. g[k] = m
    OBVIOUS
  <1>3. Len(g) = k /\ k \in Nat /\ 1 <= k
    OBVIOUS
  <1> HIDE DEF f, g, k
  <1>4. under(f, g)
    BY DEF f, g
  <1>5. f[k] = g[k]
    BY <1>3, <1>4 DEF under
  <1> QED
    BY <1>1, <1>2, <1>5

\* The entries of what was copied are apart from those that are left.
LEMMA RestApart ==
  ASSUME NEW j \in Jobs, j.op \in {"copy", "move"},
         NEW b \in [Paths -> Held], NEW tree,
         NEW es \in SUBSET (Paths \X Seq(Names)),
         CopiedSoFar(j, b, tree, es), NEW e \in es
  PROVE  \A x \in restOf(es, b, e) :
           /\ x[1] \in Paths /\ x[2] \in Seq(Names)
           /\ under(x[2], desPath(j)) /\ x[1] = origin(j, x[2])
           /\ b[x[1]] # Absent
           /\ \A o \in restOf(es, b, e) : under(o[2], x[2]) => o = x
           /\ ~under(e[2], x[2])
           /\ x \in es \/ under(x[2], e[2])
  <1> DEFINE kid(n) == <<Append(e[1], n), Append(e[2], n)>>
             old == es \ {e}
             d == desPath(j)
  <1>1. \A x \in es : x[1] \in Paths /\ x[2] \in Seq(Names)
    OBVIOUS
  <1>2. \A x \in es : /\ under(x[2], d) /\ x[1] = origin(j, x[2])
                      /\ b[x[1]] # Absent
                      /\ \A o \in es : under(o[2], x[2]) => o = x
    BY DEF CopiedSoFar
  <1>3. \A n \in entriesOf(b, e[1]) :
          /\ n \in Names /\ kid(n)[1] = Append(e[1], n) /\ kid(n)[2] = Append(e[2], n)
          /\ kid(n)[1] \in Paths /\ b[kid(n)[1]] # Absent
          /\ kid(n)[2] \in Seq(Names)
          /\ under(kid(n)[2], e[2]) /\ ~under(e[2], kid(n)[2])
    BY <1>1, KidFacts
  <1>4. \A n \in entriesOf(b, e[1]) :
          under(kid(n)[2], d) /\ kid(n)[1] = origin(j, kid(n)[2])
    <2> TAKE n \in entriesOf(b, e[1])
    <2>1. d \in Seq(Names) /\ e[2] \in Seq(Names) /\ under(e[2], d) /\ e[1] = origin(j, e[2])
      BY <1>1, <1>2, JobFacts
    <2>2. under(Append(e[2], n), d)
      BY <1>3, <2>1, UnderChild
    <2>3. origin(j, Append(e[2], n)) = Append(origin(j, e[2]), n)
      BY <1>3, <2>1, OriginSteps
    <2> QED
      BY <1>3, <2>1, <2>2, <2>3
  <1>5. \A n \in entriesOf(b, e[1]), m \in entriesOf(b, e[1]) :
          under(kid(n)[2], kid(m)[2]) => n = m
    BY <1>1, <1>3, KidsApart
  \* What is below an entry is below e, and nothing that is left is above it.
  <1>6. \A x \in old, n \in entriesOf(b, e[1]) :
          ~under(x[2], kid(n)[2]) /\ ~under(kid(n)[2], x[2])
    <2> TAKE x \in old, n \in entriesOf(b, e[1])
    <2>1. x \in es /\ x # e /\ x[2] \in Seq(Names) /\ e[2] \in Seq(Names)
      BY <1>1
    <2>2. ~under(x[2], e[2]) /\ ~under(e[2], x[2])
      BY <1>2, <2>1
    <2>3. ~under(x[2], kid(n)[2])
      <3> SUFFICES ASSUME under(x[2], kid(n)[2]) PROVE FALSE
        OBVIOUS
      <3>1. kid(n)[2] \in Seq(Names) /\ under(kid(n)[2], e[2])
        BY <1>3
      <3> HIDE DEF kid
      <3> QED
        BY <2>1, <2>2, <3>1, UnderFacts
    <2>4. ~under(kid(n)[2], x[2])
      <3> SUFFICES ASSUME under(kid(n)[2], x[2]) PROVE FALSE
        OBVIOUS
      <3>1. kid(n)[2] \in Seq(Names) /\ under(kid(n)[2], e[2])
        BY <1>3
      <3> HIDE DEF kid
      <3> QED
        BY <2>1, <2>2, <3>1, UnderBoth
    <2> QED
      BY <2>3, <2>4
  <1>7. restOf(es, b, e) = old \cup {kid(n) : n \in entriesOf(b, e[1])}
    BY DEF restOf
  <1>8. \A x \in old : x \in es /\ ~under(e[2], x[2])
    BY <1>2
  <1> HIDE DEF kid, old, d
  <1>9. ASSUME NEW x \in old
        PROVE  /\ x[1] \in Paths /\ x[2] \in Seq(Names)
               /\ under(x[2], d) /\ x[1] = origin(j, x[2])
               /\ b[x[1]] # Absent
               /\ \A o \in restOf(es, b, e) : under(o[2], x[2]) => o = x
               /\ ~under(e[2], x[2])
               /\ x \in es
    BY <1>1, <1>2, <1>6, <1>7, <1>8
  <1>10. ASSUME NEW n \in entriesOf(b, e[1])
         PROVE  /\ kid(n)[1] \in Paths /\ kid(n)[2] \in Seq(Names)
                /\ under(kid(n)[2], d) /\ kid(n)[1] = origin(j, kid(n)[2])
                /\ b[kid(n)[1]] # Absent
                /\ \A o \in restOf(es, b, e) : under(o[2], kid(n)[2]) => o = kid(n)
                /\ ~under(e[2], kid(n)[2])
                /\ under(kid(n)[2], e[2])
    <2>1. \A o \in restOf(es, b, e) : under(o[2], kid(n)[2]) => o = kid(n)
      BY <1>5, <1>6, <1>7
    <2> QED
      BY <1>3, <1>4, <2>1
  <1> QED
    BY <1>7, <1>9, <1>10 DEF d

\* What the source has below a path of the target, an entry brings there.
LEMMA BroughtByKid ==
  ASSUME NEW j \in Jobs, j.op \in {"copy", "move"},
         NEW b \in [Paths -> Held], isTree(b),
         NEW u \in Paths, NEW v \in Seq(Names), under(v, desPath(j)), u = origin(j, v),
         NEW p \in Paths, under(p, v), p # v,
         origin(j, p) \in Paths, b[origin(j, p)] # Absent
  PROVE  \E n \in entriesOf(b, u) : under(p, Append(v, n))
  <1> DEFINE q == origin(j, p)
             n == q[Len(u) + 1]
             k == Len(v) + 1
             d == desPath(j)
  <1>1. /\ p \in Seq(Names) /\ d \in Seq(Names) /\ j.src \in Seq(Names)
        /\ u \in Seq(Names)
    BY PathIsSeq, JobFacts
  <1>2. under(p, d)
    BY <1>1, UnderFacts
  <1>3. under(q, u) /\ q # u
    BY <1>1, OriginSteps
  <1>4. n \in entriesOf(b, u)
    BY <1>3, EntryAbove
  <1>5. /\ Len(u) = Len(j.src) + (Len(v) - Len(d))
        /\ \A i \in 1..(Len(p) - Len(d)) : q[Len(j.src) + i] = p[Len(d) + i]
    BY <1>1, <1>2, OriginFacts
  <1>6. /\ Len(d) <= Len(v) /\ Len(v) < Len(p)
        /\ Len(d) \in Nat /\ Len(v) \in Nat /\ Len(p) \in Nat /\ Len(j.src) \in Nat
    BY <1>1, UnderFacts
  <1>7. n = p[k]
    <2> DEFINE i == Len(v) - Len(d) + 1
    <2>1. i \in 1..(Len(p) - Len(d))
      BY <1>6
    <2>2. Len(u) = Len(j.src) + (Len(v) - Len(d))
      BY <1>5
    <2>3. \A f \in Nat, g \in Nat, h \in Nat :
            f + (g - h + 1) = f + (g - h) + 1 /\ h + (g - h + 1) = g + 1
      OBVIOUS
    <2> HIDE DEF d
    <2>4. Len(d) + i = k
      BY <1>6, <2>3
    <2>6. Len(j.src) + i = Len(u) + 1
      <3> DEFINE lu == Len(u)
                 ls == Len(j.src)
                 lv == Len(v)
                 ld == Len(d)
      <3>1. lu = ls + (lv - ld) /\ ls \in Nat /\ lv \in Nat /\ ld \in Nat
        BY <1>6, <2>2
      <3>2. i = lv - ld + 1
        OBVIOUS
      <3> HIDE DEF lu, ls, lv, ld, i
      <3>3. ls + i = lu + 1
        BY <3>1, <3>2
      <3> QED
        BY <3>3 DEF lu, ls
    <2> HIDE DEF i, q, k
    <2>5. q[Len(j.src) + i] = p[Len(d) + i]
      BY <1>5, <2>1
    <2> QED
      BY <2>4, <2>5, <2>6
  <1>8. n \in Names
    BY <1>4 DEF entriesOf
  <1> HIDE DEF n, q, d
  <1>9. /\ Len(Append(v, n)) = k /\ k \in Nat /\ k <= Len(p)
        /\ \A i \in 1..Len(v) : Append(v, n)[i] = v[i]
    BY <1>6, <1>8, ChildFacts
  <1>10. Append(v, n)[k] = n
    OBVIOUS
  <1>11. under(p, Append(v, n))
    <2> DEFINE g == Append(v, n)
    <2> HIDE DEF g
    <2>1. ASSUME NEW i \in 1..Len(g) PROVE p[i] = g[i]
      <3>1. i \in 1..Len(v) \/ i = k
        BY <1>6, <1>9 DEF g
      <3>2. CASE i \in 1..Len(v)
        BY <1>9, <3>2 DEF under, g
      <3>3. CASE i = k
        BY <1>7, <1>10, <3>3 DEF g
      <3> QED
        BY <3>1, <3>2, <3>3
    <2>2. Len(g) <= Len(p)
      BY <1>9 DEF g
    <2>3. under(p, g)
      BY <2>1, <2>2 DEF under
    <2> QED
      BY <2>3 DEF g
  <1> QED
    BY <1>4, <1>11

\* An entry is done.
LEMMA EntryDone ==
  ASSUME NEW j \in Jobs, j.op \in {"copy", "move"},
         NEW b \in [Paths -> Held], isTree(b), NEW tree \in [Paths -> Held],
         NEW es \in SUBSET (Paths \X Seq(Names)),
         CopiedSoFar(j, b, tree, es), NEW e \in es, e[2] \in Paths
  PROVE  CopiedSoFar(j, b, [tree EXCEPT ![e[2]] = copiedTree(j, b)[e[2]]],
                     restOf(es, b, e))
  <1> DEFINE rest == restOf(es, b, e)
             v == e[2]
             d == desPath(j)
             c == copiedTree(j, b)
             t2 == [tree EXCEPT ![v] = c[v]]
  <1>1. /\ \A x \in rest : /\ x[1] \in Paths /\ x[2] \in Seq(Names)
                           /\ under(x[2], d) /\ x[1] = origin(j, x[2])
                           /\ b[x[1]] # Absent
                           /\ \A o \in rest : under(o[2], x[2]) => o = x
                           /\ ~under(v, x[2])
                           /\ x \in es \/ under(x[2], v)
        /\ v \in Seq(Names) /\ e[1] \in Paths /\ d \in Seq(Names)
    BY RestApart, JobFacts
  <1>2. /\ b[j.src] = Dir /\ under(v, d) /\ e[1] = origin(j, v)
        /\ \A p \in Paths :
             /\ ~under(p, d) => tree[p] = b[p]
             /\ under(p, d) /\ ~Pending(es, p) => tree[p] = c[p]
             /\ Pending(es, p) /\ p # d => tree[p] = b[p]
        /\ d \in Paths => tree[d] \in {b[d], c[d]}
    BY DEF CopiedSoFar
  <1>3. es \ {e} \subseteq rest
    BY DEF restOf
  <1>4. \A n \in entriesOf(b, e[1]) : \E x \in rest : x[2] = Append(v, n)
    <2> TAKE n \in entriesOf(b, e[1])
    <2>1. <<Append(e[1], n), Append(v, n)>> \in rest
      BY DEF restOf
    <2>2. <<Append(e[1], n), Append(v, n)>>[2] = Append(v, n)
      OBVIOUS
    <2> HIDE DEF v, rest
    <2> QED
      BY <2>1, <2>2
  <1>5. /\ t2[v] = c[v]
        /\ \A p \in Paths : p # v => t2[p] = tree[p]
    OBVIOUS
  <1> HIDE DEF rest, t2, c
  <1>6. ASSUME NEW p \in Paths, Pending(rest, p)
        PROVE  Pending(es, p) /\ p # v
    <2>1. PICK x \in rest : under(p, x[2])
      BY <1>6 DEF Pending
    <2>2. p \in Seq(Names) /\ x[2] \in Seq(Names)
      BY <1>1, PathIsSeq
    <2>3. p # v
      BY <1>1, <2>1
    <2>4. CASE x \in es
      BY <2>1, <2>3, <2>4 DEF Pending
    <2>5. CASE under(x[2], v)
      <3>1. under(p, v)
        BY <1>1, <2>1, <2>2, <2>5, UnderFacts
      <3> QED
        BY <2>3, <3>1 DEF Pending
    <2> QED
      BY <1>1, <2>4, <2>5
  <1>7. ASSUME NEW p \in Paths, Pending(es, p), ~Pending(rest, p)
        PROVE  under(p, v)
    BY <1>3, <1>7 DEF Pending
  <1>8. ASSUME NEW p \in Paths, under(p, v), p # v, ~Pending(rest, p)
        PROVE  c[p] = b[p] /\ p # d
    <2>1. ~(origin(j, p) \in Paths /\ b[origin(j, p)] # Absent)
      <3> SUFFICES ASSUME origin(j, p) \in Paths, b[origin(j, p)] # Absent
                   PROVE  FALSE
        OBVIOUS
      <3>1. PICK n \in entriesOf(b, e[1]) : under(p, Append(v, n))
        BY <1>1, <1>2, <1>8, BroughtByKid
      <3> QED
        BY <1>4, <1>8, <3>1 DEF Pending
    <2>2. c[p] = b[p]
      BY <2>1, CopiedFacts DEF c
    <2>3. p # d
      BY <1>1, <1>2, <1>8, PathIsSeq, UnderFacts
    <2> QED
      BY <2>2, <2>3
  <1>9. ASSUME NEW p \in Paths
        PROVE  /\ ~under(p, d) => t2[p] = b[p]
               /\ under(p, d) /\ ~Pending(rest, p) => t2[p] = c[p]
               /\ Pending(rest, p) /\ p # d => t2[p] = b[p]
    <2>1. ~under(p, d) => t2[p] = b[p]
      BY <1>2, <1>5
    <2>2. ASSUME under(p, d), ~Pending(rest, p) PROVE t2[p] = c[p]
      <3>1. CASE p = v
        BY <1>5, <3>1
      <3>2. CASE p # v /\ ~Pending(es, p)
        BY <1>2, <1>5, <2>2, <3>2
      <3>3. CASE p # v /\ Pending(es, p)
        BY <1>2, <1>5, <1>7, <1>8, <2>2, <3>3
      <3> QED
        BY <3>1, <3>2, <3>3
    <2>3. Pending(rest, p) /\ p # d => t2[p] = b[p]
      BY <1>2, <1>5, <1>6
    <2> QED
      BY <2>1, <2>2, <2>3
  <1>10. d \in Paths => t2[d] \in {b[d], c[d]}
    BY <1>2, <1>5
  <1>11. CopiedSoFar(j, b, t2, rest)
    BY <1>1, <1>2, <1>9, <1>10 DEF CopiedSoFar, c
  <1> QED
    BY <1>11 DEF t2, rest, c

\* When nothing is left, the tree is as it is to be in the end.
LEMMA AllDone ==
  ASSUME NEW j \in Jobs, j.op \in {"copy", "move"},
         NEW b \in [Paths -> Held], NEW tree \in [Paths -> Held],
         CopiedSoFar(j, b, tree, {})
  PROVE  tree = copiedTree(j, b)
  <1>1. \A p \in Paths : ~Pending({}, p)
    BY DEF Pending
  <1>2. \A p \in Paths : ~under(p, desPath(j)) => copiedTree(j, b)[p] = b[p]
    BY CopiedFacts
  <1>3. \A p \in Paths : tree[p] = copiedTree(j, b)[p]
    BY <1>1, <1>2 DEF CopiedSoFar
  <1> QED
    BY <1>3, CopiedFacts

\* What a copy reads is as it was found.
LEMMA SourceUntouched ==
  ASSUME NEW j \in Jobs, j.op \in {"copy", "move"}, NEW b, Apart(j, b),
         NEW tree, NEW es, CopiedSoFar(j, b, tree, es),
         NEW p \in Paths, under(p, j.src)
  PROVE  ~under(p, desPath(j)) /\ tree[p] = b[p]
  <1>1. ~under(p, desPath(j))
    BY Separate, PathIsSeq DEF Apart
  <1> QED
    BY <1>1 DEF CopiedSoFar

\* The one call that copies a file.
LEMMA FileIsCopied ==
  ASSUME TypeOK, NEW w \in Workers, NEW b, b \in [Paths -> Held], isTree(b),
         Apart(job[w], b), copyDirectory(w) \/ copyFile(w),
         FileTodo(job[w], b, files, todo[w])
  PROVE  afterCopy(w, "SUCCESS") /\ files' = copiedTree(job[w], b)
  <1> DEFINE j == job[w]
             e == <<j.src, j.dest>>
             d == desPath(j)
             c == copiedTree(j, b)
  <1>1. todo[w] = {e} /\ files = b /\ isFile(b[j.src]) /\ e[1] = j.src /\ e[2] = j.dest
    BY DEF FileTodo
  <1>2. nextEntries(w) \subseteq {e}
    BY <1>1 DEF nextEntries
  <1>3. ~copyDirectory(w)
    BY <1>1, <1>2 DEF copyDirectory, isFile
  <1>4. PICK x \in nextEntries(w) :
          /\ isFile(files[x[1]]) /\ takesFile(x)
          /\ files' = [files EXCEPT ![targetOf(x)] =
                         IF job[w].overwrite \/ @ = Absent THEN files[x[1]] ELSE @]
          /\ copyRest(w, todo[w] \ {x})
    BY <1>3 DEF copyFile
  <1>5. x = e
    BY <1>2, <1>4
  <1>6. j \in Jobs /\ j.op \in {"copy", "move"}
    BY <1>4, EntryFacts
  <1>7. /\ j.src \in Paths /\ j.dest \in Paths /\ d \in Seq(Names)
        /\ b[j.dest] = Dir
    BY <1>6, JobFacts DEF Apart
  <1>8. targetOf(e) = d
    BY <1>1, <1>7 DEF targetOf, desPath
  <1>9. d \in Paths
    BY <1>4, <1>5, <1>8 DEF takesFile
  <1> HIDE DEF d
  <1>10. afterCopy(w, "SUCCESS")
    <2>1. todo[w] \ {x} = {}
      BY <1>1, <1>5
    <2> QED
      BY <1>4, <2>1 DEF copyRest
  <1>11. files' = [b EXCEPT ![d] = IF j.overwrite \/ b[d] = Absent THEN b[j.src]
                                   ELSE b[d]]
    BY <1>1, <1>4, <1>5, <1>8
  <1>12. ASSUME NEW p \in Paths PROVE files'[p] = c[p]
    <2>1. c[p] = IF /\ under(p, d) /\ origin(j, p) \in Paths
                    /\ b[origin(j, p)] # Absent
                    /\ b[p] = Absent \/ (j.overwrite /\ isFile(b[origin(j, p)]))
                 THEN b[origin(j, p)] ELSE b[p]
      BY <1>6, CopiedFacts DEF d
    <2>2. CASE p = d
      <3>1. origin(j, p) = j.src /\ under(p, d)
        BY <1>6, <2>2, OriginSteps, AboveTarget DEF d
      <3>2. b[j.src] # Absent
        BY <1>1 DEF isFile
      <3>3. c[p] = IF j.overwrite \/ b[d] = Absent THEN b[j.src] ELSE b[d]
        BY <1>1, <1>7, <2>1, <2>2, <3>1, <3>2
      <3>4. files'[p] = IF j.overwrite \/ b[d] = Absent THEN b[j.src] ELSE b[d]
        BY <1>9, <1>11, <2>2
      <3> QED
        BY <3>3, <3>4
    <2>3. CASE p # d
      <3>1. files'[p] = b[p]
        BY <1>11, <2>3
      <3>2. ASSUME under(p, d), origin(j, p) \in Paths PROVE b[origin(j, p)] = Absent
        <4>1. p \in Seq(Names) /\ under(d, d)
          BY <1>6, PathIsSeq, AboveTarget DEF d
        <4>2. under(origin(j, p), j.src)
          BY <1>6, <3>2, <4>1, OriginFacts DEF d
        <4>3. origin(j, p) # j.src
          BY <1>6, <1>7, <2>3, <3>2, <4>1, OriginSteps DEF d
        <4> QED
          BY <1>1, <1>7, <3>2, <4>2, <4>3, DeepTree DEF isFile
      <3> QED
        BY <2>1, <3>1, <3>2
    <2> QED
      BY <2>2, <2>3
  <1>13. c \in [Paths -> Held] /\ files' \in [Paths -> Held]
    <2>1. c \in [Paths -> Held]
      BY <1>6, CopiedFacts
    <2>2. files' = [p \in Paths |-> files'[p]]
      BY <1>11
    <2> HIDE DEF c
    <2> QED
      BY <1>12, <2>1, <2>2
  <1> HIDE DEF c
  <1>14. files' = c
    BY <1>12, <1>13
  <1> QED
    BY <1>10, <1>14 DEF c

\* What one call of the copy of a directory puts at the path of its entry.
LEMMA EntryIsCopied ==
  ASSUME TypeOK, NEW w \in Workers, NEW b, b \in [Paths -> Held], isTree(b),
         Apart(job[w], b), CopiedSoFar(job[w], b, files, todo[w]),
         NEW e \in nextEntries(w),
         \/ /\ files[e[1]] = Dir /\ takesDir(e[2])
            /\ files' = [files EXCEPT ![e[2]] = Dir]
         \/ /\ isFile(files[e[1]]) /\ takesFile(e)
            /\ files' = [files EXCEPT ![targetOf(e)] =
                           IF job[w].overwrite \/ @ = Absent THEN files[e[1]] ELSE @]
  PROVE  /\ e[2] \in Paths
         /\ files' = [files EXCEPT ![e[2]] = copiedTree(job[w], b)[e[2]]]
  <1> DEFINE j == job[w]
             d == desPath(j)
             c == copiedTree(j, b)
             u == e[1]
             v == e[2]
  <1>1. /\ j \in Jobs /\ j.op \in {"copy", "move"} /\ e \in todo[w]
        /\ u \in Paths /\ v \in Seq(Names) /\ under(u, j.src)
    BY EntryFacts
  <1>2. /\ files \in [Paths -> Held] /\ j.src \in Paths
    BY <1>1, JobFacts DEF TypeOK
  <1>3. files[u] = b[u]
    BY <1>1, SourceUntouched
  <1>4. /\ b[j.src] = Dir /\ under(v, d) /\ u = origin(j, v) /\ b[u] # Absent
        /\ v \in Paths /\ v # d => files[v] = b[v]
        /\ v \in Paths => files[v] \in {b[v], c[v]}
    <2>1. v \in Paths => Pending(todo[w], v)
      <3>1. under(v, v)
        BY <1>1 DEF under
      <3> QED
        BY <1>1, <3>1 DEF Pending
    <2> HIDE DEF c
    <2>2. /\ b[j.src] = Dir /\ under(v, d) /\ u = origin(j, v) /\ b[u] # Absent
      BY <1>1 DEF CopiedSoFar
    <2>3. v \in Paths /\ v # d => files[v] = b[v]
      BY <2>1 DEF CopiedSoFar
    <2>4. d \in Paths => files[d] \in {b[d], c[d]}
      BY DEF CopiedSoFar, c
    <2> QED
      BY <2>2, <2>3, <2>4
  <1>5. ASSUME v \in Paths
        PROVE  c[v] = IF b[v] = Absent \/ (j.overwrite /\ isFile(b[u]))
                      THEN b[u] ELSE b[v]
    BY <1>1, <1>4, <1>5, CopiedFacts
  <1> HIDE DEF c, d, u, v, j
  <1>6. CASE files[u] = Dir /\ takesDir(v) /\ files' = [files EXCEPT ![v] = Dir]
    <2>1. v \in Paths /\ files[v] \in {Dir, Absent}
      BY <1>6 DEF takesDir, exists
    <2>2. ~isFile(b[u]) /\ b[u] = Dir
      BY <1>3, <1>6 DEF isFile
    <2>3. c[v] = Dir
      BY <1>4, <1>5, <2>1, <2>2
    <2> QED
      BY <1>6, <2>1, <2>3 DEF c, j, v
  <1>7. CASE /\ isFile(files[u]) /\ takesFile(e)
             /\ files' = [files EXCEPT ![targetOf(e)] =
                            IF j.overwrite \/ @ = Absent THEN files[u] ELSE @]
    <2>1. v # d
      <3>1. origin(j, d) = j.src
        BY <1>1, OriginSteps DEF d
      <3> QED
        BY <1>3, <1>4, <1>7, <3>1 DEF isFile
    <2>2. ASSUME v \in Paths PROVE b[v] # Dir /\ files[v] = b[v]
      <3>1. agreeing(j, b)
        BY DEF Apart, j
      <3>2. under(v, desPath(j)) /\ origin(j, v) \in Paths /\ isFile(b[origin(j, v)])
        BY <1>1, <1>3, <1>4, <1>7 DEF d
      <3>3. b[v] # Dir
        BY <2>2, <3>1, <3>2 DEF agreeing, origin
      <3> QED
        BY <1>4, <2>1, <2>2, <3>3
    <2>3. targetOf(e) = v /\ v \in Paths
      <3>1. targetOf(e) = v
        BY <2>2 DEF targetOf, v
      <3> QED
        BY <1>7, <3>1 DEF takesFile
    <2>4. c[v] = IF j.overwrite \/ files[v] = Absent THEN files[u] ELSE files[v]
      BY <1>3, <1>5, <1>7, <2>2, <2>3
    <2>5. files' = [files EXCEPT ![v] =
                      IF j.overwrite \/ files[v] = Absent THEN files[u] ELSE files[v]]
      BY <1>7, <2>3
    <2>6. files' = [files EXCEPT ![v] = c[v]]
      BY <2>4, <2>5
    <2> QED
      BY <2>3, <2>6 DEF c, j, v
  <1> QED
    BY <1>6, <1>7 DEF u, v, j

\* A copy that goes well goes on well, and ends with the target as it is to be.
LEMMA CopyGoesOn ==
  ASSUME TypeOK, NEW w \in Workers, NEW b, b \in [Paths -> Held], isTree(b),
         Apart(job[w], b), copyDirectory(w) \/ copyFile(w),
         CopiedSoFar(job[w], b, files, todo[w])
  PROVE  \/ UNCHANGED <<pc, status>> /\ CopiedSoFar(job[w], b, files', todo'[w])
         \/ afterCopy(w, "SUCCESS") /\ files' = copiedTree(job[w], b)
  <1> DEFINE j == job[w]
             c == copiedTree(j, b)
  <1>1. PICK e \in nextEntries(w) :
          \/ /\ files[e[1]] = Dir /\ takesDir(e[2])
             /\ files' = [files EXCEPT ![e[2]] = Dir]
             /\ copyRest(w, (todo[w] \ {e})
                            \cup {<<Append(e[1], n), Append(e[2], n)>> :
                                    n \in entriesOf(files', e[1])})
          \/ /\ isFile(files[e[1]]) /\ takesFile(e)
             /\ files' = [files EXCEPT ![targetOf(e)] =
                            IF job[w].overwrite \/ @ = Absent THEN files[e[1]] ELSE @]
             /\ copyRest(w, todo[w] \ {e})
    <2>1. CASE copyDirectory(w)
      BY <2>1 DEF copyDirectory
    <2>2. CASE copyFile(w)
      BY <2>2 DEF copyFile
    <2> QED
      BY <2>1, <2>2
  <1>2. /\ j \in Jobs /\ j.op \in {"copy", "move"} /\ e \in todo[w]
        /\ e[1] \in Paths /\ e[2] \in Seq(Names) /\ under(e[1], j.src)
    BY EntryFacts
  <1>3. /\ files \in [Paths -> Held] /\ todo \in [Workers -> SUBSET (Paths \X Seq(Names))]
        /\ j.src \in Paths /\ j.src \in Seq(Names)
    BY <1>2, JobFacts, PathIsSeq DEF TypeOK
  <1>4. e[2] \in Paths /\ files' = [files EXCEPT ![e[2]] = c[e[2]]]
    BY <1>1, EntryIsCopied
  <1>5. CopiedSoFar(j, b, files', restOf(todo[w], b, e))
    BY <1>2, <1>3, <1>4, EntryDone
  <1>6. ASSUME NEW p \in Paths, under(p, j.src)
        PROVE  files[p] = b[p] /\ files'[p] = b[p]
    <2>1. files[p] = b[p] /\ ~under(p, desPath(j))
      BY <1>2, <1>6, SourceUntouched
    <2>2. p # e[2]
      BY <1>2, <2>1 DEF CopiedSoFar
    <2> QED
      BY <1>4, <2>1, <2>2
  <1>7. copyRest(w, restOf(todo[w], b, e))
    <2>1. CASE /\ files[e[1]] = Dir
               /\ copyRest(w, (todo[w] \ {e})
                              \cup {<<Append(e[1], n), Append(e[2], n)>> :
                                      n \in entriesOf(files', e[1])})
      <3>1. ASSUME NEW n \in Names, Append(e[1], n) \in Paths
            PROVE  files'[Append(e[1], n)] = b[Append(e[1], n)]
        BY <1>2, <1>3, <1>6, <3>1, PathIsSeq, UnderChild
      <3>2. entriesOf(files', e[1]) = entriesOf(b, e[1])
        BY <3>1 DEF entriesOf
      <3> QED
        BY <2>1, <3>2 DEF restOf
    <2>2. CASE isFile(files[e[1]]) /\ copyRest(w, todo[w] \ {e})
      <3>1. b[e[1]] # Dir
        BY <1>2, <1>6, <2>2 DEF isFile
      <3>2. entriesOf(b, e[1]) = {}
        <4> SUFFICES ASSUME NEW n \in entriesOf(b, e[1]) PROVE FALSE
          OBVIOUS
        <4>1. n \in Names /\ Append(e[1], n) \in Paths /\ b[Append(e[1], n)] # Absent
          BY DEF entriesOf
        <4>2. Append(e[1], n) # Root /\ parent(Append(e[1], n)) = e[1]
          BY <1>2, <4>1, PathIsSeq, ChildFacts
        <4> QED
          BY <3>1, <4>1, <4>2 DEF isTree
      <3>3. restOf(todo[w], b, e) = todo[w] \ {e}
        BY <3>2 DEF restOf
      <3> QED
        BY <2>2, <3>3
    <2> QED
      BY <1>1, <2>1, <2>2
  <1> DEFINE rest == restOf(todo[w], b, e)
  <1>8. CASE rest = {}
    <2>1. afterCopy(w, "SUCCESS")
      BY <1>7, <1>8 DEF copyRest
    <2>2. files' \in [Paths -> Held]
      BY <1>2, <1>3, <1>4, CopiedFacts
    <2>3. files' = copiedTree(j, b)
      BY <1>2, <1>5, <1>8, <2>2, AllDone
    <2> QED
      BY <2>1, <2>3
  <1>9. CASE rest # {}
    <2> HIDE DEF rest
    <2>1. todo' = [todo EXCEPT ![w] = rest] /\ UNCHANGED <<pc, status>>
      BY <1>7, <1>9 DEF copyRest, rest
    <2>2. todo'[w] = rest
      BY <1>3, <2>1
    <2> QED
      BY <1>5, <2>1, <2>2 DEF rest
  <1> QED
    BY <1>8, <1>9

-----------------------------------------------------------------------------
(* A copy into itself does not succeed: there is always an entry whose      *)
(* target lies below what it reads, and reading that one brings the next.   *)

Loops(j, b) == b[j.dest] = Dir /\ (under(j.dest, j.src) \/ desPath(j) = j.src)

Chasing(tree, es) ==
  \E e \in es :
    /\ under(e[2], e[1]) /\ Len(e[1]) < Len(e[2])
    /\ \A p \in Paths : under(e[2], p) /\ p # e[2] => tree[p] = Dir

\* What is to be copied to where it is: fs::copy refuses.
Stuck(j, tree, es) ==
  /\ desPath(j) = j.src
  /\ \/ es = {<<j.src, j.src>>}
     \/ es = {<<j.src, j.dest>>} /\ isFile(tree[j.src]) /\ tree[j.dest] = Dir

LEMMA StuckStays ==
  ASSUME TypeOK, NEW w \in Workers, Stuck(job[w], files, todo[w])
  PROVE  ~copyDirectory(w) /\ ~copyFile(w)
  <1> DEFINE j == job[w]
  <1>1. ASSUME NEW e \in nextEntries(w)
        PROVE  /\ ~(files[e[1]] = Dir /\ e[1] # e[2])
               /\ ~(isFile(files[e[1]]) /\ takesFile(e))
    <2>1. /\ j \in Jobs /\ j.op \in {"copy", "move"} /\ e \in todo[w]
      BY EntryFacts
    <2>2. j.src \in Paths /\ j.dest \in Paths
      BY <2>1, JobFacts
    <2>3. CASE todo[w] = {<<j.src, j.src>>}
      <3>1. e[1] = j.src /\ e[2] = j.src
        BY <2>1, <2>3
      <3>2. isFile(files[e[1]]) => targetOf(e) = e[1]
        BY <3>1 DEF targetOf, isFile
      <3> QED
        BY <3>1, <3>2 DEF takesFile
    <2>4. CASE /\ todo[w] = {<<j.src, j.dest>>}
               /\ isFile(files[j.src]) /\ files[j.dest] = Dir
      <3>1. e[1] = j.src /\ e[2] = j.dest
        BY <2>1, <2>4
      <3>2. targetOf(e) = desPath(j)
        BY <2>2, <2>4, <3>1 DEF targetOf, desPath
      <3>3. desPath(j) = j.src
        BY DEF Stuck
      <3> QED
        BY <2>4, <3>1, <3>2, <3>3 DEF takesFile, isFile
    <2> QED
      BY <2>3, <2>4 DEF Stuck
  <1> QED
    BY <1>1 DEF copyDirectory, copyFile

\* Reading a directory that holds its own target brings an entry of the kind.
LEMMA ChaseBegets ==
  ASSUME NEW t \in [Paths -> Held], isTree(t),
         NEW u \in Paths, NEW v \in Paths, under(v, u), Len(u) < Len(v),
         \A p \in Paths : under(v, p) => t[p] = Dir
  PROVE  \E n \in entriesOf(t, u) :
           /\ under(Append(v, n), Append(u, n))
           /\ Len(Append(u, n)) < Len(Append(v, n))
           /\ \A p \in Paths : under(Append(v, n), p) /\ p # Append(v, n) => t[p] = Dir
  <1> DEFINE n == v[Len(u) + 1]
             x == Append(u, n)
             y == Append(v, n)
  <1>1. u \in Seq(Names) /\ v \in Seq(Names) /\ Len(u) \in Nat /\ Len(v) \in Nat
    BY PathIsSeq
  <1>2. under(v, v) /\ t[v] = Dir
    BY DEF under
  <1>3. v # u
    BY <1>1
  <1>4. n \in entriesOf(t, u) /\ under(v, x)
    BY <1>2, <1>3, EntryAbove, ValuesAssumption
  <1>5. n \in Names
    BY <1>4 DEF entriesOf
  <1> HIDE DEF n
  <1>6. /\ x \in Seq(Names) /\ y \in Seq(Names)
        /\ Len(x) = Len(u) + 1 /\ Len(y) = Len(v) + 1
        /\ \A i \in 1..Len(v) : y[i] = v[i]
    BY <1>1, <1>5, ChildFacts
  <1>7. under(y, x)
    BY <1>1, <1>4, <1>5, <1>6, UnderChild
  <1>8. Len(x) < Len(y)
    BY <1>1, <1>6
  <1> HIDE DEF x, y
  <1>9. ASSUME NEW p \in Paths, under(y, p), p # y PROVE t[p] = Dir
    <2>1. p \in Seq(Names) /\ Len(p) \in Nat
      BY PathIsSeq
    <2>2. Len(p) <= Len(v)
      BY <1>1, <1>6, <1>9, <2>1, UnderFacts
    <2>3. under(v, p)
      BY <1>1, <1>6, <1>9, <2>1, <2>2 DEF under
    <2> QED
      BY <2>3
  <1> QED
    BY <1>4, <1>7, <1>8, <1>9 DEF x, y

LEMMA ChaseGoesOn ==
  ASSUME TypeOK, NEW w \in Workers, Chasing(files, todo[w]),
         copyDirectory(w) \/ copyFile(w)
  PROVE  UNCHANGED <<pc, status>> /\ Chasing(files', todo'[w])
  <1>1. PICK c \in todo[w] :
          /\ under(c[2], c[1]) /\ Len(c[1]) < Len(c[2])
          /\ \A p \in Paths : under(c[2], p) /\ p # c[2] => files[p] = Dir
    BY DEF Chasing
  <1>2. /\ files \in [Paths -> Held] /\ isTree(files) /\ Dir \in Held
        /\ todo \in [Workers -> SUBSET (Paths \X Seq(Names))]
    BY DEF TypeOK, Held
  <1>3. c[1] \in Paths /\ c[2] \in Seq(Names)
    BY <1>2
  \* The copy turns no directory into something else.
  <1>4. ASSUME NEW e, takesDir(e[2]), files' = [files EXCEPT ![e[2]] = Dir]
        PROVE  /\ \A p \in Paths : files[p] = Dir => files'[p] = Dir
               /\ files' \in [Paths -> Held] /\ files'[e[2]] = Dir
    BY <1>2, <1>4 DEF takesDir
  <1>5. ASSUME NEW e, takesFile(e), NEW v, files' = [files EXCEPT ![targetOf(e)] = v]
        PROVE  \A p \in Paths : files[p] = Dir => files'[p] = Dir
    BY <1>2, <1>5 DEF takesFile
  <1>6. ASSUME NEW rest, copyRest(w, rest), NEW e \in rest,
               under(e[2], e[1]), Len(e[1]) < Len(e[2]),
               \A p \in Paths : under(e[2], p) /\ p # e[2] => files'[p] = Dir
        PROVE  UNCHANGED <<pc, status>> /\ Chasing(files', todo'[w])
    <2>1. todo' = [todo EXCEPT ![w] = rest] /\ UNCHANGED <<pc, status>>
      BY <1>6 DEF copyRest
    <2>2. todo'[w] = rest
      BY <1>2, <2>1
    <2> QED
      BY <1>6, <2>1, <2>2 DEF Chasing
  <1>7. CASE copyDirectory(w)
    <2>1. PICK e \in nextEntries(w) :
            /\ files[e[1]] = Dir /\ takesDir(e[2])
            /\ files' = [files EXCEPT ![e[2]] = Dir]
            /\ copyRest(w, (todo[w] \ {e})
                           \cup {<<Append(e[1], n), Append(e[2], n)>> :
                                   n \in entriesOf(files', e[1])})
      BY <1>7 DEF copyDirectory
    <2>4. /\ \A p \in Paths : files[p] = Dir => files'[p] = Dir
          /\ files' \in [Paths -> Held] /\ files'[e[2]] = Dir
      BY <1>4, <2>1
    <2>2. CASE e # c
      <3> DEFINE rest == (todo[w] \ {e})
                         \cup {<<Append(e[1], m), Append(e[2], m)>> :
                                 m \in entriesOf(files', e[1])}
      <3>1. c \in rest /\ copyRest(w, rest)
        BY <2>1, <2>2
      <3>2. \A p \in Paths : under(c[2], p) /\ p # c[2] => files'[p] = Dir
        BY <1>1, <2>4
      <3> HIDE DEF rest
      <3> QED
        BY <1>1, <1>6, <3>1, <3>2
    <2>3. CASE e = c
      <3>1. c[2] \in Paths
        BY <2>1, <2>3 DEF takesDir
      <3>2. isTree(files')
        <4>1. isTree([files EXCEPT ![e[2]] = Dir])
          BY <1>2, <2>1, CopyKeepsTree, ValuesAssumption
        <4> QED
          BY <2>1, <4>1
      <3>3. \A p \in Paths : under(c[2], p) => files'[p] = Dir
        BY <1>1, <2>3, <2>4
      <3>4. PICK n \in entriesOf(files', c[1]) :
              /\ under(Append(c[2], n), Append(c[1], n))
              /\ Len(Append(c[1], n)) < Len(Append(c[2], n))
              /\ \A p \in Paths : under(Append(c[2], n), p) /\ p # Append(c[2], n) =>
                                    files'[p] = Dir
        BY <1>1, <1>3, <2>4, <3>1, <3>2, <3>3, ChaseBegets
      <3> DEFINE k == <<Append(c[1], n), Append(c[2], n)>>
                 rest == (todo[w] \ {e})
                         \cup {<<Append(e[1], m), Append(e[2], m)>> :
                                 m \in entriesOf(files', e[1])}
      <3>5. k \in rest /\ copyRest(w, rest)
        BY <2>1, <2>3
      <3>6. k[1] = Append(c[1], n) /\ k[2] = Append(c[2], n)
        OBVIOUS
      <3> HIDE DEF k, rest
      <3>7. /\ under(k[2], k[1]) /\ Len(k[1]) < Len(k[2])
            /\ \A p \in Paths : under(k[2], p) /\ p # k[2] => files'[p] = Dir
        BY <3>4, <3>6
      <3> QED
        BY <1>6, <3>5, <3>7
    <2> QED
      BY <2>2, <2>3
  <1>8. CASE copyFile(w)
    <2>1. PICK e \in nextEntries(w) :
            /\ isFile(files[e[1]]) /\ takesFile(e)
            /\ files' = [files EXCEPT ![targetOf(e)] =
                           IF job[w].overwrite \/ @ = Absent THEN files[e[1]] ELSE @]
            /\ copyRest(w, todo[w] \ {e})
      BY <1>8 DEF copyFile
    <2>2. e # c
      <3>1. under(c[2], c[1]) /\ c[1] # c[2]
        BY <1>1, <1>3
      <3>2. files[c[1]] = Dir
        BY <1>1, <1>3, <3>1
      <3> QED
        BY <2>1, <3>2 DEF isFile
    <2>3. c \in todo[w] \ {e}
      BY <2>2
    <2>4. \A p \in Paths : files[p] = Dir => files'[p] = Dir
      BY <1>5, <2>1
    <2> QED
      BY <1>1, <1>6, <2>1, <2>3, <2>4
  <1> QED
    BY <1>7, <1>8

\* How a copy starts: apart from what it reads, or where it cannot end.
LEMMA CopyStarts ==
  ASSUME TypeOK, NEW w \in Workers, prepare(w), pc'[w] = "copy",
         files[job[w].src] # Absent
  PROVE  /\ Loops(job[w], files) =>
              Chasing(files', todo'[w]) \/ Stuck(job[w], files', todo'[w])
         /\ Apart(job[w], files) =>
              \/ CopiedSoFar(job[w], files, files', todo'[w])
              \/ FileTodo(job[w], files, files', todo'[w])
  <1> DEFINE j == job[w]
             d == desPath(j)
             above == {p \in Paths : under(d, p)}
  <1>1. /\ pc[w] = "prepare" /\ j \in Jobs /\ j.op \in {"copy", "move"} /\ Len(d) <= Depth
        /\ files \in [Paths -> Held] /\ isTree(files)
        /\ todo \in [Workers -> SUBSET (Paths \X Seq(Names))]
        /\ pc \in [Workers -> {"idle", "validate", "validateDest", "check", "prepare",
                               "copy", "remove_all", "rename"}]
    BY DEF prepare, TypeOK
  <1>2. /\ j.src \in Paths /\ j.dest \in Paths /\ d \in Seq(Names)
        /\ d \in Paths /\ Len(d) = Len(j.dest) + 1 /\ under(d, j.dest) /\ under(d, d)
        /\ \A p \in Paths : under(d, p) => p = d \/ under(j.dest, p)
    BY <1>1, JobFacts, SeqIsPath, AboveTarget
  <1>3. /\ j.src \in Seq(Names) /\ j.dest \in Seq(Names)
        /\ Len(j.src) \in Nat /\ Len(j.dest) \in Nat
    BY <1>2, PathIsSeq
  <1>4. \/ files[j.src] # Dir /\ startCopy(w, j.dest) /\ UNCHANGED files
        \/ /\ files[j.src] = Dir
           /\ files' = [p \in Paths |->
                          IF p \in above /\ ~exists(d) THEN Dir ELSE files[p]]
           /\ startCopy(w, d)
    BY <1>1 DEF prepare, finish
  \* A directory above the destination is one already.
  <1>5. ASSUME files[j.dest] = Dir, NEW p \in Paths, under(d, p), p # d
        PROVE  files[p] = Dir
    BY <1>1, <1>2, <1>5, DeepTree, ValuesAssumption
  <1> HIDE DEF above, d
  <1>6. CASE files[j.src] # Dir /\ startCopy(w, j.dest) /\ UNCHANGED files
    <2>1. todo'[w] = {<<j.src, j.dest>>}
      BY <1>1, <1>6 DEF startCopy
    <2>2. isFile(files[j.src])
      BY <1>6 DEF isFile
    <2>3. Apart(j, files) => FileTodo(j, files, files', todo'[w])
      BY <1>6, <2>1, <2>2 DEF FileTodo
    <2>4. ASSUME Loops(j, files) PROVE Stuck(j, files', todo'[w])
      <3>1. files[j.dest] = Dir
        BY <2>4 DEF Loops
      <3>2. ~under(j.dest, j.src)
        BY <1>1, <1>2, <1>6, <3>1, DeepTree, ValuesAssumption
      <3>3. desPath(j) = j.src
        BY <2>4, <3>2 DEF Loops
      <3> QED
        BY <1>6, <2>1, <2>2, <3>1, <3>3 DEF Stuck
    <2> QED
      BY <2>3, <2>4
  <1>7. CASE /\ files[j.src] = Dir
             /\ files' = [p \in Paths |->
                            IF p \in above /\ ~exists(d) THEN Dir ELSE files[p]]
             /\ startCopy(w, d)
    <2> DEFINE e == <<j.src, d>>
    <2>1. todo'[w] = {e} /\ e[1] = j.src /\ e[2] = d
      BY <1>1, <1>7 DEF startCopy
    <2>2. ASSUME files[j.dest] = Dir, NEW p \in Paths, p # d
          PROVE  files'[p] = files[p]
      <3>1. p \in above => files[p] = Dir
        BY <1>5, <2>2 DEF above
      <3> QED
        BY <1>7, <3>1
    <2>3. files'[d] = IF files[d] = Absent THEN Dir ELSE files[d]
      BY <1>2, <1>7 DEF above, exists
    <2> HIDE DEF e
    <2>4. ASSUME Loops(j, files), under(j.dest, j.src)
          PROVE  Chasing(files', todo'[w])
      <3>1. under(d, j.src) /\ Len(j.src) < Len(d)
        BY <1>2, <1>3, <2>4, UnderFacts
      <3>2. ASSUME NEW p \in Paths, under(d, p), p # d PROVE files'[p] = Dir
        BY <1>5, <2>2, <2>4, <3>2 DEF Loops
      <3> QED
        BY <2>1, <3>1, <3>2 DEF Chasing
    <2>5. ASSUME Loops(j, files), ~under(j.dest, j.src)
          PROVE  Stuck(j, files', todo'[w])
      <3>1. desPath(j) = j.src
        BY <2>5 DEF Loops
      <3> QED
        BY <2>1, <3>1 DEF Stuck, e, d
    <2>6. ASSUME Apart(j, files) PROVE CopiedSoFar(j, files, files', todo'[w])
      <3> DEFINE c == copiedTree(j, files)
      <3>1. files[j.dest] = Dir
        BY <2>6 DEF Apart
      <3>2. j.src = origin(j, d)
        BY <1>1, OriginSteps DEF d
      <3>3. files'[d] \in {files[d], c[d]}
        <4>1. CASE files[d] # Absent
          BY <2>3, <4>1
        <4>2. CASE files[d] = Absent
          <5>1. c[d] = files[j.src]
            BY <1>1, <1>2, <1>7, <3>2, <4>2, CopiedFacts, ValuesAssumption DEF d
          <5> QED
            BY <1>7, <2>3, <4>2, <5>1
        <4> QED
          BY <4>1, <4>2
      <3>4. \A p \in Paths : Pending({e}, p) <=> under(p, d)
        BY <2>1 DEF Pending
      <3> HIDE DEF c
      <3>5. ASSUME NEW p \in Paths
            PROVE  /\ ~under(p, d) => files'[p] = files[p]
                   /\ under(p, d) /\ ~Pending({e}, p) => files'[p] = c[p]
                   /\ Pending({e}, p) /\ p # d => files'[p] = files[p]
        BY <1>2, <2>2, <3>1, <3>4
      <3>6. /\ under(e[2], d) /\ e[1] = origin(j, e[2]) /\ files[e[1]] # Absent
        BY <1>2, <2>1, <3>2
      <3> QED
        BY <1>7, <2>1, <3>3, <3>5, <3>6 DEF CopiedSoFar, c, d
    <2> QED
      BY <2>4, <2>5, <2>6
  <1> QED
    BY <1>4, <1>6, <1>7

-----------------------------------------------------------------------------
(* A worker that is alone: its successes do what they say.                 *)

\* What the request j that found the files b leaves when it succeeds.
Done(j, b, tree) ==
  /\ j.op = "remove" => tree = without(b, j.src)
  /\ j.op = "rename" => tree = renamedTree(b, j.src, renamed(j))
  /\ j.op \in {"copy", "move"} /\ b[j.dest] = Dir =>
       /\ ~Loops(j, b)
       /\ Apart(j, b) => tree = IF j.op = "copy" THEN copiedTree(j, b)
                                ELSE without(copiedTree(j, b), j.src)

\* What a request that may still succeed has done at each of its calls.
Exact(call, s, j, b, tree, es) ==
  /\ call = "copy" /\ Loops(j, b) => Chasing(tree, es) \/ Stuck(j, tree, es)
  /\ call = "copy" /\ Apart(j, b) =>
       CopiedSoFar(j, b, tree, es) \/ FileTodo(j, b, tree, es)
  /\ call = "remove_all" /\ j.op = "remove" => Removing(j, b, tree)
  /\ call = "remove_all" /\ j.op = "move" /\ s = "SUCCESS" =>
       /\ ~Loops(j, b)
       /\ Apart(j, b) => Removing(j, copiedTree(j, b), tree)
  /\ call = "idle" /\ s = "SUCCESS" => Done(j, b, tree)

ExactInv ==
  \A w \in Workers : alone[w] =>
    Exact(pc[w], status[w], job[w], before[w], files, todo[w])

LEMMA ApartNoLoop ==
  ASSUME NEW j \in Jobs, j.op \in {"copy", "move"}, NEW b, Apart(j, b)
  PROVE  ~Loops(j, b)
  <1>1. under(j.src, j.src)
    BY JobFacts
  <1> QED
    BY <1>1 DEF Apart, Loops

\* A call of the copy that works.
LEMMA ExactCopy ==
  ASSUME TypeOK, NEW w \in Workers, copyDirectory(w) \/ copyFile(w),
         NEW b, b \in [Paths -> Held], isTree(b),
         Exact(pc[w], status[w], job[w], b, files, todo[w])
  PROVE  Exact(pc'[w], status'[w], job[w], b, files', todo'[w])
  <1> DEFINE j == job[w]
             c == copiedTree(j, b)
  <1>1. pc[w] = "copy" /\ j \in Jobs /\ j.op \in {"copy", "move"}
    BY CopyFlow DEF TypeOK
  <1>2. /\ pc \in [Workers -> {"idle", "validate", "validateDest", "check", "prepare",
                               "copy", "remove_all", "rename"}]
        /\ status \in [Workers -> Statuses]
    BY DEF TypeOK
  <1>3. UNCHANGED <<pc, status>> \/ afterCopy(w, "SUCCESS")
    BY DEF copyDirectory, copyFile, copyRest
  <1>4. ASSUME afterCopy(w, "SUCCESS")
        PROVE  /\ status'[w] = "SUCCESS"
               /\ pc'[w] = IF j.op = "copy" THEN "idle" ELSE "remove_all"
    BY <1>2, <1>4 DEF afterCopy, finish
  <1>5. CASE Loops(j, b)
    <2>1. Chasing(files, todo[w]) \/ Stuck(j, files, todo[w])
      BY <1>1, <1>5 DEF Exact
    <2>2. UNCHANGED <<pc, status>> /\ Chasing(files', todo'[w])
      BY <2>1, StuckStays, ChaseGoesOn
    <2>3. ~Apart(j, b)
      BY <1>1, <1>5, ApartNoLoop
    <2> QED
      BY <1>1, <2>2, <2>3 DEF Exact
  <1>6. CASE Apart(j, b)
    <2>1. ~Loops(j, b)
      BY <1>1, <1>6, ApartNoLoop
    <2>2. CopiedSoFar(j, b, files, todo[w]) \/ FileTodo(j, b, files, todo[w])
      BY <1>1, <1>6 DEF Exact
    <2>3. \/ UNCHANGED <<pc, status>> /\ CopiedSoFar(j, b, files', todo'[w])
          \/ afterCopy(w, "SUCCESS") /\ files' = c
      BY <1>6, <2>2, CopyGoesOn, FileIsCopied
    <2>4. CASE UNCHANGED <<pc, status>> /\ CopiedSoFar(j, b, files', todo'[w])
      BY <1>1, <2>1, <2>4 DEF Exact
    <2>5. CASE afterCopy(w, "SUCCESS") /\ files' = c
      <3>1. Removing(j, c, files')
        BY <2>5 DEF Removing
      <3>2. j.op = "copy" => Done(j, b, files')
        BY <2>1, <2>5 DEF Done
      <3> HIDE DEF c
      <3> QED
        BY <1>1, <1>4, <2>1, <2>5, <3>1, <3>2 DEF Exact, c
    <2> QED
      BY <2>3, <2>4, <2>5
  <1>7. CASE ~Loops(j, b) /\ ~Apart(j, b)
    <2>1. CASE UNCHANGED <<pc, status>>
      BY <1>1, <1>7, <2>1 DEF Exact
    <2>2. CASE afterCopy(w, "SUCCESS")
      <3>1. j.op = "copy" => Done(j, b, files')
        BY <1>7 DEF Done
      <3> QED
        BY <1>1, <1>4, <1>7, <2>2, <3>1 DEF Exact
    <2> QED
      BY <1>3, <2>1, <2>2
  <1> QED
    BY <1>5, <1>6, <1>7

\* A call of a removal.
LEMMA ExactRemoval ==
  ASSUME TypeOK, NEW w \in Workers, removeAll(w),
         NEW b, b \in [Paths -> Held],
         Exact(pc[w], status[w], job[w], b, files, todo[w])
  PROVE  Exact(pc'[w], status'[w], job[w], b, files', todo'[w])
  <1> DEFINE j == job[w]
             c == copiedTree(j, b)
  <1>1. pc[w] = "remove_all" /\ j \in Jobs /\ j.op \in {"move", "remove"}
    BY DEF removeAll, TypeOK
  <1>2. ASSUME NEW s, finish(w, s) PROVE pc'[w] = "idle" /\ status'[w] = s
    BY <1>2 DEF finish, TypeOK
  <1>3. \/ UNCHANGED <<pc, status>> \/ finish(w, removed(w))
        \/ finish(w, "PERMISSION_DENIED")
    BY DEF removeAll
  <1>4. ASSUME NEW s, finish(w, s), s = "SUCCESS" => Done(j, b, files')
        PROVE  Exact(pc'[w], status'[w], j, b, files', todo'[w])
    BY <1>2, <1>4 DEF Exact
  <1>5. CASE j.op = "remove"
    <2>1. Removing(j, b, files)
      BY <1>1, <1>5 DEF Exact
    <2>2. \/ UNCHANGED <<pc, status>> /\ Removing(j, b, files')
          \/ finish(w, removed(w)) /\ files' = without(b, j.src)
          \/ finish(w, "PERMISSION_DENIED")
      BY <2>1, RemovalSteps
    <2>3. CASE UNCHANGED <<pc, status>> /\ Removing(j, b, files')
      BY <1>1, <1>5, <2>3 DEF Exact
    <2>4. CASE finish(w, removed(w)) /\ files' = without(b, j.src)
      <3>1. Done(j, b, files')
        BY <1>5, <2>4 DEF Done
      <3> QED
        BY <1>4, <2>4, <3>1
    <2>5. CASE finish(w, "PERMISSION_DENIED")
      BY <1>4, <2>5
    <2> QED
      BY <2>2, <2>3, <2>4, <2>5
  <1>6. CASE j.op = "move" /\ status[w] # "SUCCESS"
    <2>1. removed(w) # "SUCCESS"
      BY <1>6 DEF removed
    <2>2. CASE UNCHANGED <<pc, status>>
      BY <1>1, <1>6, <2>2 DEF Exact
    <2> QED
      BY <1>3, <1>4, <2>1, <2>2
  <1>7. CASE j.op = "move" /\ status[w] = "SUCCESS" /\ ~Apart(j, b)
    <2>1. ~Loops(j, b)
      BY <1>1, <1>7 DEF Exact
    <2>2. Done(j, b, files')
      BY <1>7, <2>1 DEF Done
    <2>3. CASE UNCHANGED <<pc, status>>
      BY <1>1, <1>7, <2>1, <2>3 DEF Exact
    <2> QED
      BY <1>3, <1>4, <2>2, <2>3
  <1>8. CASE j.op = "move" /\ status[w] = "SUCCESS" /\ Apart(j, b)
    <2>1. ~Loops(j, b) /\ Removing(j, c, files)
      BY <1>1, <1>8 DEF Exact
    <2>2. c \in [Paths -> Held]
      BY <1>1, <1>8, CopiedFacts
    <2>3. \/ UNCHANGED <<pc, status>> /\ Removing(j, c, files')
          \/ finish(w, removed(w)) /\ files' = without(c, j.src)
          \/ finish(w, "PERMISSION_DENIED")
      BY <2>1, <2>2, RemovalSteps
    <2>4. CASE UNCHANGED <<pc, status>> /\ Removing(j, c, files')
      BY <1>1, <1>8, <2>1, <2>4 DEF Exact
    <2>5. CASE finish(w, removed(w)) /\ files' = without(c, j.src)
      <3>1. Done(j, b, files')
        BY <1>8, <2>1, <2>5 DEF Done
      <3> QED
        BY <1>4, <2>5, <3>1
    <2>6. CASE finish(w, "PERMISSION_DENIED")
      BY <1>4, <2>6
    <2> QED
      BY <2>3, <2>4, <2>5, <2>6
  <1> QED
    BY <1>1, <1>5, <1>6, <1>7, <1>8

\* A call of a worker that is alone.
LEMMA ExactCall ==
  ASSUME TypeOK, NEW w \in Workers, Call(w),
         Quiet(pc[w], status[w], job[w], before[w], files, todo[w]),
         Exact(pc[w], status[w], job[w], before[w], files, todo[w])
  PROVE  Exact(pc'[w], status'[w], job'[w], before'[w], files', todo'[w])
  <1> DEFINE j == job[w]
             b == before[w]
  <1>1. /\ j \in Jobs /\ b \in [Paths -> Held] /\ isTree(b)
        /\ j.op \in {"copy", "move", "remove", "rename"}
    BY JobFacts DEF Quiet
  <1>2. UNCHANGED <<job, ghosts>>
    BY DEF Call, validate, validateDest, checkTarget, prepare, copyDirectory, copyFile,
           copyThrows, removeAll, rename
  <1> SUFFICES Exact(pc'[w], status'[w], j, b, files', todo'[w])
    BY <1>2 DEF ghosts
  <1>3. ASSUME NEW s, finish(w, s), s = "SUCCESS" => Done(j, b, files')
        PROVE  Exact(pc'[w], status'[w], j, b, files', todo'[w])
    <2>1. pc'[w] = "idle" /\ status'[w] = s
      BY <1>3 DEF finish, TypeOK
    <2> QED
      BY <1>3, <2>1 DEF Exact
  <1>4. ASSUME NEW call, goOn(w, call), call \notin {"idle", "copy", "remove_all"}
        PROVE  Exact(pc'[w], status'[w], j, b, files', todo'[w])
    <2>1. pc'[w] = call
      BY <1>4 DEF goOn, TypeOK
    <2> QED
      BY <1>4, <2>1 DEF Exact
  <1>5. CASE validate(w)
    <2>1. files' = b
      BY <1>5 DEF validate, Quiet
    <2>2. CASE finish(w, "INVALID_SOURCE_PATH")
      BY <1>3, <2>2
    <2>3. CASE goOn(w, afterValidation(j.op)) /\ j.op = "remove"
      <3>1. pc'[w] = "remove_all"
        BY <2>3 DEF goOn, TypeOK, afterValidation
      <3>2. Removing(j, b, files')
        BY <2>1 DEF Removing
      <3> QED
        BY <2>3, <3>1, <3>2 DEF Exact
    <2>4. CASE goOn(w, afterValidation(j.op)) /\ j.op # "remove"
      <3>1. afterValidation(j.op) \in {"validateDest", "rename"}
        BY <1>1, <2>4 DEF afterValidation
      <3> QED
        BY <1>4, <2>4, <3>1
    <2> QED
      BY <1>5, <2>2, <2>3, <2>4 DEF validate
  <1>6. CASE validateDest(w) \/ checkTarget(w)
    <2>1. \/ finish(w, "INVALID_DEST_PATH") \/ finish(w, "PERMISSION_DENIED")
          \/ finish(w, "FILE_ALREADY_EXISTS")
          \/ goOn(w, "check") \/ goOn(w, "prepare")
      BY <1>6 DEF validateDest, checkTarget
    <2> QED
      BY <1>3, <1>4, <2>1
  <1>7. CASE prepare(w)
    <2>1. files = b /\ files[j.src] # Absent
      BY <1>7 DEF prepare, Quiet, SourceMissing
    <2>2. CASE finish(w, "PERMISSION_DENIED")
      BY <1>3, <2>2
    <2>3. CASE \E to : startCopy(w, to)
      <3>1. pc'[w] = "copy"
        BY <2>3 DEF startCopy, goOn, TypeOK
      <3>2. /\ Loops(j, b) => Chasing(files', todo'[w]) \/ Stuck(j, files', todo'[w])
            /\ Apart(j, b) => CopiedSoFar(j, b, files', todo'[w])
                              \/ FileTodo(j, b, files', todo'[w])
        BY <1>7, <2>1, <3>1, CopyStarts
      <3> QED
        BY <3>1, <3>2 DEF Exact
    <2> QED
      BY <1>7, <2>2, <2>3 DEF prepare
  <1>8. CASE copyDirectory(w) \/ copyFile(w)
    BY <1>1, <1>8, ExactCopy
  <1>9. CASE copyThrows(w)
    <2>1. j.op \in {"copy", "move"} /\ afterCopy(w, "PERMISSION_DENIED")
      BY <1>9, CopyFlow DEF copyThrows
    <2>2. CASE j.op = "copy"
      BY <1>3, <2>1, <2>2 DEF afterCopy
    <2>3. CASE j.op = "move"
      <3>1. pc'[w] = "remove_all" /\ status'[w] = "PERMISSION_DENIED"
        BY <2>1, <2>3 DEF afterCopy, TypeOK
      <3> QED
        BY <2>3, <3>1 DEF Exact
    <2> QED
      BY <2>1, <2>2, <2>3
  <1>10. CASE removeAll(w)
    BY <1>1, <1>10, ExactRemoval
  <1>11. CASE rename(w)
    <2>1. files = b /\ j.op = "rename"
      BY <1>11 DEF rename, Quiet, TypeOK
    <2>2. CASE finish(w, "INVALID_DEST_PATH") \/ finish(w, "PERMISSION_DENIED")
      BY <1>3, <2>2
    <2>3. CASE files' = renamedTree(files, j.src, renamed(j)) /\ finish(w, "SUCCESS")
      <3>1. Done(j, b, files')
        BY <2>1, <2>3 DEF Done
      <3> QED
        BY <1>3, <2>3, <3>1
    <2> QED
      BY <1>11, <2>2, <2>3 DEF rename
  <1> QED
    BY <1>5, <1>6, <1>7, <1>8, <1>9, <1>10, <1>11 DEF Call

LEMMA ExactKept == TypeOK /\ QuietInv /\ ExactInv /\ [Next]_vars => ExactInv'
  <1> SUFFICES ASSUME TypeOK, QuietInv, ExactInv, [Next]_vars,
                      NEW v \in Workers, alone'[v]
               PROVE  Exact(pc'[v], status'[v], job'[v], before'[v], files', todo'[v])
    BY DEF ExactInv
  <1>1. ASSUME NEW w \in Workers, Call(w)
        PROVE  Exact(pc'[v], status'[v], job'[v], before'[v], files', todo'[v])
    <2>1. alone' = alone /\ pc[w] # "idle"
      BY <1>1 DEF Call, validate, validateDest, checkTarget, prepare, copyDirectory,
                  copyFile, copyThrows, nextEntries, removeAll, rename, ghosts
    <2>2. /\ \A u \in Workers \ {v} : pc[u] = "idle"
          /\ Quiet(pc[v], status[v], job[v], before[v], files, todo[v])
          /\ Exact(pc[v], status[v], job[v], before[v], files, todo[v])
      BY <2>1 DEF QuietInv, ExactInv
    <2>3. v = w
      BY <2>1, <2>2
    <2> QED
      BY <1>1, <2>2, <2>3, ExactCall
  <1>2. ASSUME NEW w \in Workers, NEW j \in Jobs, takeUp(w, j)
        PROVE  Exact(pc'[v], status'[v], job'[v], before'[v], files', todo'[v])
    <2>1. v = w
      BY <1>2 DEF takeUp
    <2>2. \/ pc'[w] = "validate"
          \/ pc'[w] = "idle" /\ status'[w] # "SUCCESS"
      BY <1>2 DEF takeUp, finish, TypeOK
    <2> QED
      BY <2>1, <2>2 DEF Exact
  <1>3. CASE UNCHANGED vars
    BY <1>3 DEF vars, ghosts, ExactInv
  <1> QED
    BY <1>1, <1>2, <1>3 DEF Next, Rest

\* A request that succeeds while nobody else does anything has done exactly
\* what it says, down to the last entry of the tree, and a copy or move of
\* something into itself never succeeds.
THEOREM SuccessesExact == Spec => []QuietSuccessesExact
  <1>1. Init => ExactInv
    BY DEF Init, ExactInv
  <1>2. QuietInv /\ ExactInv => QuietSuccessesExact
    <2> SUFFICES ASSUME QuietInv, ExactInv, NEW w \in Workers,
                        pc[w] = "idle", alone[w], status[w] = "SUCCESS"
                 PROVE  LET j == job[w]
                            b == before[w]
                        IN  CASE j.op = "remove" -> files = without(b, j.src)
                              [] j.op = "rename" ->
                                   files = renamedTree(b, j.src, renamed(j))
                              [] OTHER -> b[j.dest] = Dir =>
                                   /\ ~under(j.dest, j.src) /\ desPath(j) # j.src
                                   /\ agreeing(j, b) /\ ~under(j.src, desPath(j)) =>
                                        files = IF j.op = "copy" THEN copiedTree(j, b)
                                                ELSE without(copiedTree(j, b), j.src)
      BY DEF QuietSuccessesExact
    <2>1. Done(job[w], before[w], files) /\ job[w] \in Jobs
      BY DEF QuietInv, Quiet, ExactInv, Exact
    <2>2. job[w].op \in {"copy", "move", "remove", "rename"}
      BY <2>1, JobFacts
    <2>3. CASE job[w].op = "remove"
      BY <2>1, <2>3 DEF Done
    <2>4. CASE job[w].op = "rename"
      BY <2>1, <2>4 DEF Done
    <2>5. CASE job[w].op \in {"copy", "move"}
      BY <2>1, <2>5 DEF Done, Loops, Apart
    <2> QED
      BY <2>2, <2>3, <2>4, <2>5
  <1>3. Init => QuietInv
    BY DEF Init, QuietInv
  <1> QED
    BY <1>1, <1>2, <1>3, QuietKept, ExactKept, TypeCorrect, PTL DEF Spec
=============================================================================
