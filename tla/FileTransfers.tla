---------------------------- MODULE FileTransfers ----------------------------
(***************************************************************************)
(* InternalCopy, InternalMove, InternalRemove and InternalRename: the file *)
(* operations behind the internal, USB and network providers.  Each        *)
(* provider runs them on its own dispatcher thread, one at a time, and all *)
(* of them work on one file system without any lock between them, so every *)
(* call into std::filesystem is a step, and fs::copy and fs::remove_all    *)
(* take one step for each entry they come to.                              *)
(*                                                                         *)
(* A path is the sequence of its names below the root of the storage, at   *)
(* most Depth of them: the limit of the file system on a path's length.    *)
(* The content of a file is one value; Partial is what a copy that fails   *)
(* half-way leaves behind.                                                 *)
(***************************************************************************)
EXTENDS Naturals, Sequences

CONSTANTS Workers,     \* the dispatcher threads at work
          Names,       \* the names of files and directories
          BadName,     \* a new name that is empty or has a slash in it
          Depth,       \* the longest path the file system takes
          Contents,    \* what files may hold at the start
          Dir,         \* "a directory"
          Absent,      \* "nothing there"
          Partial,     \* a file that was not written to its end
          Trees,       \* the file systems to start from
          Jobs,        \* the requests the workers may be given
          MaxRequests  \* bound: requests in a behaviour

Root == <<>>
Paths == UNION {[1..n -> Names] : n \in 0..Depth}
Held == Contents \cup {Dir, Absent, Partial}

JobType == [op : {"copy", "move"}, src : Paths \ {Root}, dest : Paths,
            overwrite : BOOLEAN]
           \cup [op : {"remove"}, src : Paths \ {Root}]
           \cup [op : {"rename"}, src : Paths \ {Root},
                 newName : Names \cup {BadName}]

parent(p) == SubSeq(p, 1, Len(p) - 1)
last(p) == p[Len(p)]

\* Is q the path p, or a path below it?
under(q, p) == Len(p) <= Len(q) /\ \A i \in 1..Len(p) : q[i] = p[i]

\* What exists, exists in a directory.
isTree(tree) ==
  /\ tree[Root] = Dir
  /\ \A p \in Paths \ {Root} : tree[p] # Absent => tree[parent(p)] = Dir

ASSUME JobsAssumption == Jobs \subseteq JobType
ASSUME TreesAssumption ==
  \A tree \in Trees : tree \in [Paths -> Contents \cup {Dir, Absent}] /\ isTree(tree)
ASSUME BoundsAssumption == Depth \in Nat /\ MaxRequests \in Nat
ASSUME ValuesAssumption ==
  /\ Contents \cap {Dir, Absent, Partial} = {}
  /\ Dir # Absent /\ Dir # Partial /\ Absent # Partial
  /\ BadName \notin Names

VARIABLES
  files,   \* [Paths -> content]: the file system
  pc,      \* the next file system call of each worker
  job,     \* the request it is at, or was at last
  status,  \* mStatus of its operation object
  todo,    \* the entries its fs::copy still has to copy, <<from, to>>
  served,  \* how many requests were taken up
  before,  \* the file system when the request was taken up, kept while
           \* alone holds
  alone    \* has nobody else started anything since?

ghosts == <<served, before, alone>>
vars == <<files, pc, job, status, todo, ghosts>>

NoJob == [op |-> "none"]
Unknown == [p \in Paths |-> Absent]

exists(path) == files[path] # Absent
isFile(content) == content \notin {Dir, Absent}

\* desPath: the destination and the last component of the source.
desPath(j) == Append(j.dest, last(j.src))
renamed(j) == Append(parent(j.src), j.newName)

\* mStatus is final, and the handler answers the client with it.  getStatus
\* adds nothing: it works out (src - dest + dest) / src, which is 100.
finish(w, s) ==
  /\ status' = [status EXCEPT ![w] = s]
  /\ pc' = [pc EXCEPT ![w] = "idle"]

goOn(w, call) ==
  /\ pc' = [pc EXCEPT ![w] = call]
  /\ UNCHANGED status

\* The handler.  Which of the paths it looks at itself, and the error code
\* it has for a missing one, depend on the storage types of the request: a
\* USB path is left to the operation object.
takeUp(w, j) ==
  /\ pc[w] = "idle"
  /\ served < MaxRequests
  /\ served' = served + 1
  /\ job' = [job EXCEPT ![w] = j]
  /\ alone' = [v \in Workers |->
                 v = w /\ \A u \in Workers : pc[u] = "idle"]
  /\ before' = [v \in Workers |-> IF alone'[v] THEN files ELSE Unknown]
  /\ \/ /\ pc' = [pc EXCEPT ![w] = "validate"]
        /\ status' = [status EXCEPT ![w] = "NO_ERROR"]
     \/ ~exists(j.src) /\ finish(w, "INVALID_SOURCE_PATH")
     \/ /\ j.op \in {"copy", "move"} /\ ~exists(j.dest)
        /\ finish(w, "INVALID_DEST_PATH")
  /\ UNCHANGED <<files, todo>>

\* Where an operation object goes on once it has found its source.
afterValidation(op) == CASE op \in {"copy", "move"} -> "validateDest"
                         [] op = "remove"           -> "remove_all"
                         [] op = "rename"           -> "rename"

\* Mutant: a removal or renaming goes the way of a copy.
validate_AllCheck(w) ==
  /\ pc[w] = "validate"
  /\ \/ ~exists(job[w].src) /\ finish(w, "INVALID_SOURCE_PATH")
     \/ exists(job[w].src) /\ goOn(w, "validateDest")
  /\ UNCHANGED <<files, job, todo, ghosts>>

\* The first call of every init(): the source has to be there (still).
validate(w) ==
  /\ pc[w] = "validate"
  /\ \/ ~exists(job[w].src) /\ finish(w, "INVALID_SOURCE_PATH")
     \/ exists(job[w].src) /\ goOn(w, afterValidation(job[w].op))
  /\ UNCHANGED <<files, job, todo, ghosts>>

\* The destination has to be there; nobody asks whether it is a directory.
validateDest(w) ==
  /\ pc[w] = "validateDest"
  /\ \/ ~exists(job[w].dest) /\ finish(w, "INVALID_DEST_PATH")
     \/ exists(job[w].dest) /\ goOn(w, "check")
  /\ UNCHANGED <<files, job, todo, ghosts>>

\* Mutant: the check for an existing target is forgotten.
checkTarget_None(w) ==
  /\ pc[w] = "check"
  /\ IF Len(desPath(job[w])) > Depth THEN finish(w, "PERMISSION_DENIED")
     ELSE goOn(w, "prepare")
  /\ UNCHANGED <<files, job, todo, ghosts>>

\* fs::exists(desPath) & !mOverwrite.  It throws on a path that is too long.
checkTarget(w) ==
  LET j == job[w]
      fits == Len(desPath(j)) <= Depth
      refused == exists(desPath(j)) /\ ~j.overwrite
  IN  /\ pc[w] = "check"
      /\ \/ ~fits /\ finish(w, "PERMISSION_DENIED")
         \/ fits /\ refused /\ finish(w, "FILE_ALREADY_EXISTS")
         \/ fits /\ ~refused /\ goOn(w, "prepare")
      /\ UNCHANGED <<files, job, todo, ghosts>>

startCopy(w, to) ==
  /\ todo' = [todo EXCEPT ![w] = {<<job[w].src, to>>}]
  /\ goOn(w, "copy")

\* A file is copied to mDestPath as it is.  For a directory, desPath is made
\* the new mDestPath, and created with all that is missing above it.  An
\* exception here ends a move, too.
prepare(w) ==
  LET j == job[w]
      above == {p \in Paths : under(desPath(j), p)}
  IN  /\ pc[w] = "prepare"
      /\ \/ /\ files[j.src] # Dir
            /\ startCopy(w, j.dest)
            /\ UNCHANGED files
         \/ /\ files[j.src] = Dir
            /\ exists(desPath(j)) \/ \A p \in above : ~isFile(files[p])
            /\ files' = [p \in Paths |->
                 IF p \in above /\ ~exists(desPath(j)) THEN Dir ELSE files[p]]
            /\ startCopy(w, desPath(j))
         \/ finish(w, "PERMISSION_DENIED") /\ UNCHANGED <<files, todo>>
      /\ UNCHANGED <<job, ghosts>>

-----------------------------------------------------------------------------
(* fs::copy, recursive and skip_symlinks, with overwrite_existing or        *)
(* skip_existing, on the thread of std::async; the dropped future waits for *)
(* it.  It goes through the tree depth first, in the order of readdir.      *)

\* Then a copy is over, and a move goes on to remove_all whatever became of
\* the copy.
afterCopy(w, s) ==
  /\ todo' = [todo EXCEPT ![w] = {}]
  /\ IF job[w].op = "copy" THEN finish(w, s)
     ELSE /\ status' = [status EXCEPT ![w] = s]
          /\ pc' = [pc EXCEPT ![w] = "remove_all"]

copyRest(w, rest) ==
  IF rest = {} THEN afterCopy(w, "SUCCESS")
  ELSE /\ todo' = [todo EXCEPT ![w] = rest]
       /\ UNCHANGED <<pc, status>>

\* The entries that may be next.
nextEntries(w) ==
  {e \in todo[w] : pc[w] = "copy" /\ \A o \in todo[w] : Len(o[1]) <= Len(e[1])}

\* A directory can be made, or is there, at a path.
takesDir(to) ==
  to \in Paths /\ (files[to] = Dir \/ (~exists(to) /\ files[parent(to)] = Dir))

\* A file goes into the directory that bears its name.
targetOf(e) == IF e[2] \in Paths /\ files[e[2]] = Dir THEN Append(e[2], last(e[1]))
               ELSE e[2]

\* A file can be written at a path: not too long, in a directory, not over a
\* directory, and not the source itself.
takesFile(e) ==
  LET t == targetOf(e)
  IN  /\ t \in Paths /\ t # e[1]
      /\ files[parent(t)] = Dir /\ files[t] # Dir

entriesOf(tree, dir) ==
  {n \in Names : Append(dir, n) \in Paths /\ tree[Append(dir, n)] # Absent}

\* Mutant: the directory is not done when its entries are.
copyDirectory_Again(w) ==
  \E e \in nextEntries(w) :
    /\ files[e[1]] = Dir /\ e[1] # e[2]
    /\ takesDir(e[2])
    /\ files' = [files EXCEPT ![e[2]] = Dir]
    /\ copyRest(w, todo[w] \cup {<<Append(e[1], n), Append(e[2], n)>> :
                                   n \in entriesOf(files', e[1])})
    /\ UNCHANGED <<job, ghosts>>

\* A directory is made at the target first and read after that: copied into
\* itself, it holds the copy already.
copyDirectory(w) ==
  \E e \in nextEntries(w) :
    /\ files[e[1]] = Dir /\ e[1] # e[2]
    /\ takesDir(e[2])
    /\ files' = [files EXCEPT ![e[2]] = Dir]
    /\ copyRest(w, (todo[w] \ {e})
                   \cup {<<Append(e[1], n), Append(e[2], n)>> :
                           n \in entriesOf(files', e[1])})
    /\ UNCHANGED <<job, ghosts>>

\* Mutant: overwrite_existing whatever the client asked for.
copyFile_Overwrites(w) ==
  \E e \in nextEntries(w) :
    /\ isFile(files[e[1]]) /\ takesFile(e)
    /\ files' = [files EXCEPT ![targetOf(e)] = files[e[1]]]
    /\ copyRest(w, todo[w] \ {e})
    /\ UNCHANGED <<job, ghosts>>

\* With skip_existing, a file in the way is left alone, and that is a success.
copyFile(w) ==
  \E e \in nextEntries(w) :
    /\ isFile(files[e[1]]) /\ takesFile(e)
    /\ files' = [files EXCEPT ![targetOf(e)] =
                   IF job[w].overwrite \/ @ = Absent THEN files[e[1]] ELSE @]
    /\ copyRest(w, todo[w] \ {e})
    /\ UNCHANGED <<job, ghosts>>

\* The source has gone, the target does not fit, or the device fails: before
\* anything happened, inside a file, or between making and reading a
\* directory.  What was copied so far stays.
copyThrows(w) ==
  \E e \in nextEntries(w) :
    /\ \/ UNCHANGED files
       \/ /\ isFile(files[e[1]]) /\ takesFile(e)
          /\ job[w].overwrite \/ ~exists(targetOf(e))
          /\ files' = [files EXCEPT ![targetOf(e)] = Partial]
       \/ /\ files[e[1]] = Dir /\ takesDir(e[2])
          /\ files' = [files EXCEPT ![e[2]] = Dir]
    /\ afterCopy(w, "PERMISSION_DENIED")
    /\ UNCHANGED <<job, ghosts>>

-----------------------------------------------------------------------------
(* Removing and renaming.                                                  *)

\* What a remove_all that ran to its end makes of mStatus.
removed(w) == IF job[w].op = "remove" THEN "SUCCESS" ELSE status[w]

\* Mutant: the source is left where it is.
removeAll_Forgotten(w) ==
  /\ pc[w] = "remove_all"
  /\ finish(w, removed(w))
  /\ UNCHANGED <<files, job, todo, ghosts>>

\* fs::remove_all, all there is of InternalRemove and the last call of
\* InternalMove: entry by entry from the leaves up, whoever put them there,
\* and content with a path that has gone.
removeAll(w) ==
  LET src == job[w].src
      leaves == {p \in Paths : under(p, src) /\ exists(p) /\ entriesOf(files, p) = {}}
  IN  /\ pc[w] = "remove_all"
      /\ \/ leaves = {} /\ UNCHANGED files /\ finish(w, removed(w))
         \/ \E p \in leaves :
              /\ files' = [files EXCEPT ![p] = Absent]
              /\ IF p = src THEN finish(w, removed(w)) ELSE UNCHANGED <<pc, status>>
         \/ UNCHANGED files /\ finish(w, "PERMISSION_DENIED")
      /\ UNCHANGED <<job, todo, ghosts>>

\* The tree after rename(2) of s to t in the same directory.
renamedTree(tree, s, t) ==
  [p \in Paths |-> IF under(p, t) THEN tree[[p EXCEPT ![Len(s)] = last(s)]]
                   ELSE IF under(p, s) THEN Absent ELSE tree[p]]

\* rename(2) replaces a file by a file and an empty directory by a directory.
mayReplace(s, t) ==
  \/ t = s \/ ~exists(t)
  \/ isFile(files[s]) /\ isFile(files[t])
  \/ files[s] = Dir /\ files[t] = Dir /\ entriesOf(files, t) = {}

\* InternalRename: the new name, then rename(2).
rename(w) ==
  LET j == job[w]
  IN  /\ pc[w] = "rename"
      /\ \/ /\ j.newName = BadName
            /\ finish(w, "INVALID_DEST_PATH") /\ UNCHANGED files
         \/ /\ j.newName # BadName
            /\ exists(j.src) /\ mayReplace(j.src, renamed(j))
            /\ files' = renamedTree(files, j.src, renamed(j))
            /\ finish(w, "SUCCESS")
         \/ /\ j.newName # BadName
            /\ finish(w, "PERMISSION_DENIED") /\ UNCHANGED files
      /\ UNCHANGED <<job, todo, ghosts>>

-----------------------------------------------------------------------------
Init ==
  /\ files \in Trees
  /\ pc = [w \in Workers |-> "idle"]
  /\ job = [w \in Workers |-> NoJob]
  /\ status = [w \in Workers |-> "NO_ERROR"]
  /\ todo = [w \in Workers |-> {}]
  /\ served = 0
  /\ before = [w \in Workers |-> Unknown]
  /\ alone = [w \in Workers |-> FALSE]

\* One call into the file system.
Call(w) ==
  \/ validate(w) \/ validateDest(w) \/ checkTarget(w) \/ prepare(w)
  \/ copyDirectory(w) \/ copyFile(w) \/ copyThrows(w)
  \/ removeAll(w) \/ rename(w)

\* Clients ask for nothing more.
Rest ==
  /\ served = MaxRequests /\ \A w \in Workers : pc[w] = "idle"
  /\ UNCHANGED vars

Next ==
  \/ \E w \in Workers : Call(w) \/ \E j \in Jobs : takeUp(w, j)
  \/ Rest

Spec == Init /\ [][Next]_vars

\* A dispatcher inside a handler is a runnable thread.
FairSpec == Spec /\ \A w \in Workers : WF_vars(Call(w))

-----------------------------------------------------------------------------
(* Properties.                                                             *)

Statuses == {"NO_ERROR", "SUCCESS", "INVALID_SOURCE_PATH", "INVALID_DEST_PATH",
             "FILE_ALREADY_EXISTS", "PERMISSION_DENIED"}

\* The shape of the state: the file system is a tree, the call a worker is
\* about to make belongs to the job it has, and a copy reads below its source
\* and writes below its destination.  (The last path fs::copy tries may be
\* one name too long.)
TypeOK ==
  /\ files \in [Paths -> Held] /\ isTree(files)
  /\ pc \in [Workers -> {"idle", "validate", "validateDest", "check", "prepare",
                         "copy", "remove_all", "rename"}]
  /\ job \in [Workers -> Jobs \cup {NoJob}]
  /\ status \in [Workers -> Statuses]
  /\ todo \in [Workers -> SUBSET (Paths \X Seq(Names))]
  /\ served \in Nat
  /\ before \in [Workers -> [Paths -> Held]]
  /\ alone \in [Workers -> BOOLEAN]
  /\ \A w \in Workers :
       /\ pc[w] # "idle" => job[w] \in Jobs
       /\ pc[w] \in {"validateDest", "check", "prepare", "copy"} =>
            job[w].op \in {"copy", "move"}
       /\ pc[w] = "prepare" => Len(desPath(job[w])) <= Depth
       /\ pc[w] = "remove_all" => job[w].op \in {"move", "remove"}
       /\ pc[w] = "rename" => job[w].op = "rename"
       /\ pc[w] = "copy" => \A e \in todo[w] : /\ under(e[1], job[w].src)
                                               /\ under(e[2], job[w].dest)

\* May the next call of w destroy what the path holds?
licensed(w, path) ==
  LET j == job[w]
  IN  \/ pc[w] = "remove_all" /\ under(path, j.src)
      \/ pc[w] = "rename" /\ (under(path, j.src) \/ under(path, renamed(j)))
      \/ pc[w] = "copy" /\ j.overwrite /\ under(path, j.dest)

\* No file or directory is lost that no client gave up: it changes or goes
\* only where it was asked to be removed, moved away, renamed or overwritten.
\* A copy or move without overwrite spares whatever it meets, also deep in
\* the tree and also what another worker put there after the check.
NothingClobbered ==
  [][\A p \in Paths : exists(p) /\ files'[p] # files[p] =>
       \E w \in Workers : licensed(w, p)]_vars

\* A request refused while nobody else did anything had to be refused, and
\* has left the file system as it was; and the ones to refuse are refused.
\* A copy that breaks off has not touched its source.
QuietRefusalsRight ==
  \A w \in Workers :
    LET j == job[w]
        b == before[w]
        transfer == j.op \in {"copy", "move"}
        noSource == b[j.src] = Absent
        noDest == \/ transfer /\ b[j.dest] = Absent
                  \/ j.op = "rename" /\ j.newName = BadName
        inTheWay == /\ transfer /\ ~j.overwrite /\ ~noSource /\ ~noDest
                    /\ desPath(j) \in Paths /\ b[desPath(j)] # Absent
    IN  pc[w] = "idle" /\ alone[w] =>
          /\ status[w] = "INVALID_SOURCE_PATH" => noSource
          /\ status[w] = "INVALID_DEST_PATH" => noDest
          /\ status[w] = "FILE_ALREADY_EXISTS" <=> inTheWay
          /\ noSource \/ noDest =>
               status[w] \in {"INVALID_SOURCE_PATH", "INVALID_DEST_PATH"}
          /\ status[w] \in {"INVALID_SOURCE_PATH", "INVALID_DEST_PATH",
                            "FILE_ALREADY_EXISTS"} => files = b
          /\ status[w] = "PERMISSION_DENIED" /\ j.op = "copy" =>
               \A p \in Paths : under(p, j.src) /\ ~under(p, desPath(j)) =>
                                  files[p] = b[p]

\* The tree b after copy or move, when it all goes well: what is below the
\* source is below desPath, and what is there already stays, unless it is a
\* file to be overwritten.
copiedTree(j, b) ==
  [p \in Paths |->
     LET origin == j.src \o SubSeq(p, Len(desPath(j)) + 1, Len(p))
     IN  IF /\ under(p, desPath(j)) /\ origin \in Paths /\ b[origin] # Absent
            /\ b[p] = Absent \/ (j.overwrite /\ isFile(b[origin]))
         THEN b[origin] ELSE b[p]]

without(b, path) == [p \in Paths |-> IF under(p, path) THEN Absent ELSE b[p]]

\* Nowhere does the source have a file where the target has a directory.
agreeing(j, b) ==
  \A p \in Paths :
    LET origin == j.src \o SubSeq(p, Len(desPath(j)) + 1, Len(p))
    IN  under(p, desPath(j)) /\ origin \in Paths /\ isFile(b[origin]) => b[p] # Dir

\* A request that succeeded while nobody else did anything has done what it
\* says, down to the last entry of the tree, and nothing else; and nothing is
\* ever copied or moved into itself.  (Three cases aside: the destination is a
\* file, a file of the source meets a directory, or the source lies below its
\* target, where a copy overwrites entries that it has yet to read.)
QuietSuccessesExact ==
  \A w \in Workers :
    LET j == job[w]
        b == before[w]
    IN  pc[w] = "idle" /\ alone[w] /\ status[w] = "SUCCESS" =>
          CASE j.op = "remove" -> files = without(b, j.src)
            [] j.op = "rename" -> files = renamedTree(b, j.src, renamed(j))
            [] OTHER -> b[j.dest] = Dir =>
                 /\ ~under(j.dest, j.src) /\ desPath(j) # j.src
                 /\ agreeing(j, b) /\ ~under(j.src, desPath(j)) =>
                      files = IF j.op = "copy" THEN copiedTree(j, b)
                              ELSE without(copiedTree(j, b), j.src)

\* Every transfer comes to an end, the copy of a directory into itself too.
TransfersEnd == \A w \in Workers : pc[w] # "idle" ~> pc[w] = "idle"

-----------------------------------------------------------------------------
(* What the code's own texts say and the code does not meet.  README,       *)
(* section 3.                                                               *)

\* What FILE_ALREADY_EXISTS is for: with nobody else at work, a copy or move
\* without overwrite onto a file that exists is not told that it succeeded.
ExistingFileReported ==
  \A w \in Workers :
    LET j == job[w]
    IN  /\ pc[w] = "idle" /\ alone[w]
        /\ j.op \in {"copy", "move"} /\ ~j.overwrite
        /\ isFile(before[w][j.dest])
        => status[w] # "SUCCESS"

\* The same when the file appears between the check and the copy.
LateFileReported ==
  [][\A w \in Workers :
       /\ pc[w] \in {"check", "prepare", "copy"}
       /\ job[w].op \in {"copy", "move"} /\ ~job[w].overwrite
       /\ desPath(job[w]) \in Paths
       /\ isFile(files[desPath(job[w])]) /\ pc'[w] \in {"remove_all", "idle"}
       => status'[w] # "SUCCESS"]_vars

\* What a refusal says: a move that answers "Permission Denied", with nobody
\* else at work, has not lost the file.
RefusedMoveKeepsFile ==
  \A w \in Workers :
    LET j == job[w]
    IN  /\ pc[w] = "idle" /\ alone[w]
        /\ j.op = "move" /\ status[w] = "PERMISSION_DENIED"
        /\ isFile(before[w][j.src])
        => \E p \in Paths : files[p] = before[w][j.src]
=============================================================================
