---------------------------- MODULE CloudAccounts ----------------------------
(***************************************************************************)
(* GDriveProvider: accounts that are attached and authenticated, and the   *)
(* cache of file ids that turns a client's path into a file of the Google  *)
(* Drive.  The dispatcher handles one request at a time, but the drive is  *)
(* shared with other people's programs, and every call to it may throw,    *)
(* before or after it took effect; an exception ends the request without   *)
(* an answer.  A handler is cut at its calls to the drive.                 *)
(*                                                                         *)
(* A title may hold slashes, as a path does: both are the words between    *)
(* them.  Several files of a folder may have the same title.               *)
(***************************************************************************)
EXTENDS Naturals, Sequences, FiniteSets, Functions

CONSTANTS Clients,      \* client ids of Google accounts
          Words,        \* texts without a slash, none of them empty
          Titles,       \* titles of files, by their words
          NewTitles,    \* bound: titles that files are renamed to
          Asked,        \* bound: paths that clients name, other than "/"
          CloudBefore,  \* what a drive holds at first: id -> item
          LocalBefore,  \* the local files: name -> content
          MaxFiles,     \* bound: file ids of a drive
          MaxChanges,   \* bound: changes that other programs make
          Extends,      \* the pairs of words of which one begins with the other
          NoId, NoMove  \* "not in the cache", "no move under way"

DriveIds == 1..Cardinality(Clients)
FileIds == 1..MaxFiles
Root == 0

\* Only folders hold files, and they lie in the root.
ASSUME CloudAssumption ==
  /\ DOMAIN CloudBefore \subseteq FileIds
  /\ \A i \in DOMAIN CloudBefore :
       LET item == CloudBefore[i]
       IN  /\ {"parent", "title", "folder", "content"} \subseteq DOMAIN item
           /\ item.title \in Titles
           /\ item.folder => item.parent = Root
           /\ item.parent # Root => /\ item.parent \in DOMAIN CloudBefore
                                   /\ CloudBefore[item.parent].folder
ASSUME ClientsAssumption == IsFiniteSet(Clients)
ASSUME ExtendsAssumption == Extends \subseteq Words \X Words
ASSUME BoundsAssumption == MaxFiles \in Nat /\ MaxChanges \in Nat
\* Every word is a title.
ASSUME TitlesAssumption == /\ Titles \subseteq Seq(Words) \ {<<>>}
                           /\ \A w \in Words : <<w>> \in Titles
                           /\ NewTitles \subseteq Titles
ASSUME AskedAssumption == Asked \subseteq Seq(Words) \ {<<>>}
\* A name is not a file id.
ASSUME WordsAssumption == Words \cap FileIds = {}

\* What a file can hold: what there was, or what a download cut short wrote.
Contents == {CloudBefore[i].content : i \in DOMAIN CloudBefore}
            \cup Range(LocalBefore) \cup {"short"}
ASSUME NoMoveAssumption ==
  NoMove \notin [drive : DriveIds, source : FileIds \cup Words,
                 content : Contents, to : {"cloud", "local"}]

VARIABLES
  mClientIdDriveId,  \* client -> drive id
  refreshToken,      \* drives whose mAuthParam["refresh_token"] is set
  mCred,             \* drives with a credential object
  mFileIds,          \* [DriveIds -> (path -> file id)], a path is its words
  cloud,             \* external: [DriveIds -> (file id -> item)]
  local,             \* name -> content of the local folder
  pc,                \* idle, load or finish
  at,                \* the drive of the request that is not over
  pending,           \* files getChildren has listed and not visited
  listing,           \* the path to list once the cache is loaded, or NoId
  moving,            \* a move between its copy and its removal, or NoMove
  touched,           \* drives changed behind the cache since its last load
  changes,           \* changes made by other programs
  reply              \* the last answer

accountVars == <<mClientIdDriveId, refreshToken, mCred>>
fileVars    == <<mFileIds, cloud, local>>
flowVars    == <<pc, at, pending, listing, moving>>
vars == <<accountVars, fileVars, flowVars, touched, changes, reply>>

\* kind is the error code, "ok" or "exception"; about is the client of a
\* login and the destination of a copy that succeeded; files is the listing,
\* path -> the file shown there.
answer(kind, about) == [kind |-> kind, about |-> about, files |-> <<>>]
listed(files) == [kind |-> "ok", about |-> <<>>, files |-> files]
noAnswer == answer("exception", <<>>)

-----------------------------------------------------------------------------
(* The drive itself (external).                                            *)

children(d, f) == {i \in DOMAIN cloud[d] : cloud[d][i].parent = f}

\* Folders lie in the root: a path is a title, or the titles of a folder and
\* of a file, with a slash between them.
folderPath(c, i) == IF c[i].parent = Root THEN <<>> ELSE c[c[i].parent].title
pathIn(c, i) == folderPath(c, i) \o c[i].title

without(c, i) == Restrict(c, {j \in DOMAIN c : j # i /\ c[j].parent # i})
retitled(c, i, t) == [c EXCEPT ![i].title = t]
with(c, item) == LET new == CHOOSE i \in FileIds : i \notin DOMAIN c
                 IN  [i \in DOMAIN c \cup {new} |-> IF i = new THEN item ELSE c[i]]
hasRoom(c) == DOMAIN c # FileIds

\* Another program deletes or renames a file.
someoneChanges(d, i) ==
  /\ changes < MaxChanges
  /\ i \in DOMAIN cloud[d]
  /\ \/ cloud' = [cloud EXCEPT ![d] = without(@, i)]
     \/ \E t \in NewTitles : cloud' = [cloud EXCEPT ![d] = retitled(@, i, t)]
  /\ changes' = changes + 1
  /\ touched' = touched \cup {d}
  /\ UNCHANGED <<accountVars, mFileIds, local, flowVars, reply>>

-----------------------------------------------------------------------------
(* GDriveOperation: the cache.                                             *)

getFileId(d, path) ==
  IF path \in DOMAIN mFileIds[d] THEN mFileIds[d][path] ELSE NoId

\* loadFileIds begins: only "/" is known, and the root has been listed.
loadFileIds(d) ==
  /\ mFileIds' = [mFileIds EXCEPT ![d] = [p \in {<<>>} |-> Root]]
  /\ pending' = {[id |-> i, parentPath |-> <<>>] :
                   i \in {j \in DOMAIN cloud'[d] : cloud'[d][j].parent = Root}}
  /\ pc' = "load"
  /\ at' = d
  /\ touched' = touched \ {d}

\* One file: its title is fetched, and its own children are listed.  A path
\* that is in the cache already gets the new id.
getChildren(e) ==
  /\ pc = "load"
  /\ e \in pending
  /\ e.id \in DOMAIN cloud[at]
  /\ LET path == e.parentPath \o cloud[at][e.id].title
     IN  /\ mFileIds' = [mFileIds EXCEPT ![at] =
                           [p \in DOMAIN @ \cup {path} |->
                              IF p = path THEN e.id ELSE @[p]]]
         /\ pending' = (pending \ {e}) \cup
                         {[id |-> i, parentPath |-> path] : i \in children(at, e.id)}
  /\ UNCHANGED <<accountVars, cloud, local, pc, at, listing, moving, touched,
                 changes, reply>>

\* find(path): the entry holds the words of the path from place k on, the
\* last of them perhaps as the beginning of a longer word.
matchesAt(entry, path, k) ==
  /\ k + Len(path) - 1 <= Len(entry)
  /\ \A n \in 1..Len(path) :
       LET t == path[n]
           u == entry[k + n - 1]
       IN  t = u \/ (n = Len(path) /\ <<u, t>> \in Extends)

\* Mutant: the separator after the path counts as one too many.
getFileMap_NoSkip(d, path) ==
  Restrict(mFileIds[d],
    {entry \in DOMAIN mFileIds[d] \ {path} :
       IF path = <<>> THEN Len(entry) = 1
       ELSE \E k \in 1..Len(entry) :
              matchesAt(entry, path, k) /\ Len(entry) < k + Len(path)})

\* In a listing of the root: an entry with no separator but the first.
inRoot(entry) == Len(entry) = 1

\* Does the path occur in the entry, and is there no separator after the first
\* occurrence and the character that follows it: one more word when the last
\* one matches in full?  The path need not occur at the beginning.
inText(entry, path) ==
  \E k \in 1..Len(entry) :
    LET end == k + Len(path) - 1
    IN  /\ matchesAt(entry, path, k)
        /\ \A l \in 1..(k - 1) : ~matchesAt(entry, path, l)
        /\ \/ Len(entry) = end
           \/ Len(entry) = end + 1 /\ entry[end] = path[Len(path)]

getFileMap(d, path) ==
  Restrict(mFileIds[d],
    {entry \in DOMAIN mFileIds[d] \ {path} :
       IF path = <<>> THEN inRoot(entry) ELSE inText(entry, path)})

\* The request throws: a call of getChildren or, in list, a later one.
loadThrows ==
  /\ pc = "load"
  /\ pc' = "idle" /\ pending' = {} /\ listing' = NoId
  /\ reply' = IF listing = NoId THEN reply ELSE noAnswer
  /\ UNCHANGED <<accountVars, fileVars, at, moving, touched, changes>>

\* The cache is complete.  list goes on with getFileId and getFileMap.
loadReturns ==
  /\ pc = "load"
  /\ pending = {}
  /\ pc' = "idle" /\ listing' = NoId
  /\ reply' = IF listing = NoId THEN reply
              ELSE IF getFileId(at, listing) = NoId
              THEN answer("INVALID_PATH", <<>>)
              ELSE listed(getFileMap(at, listing))
  /\ UNCHANGED <<accountVars, fileVars, at, pending, moving, touched, changes>>

-----------------------------------------------------------------------------
(* Accounts.                                                               *)

attachCloud(c) ==
  /\ pc = "idle"
  /\ \/ /\ c \notin DOMAIN mClientIdDriveId
        /\ LET d == Cardinality(DOMAIN mClientIdDriveId) + 1
           IN  mClientIdDriveId' = [x \in DOMAIN mClientIdDriveId \cup {c} |->
                  IF x = c THEN d ELSE mClientIdDriveId[x]]
        /\ \/ reply' = answer("ok", c)
           \/ reply' = answer("INVALID_URL", c)
     \/ /\ c \in DOMAIN mClientIdDriveId
        /\ reply' = answer("ALREADY_AUTHENTICATED", c)
        /\ UNCHANGED mClientIdDriveId
  /\ UNCHANGED <<refreshToken, mCred, fileVars, flowVars, touched, changes>>

\* Mutant: the token is stored and the credential is forgotten.
token_NoCredential(c) ==
  /\ pc = "idle"
  /\ c \in DOMAIN mClientIdDriveId
  /\ LET d == mClientIdDriveId[c]
     IN  /\ refreshToken' = refreshToken \cup {d}
         /\ UNCHANGED cloud
         /\ loadFileIds(d)
  /\ reply' = answer("ok", <<>>)
  /\ UNCHANGED <<mClientIdDriveId, mCred, local, listing, moving, changes>>

\* extraMethod, type "token": a refresh token of an earlier session.
token(c) ==
  /\ pc = "idle"
  /\ \/ /\ c \in DOMAIN mClientIdDriveId
        /\ LET d == mClientIdDriveId[c]
           IN  /\ refreshToken' = refreshToken \cup {d}
               /\ mCred' = mCred \cup {d}
               /\ UNCHANGED cloud
               /\ loadFileIds(d)
        /\ reply' = answer("ok", <<>>)
     \/ /\ c \notin DOMAIN mClientIdDriveId
        /\ reply' = answer("INVALID_PARAM", <<>>)
        /\ UNCHANGED <<refreshToken, mCred, mFileIds, cloud, pc, at, pending, touched>>
  /\ UNCHANGED <<mClientIdDriveId, local, listing, moving, changes>>

attached(d) == d \in Range(mClientIdDriveId)

\* The credential is replaced before the server has looked at the code, and
\* the refresh token is left alone when it refuses or throws.
authenticateCloud(d) ==
  /\ pc = "idle"
  /\ \/ /\ ~attached(d)
        /\ reply' = answer("INVALID_PARAM", <<>>)
        /\ UNCHANGED <<accountVars, mFileIds, cloud, pc, at, pending, touched>>
     \/ /\ attached(d)
        /\ mCred' = mCred \cup {d}
        /\ UNCHANGED <<mClientIdDriveId, cloud>>
        /\ \/ /\ refreshToken' = refreshToken \cup {d}
              /\ reply' = answer("ok", <<>>)
              /\ loadFileIds(d)
           \/ /\ reply' \in {answer("INVALID_URL", <<>>),
                             noAnswer}
              /\ UNCHANGED <<refreshToken, mFileIds, pc, at, pending, touched>>
  /\ UNCHANGED <<local, listing, moving, changes>>

-----------------------------------------------------------------------------
(* File operations.                                                        *)

authenticated(d) == attached(d) /\ d \in refreshToken

\* What every file operation checks first.
refuses(d) ==
  /\ pc = "idle"
  /\ ~authenticated(d)
  /\ reply' = answer(IF attached(d) THEN "AUTHENTICATION_NOT_DONE"
                     ELSE "INVALID_PARAM", <<>>)
  /\ UNCHANGED <<accountVars, fileVars, flowVars, touched, changes>>

ready(d) == pc = "idle" /\ authenticated(d)

says(kind) ==
  /\ reply' = answer(kind, <<>>)
  /\ UNCHANGED <<fileVars, flowVars, touched>>

\* A call that throws and has done nothing.
throws ==
  /\ reply' = noAnswer
  /\ UNCHANGED <<fileVars, flowVars, touched>>

list(d, path) ==
  /\ ready(d)
  /\ UNCHANGED cloud
  /\ loadFileIds(d)
  /\ listing' = path
  /\ UNCHANGED <<accountVars, local, moving, changes, reply>>

getProperties(d, path) ==
  /\ ready(d)
  /\ \/ getFileId(d, path) \in DOMAIN cloud[d] \cup {Root}
        /\ says("ok")
     \/ throws
  /\ UNCHANGED <<accountVars, changes>>

\* A Delete or Patch that took effect: answered and followed by a load, or
\* its answer is lost.
changesCloud(d, c) ==
  /\ cloud' = [cloud EXCEPT ![d] = c]
  /\ \/ reply' = answer("ok", <<>>) /\ loadFileIds(d)
     \/ /\ reply' = noAnswer
        /\ touched' = touched \cup {d}
        /\ UNCHANGED <<mFileIds, pc, at, pending>>
  /\ UNCHANGED <<local, listing, moving>>

remove(d, path) ==
  /\ ready(d)
  /\ LET i == getFileId(d, path)
     IN  IF i = NoId THEN says("INVALID_PATH")
         ELSE \/ throws
              \/ i \in DOMAIN cloud[d]
                 /\ changesCloud(d, without(cloud[d], i))
  /\ UNCHANGED <<accountVars, changes>>

\* Mutant: the cache is not loaded again.
rename_NoLoad(d, path, newName) ==
  /\ ready(d)
  /\ getFileId(d, path) \in DOMAIN cloud[d]
  /\ cloud' = [cloud EXCEPT ![d] = retitled(@, getFileId(d, path), newName)]
  /\ reply' = answer("ok", <<>>)
  /\ UNCHANGED <<mFileIds, local, flowVars, touched, accountVars, changes>>

rename(d, path, newName) ==
  /\ ready(d)
  /\ LET i == getFileId(d, path)
     IN  IF i = NoId THEN says("INVALID_PATH")
         ELSE \/ throws
              \/ i \in DOMAIN cloud[d]
                 /\ changesCloud(d, retitled(cloud[d], i, newName))
  /\ UNCHANGED <<accountVars, changes>>

\* A destination that the cache does not know is the root.
parentFor(d, dest) == IF getFileId(d, dest) = NoId THEN Root ELSE getFileId(d, dest)
isFolder(d, f) == f = Root \/ (f \in DOMAIN cloud[d] /\ cloud[d][f].folder)

\* Copy and Insert make a new file; the drive refuses to copy folders, and
\* parents that are not folders.
adds(d, dest, title, content) ==
  /\ hasRoom(cloud[d])
  /\ isFolder(d, parentFor(d, dest))
  /\ cloud' = [cloud EXCEPT ![d] =
       with(@, [parent |-> parentFor(d, dest), title |-> title,
                folder |-> FALSE, content |-> content])]

copyable(d, path) ==
  getFileId(d, path) \in DOMAIN cloud[d] /\ ~cloud[d][getFileId(d, path)].folder
itemAt(d, path) == cloud[d][getFileId(d, path)]

\* The copy is made: the answer and a load follow, or an exception.
copied(d, dest) ==
  \/ reply' = answer("ok", dest) /\ loadFileIds(d)
  \/ reply' = noAnswer /\ UNCHANGED <<mFileIds, pc, at, pending, touched>>

\* The file written by a download, in full or not: nobody looks.  Its name is
\* what follows the last slash of the path.
downloads(path, content) ==
  \E written \in {content, "short"} :
    local' = [w \in DOMAIN local \cup {path[Len(path)]} |->
                IF w = path[Len(path)] THEN written ELSE local[w]]

copyInCloud(d, path, dest) ==
  /\ ready(d)
  /\ IF getFileId(d, path) = NoId THEN says("INVALID_SOURCE_PATH")
     ELSE \/ throws
          \/ /\ copyable(d, path)
             /\ adds(d, dest, itemAt(d, path).title, itemAt(d, path).content)
             /\ copied(d, dest)
             /\ UNCHANGED <<local, listing, moving>>
  /\ UNCHANGED <<accountVars, changes>>

copyToCloud(d, name, dest) ==
  /\ ready(d)
  /\ IF name \notin DOMAIN local THEN says("UNKNOWN_ERROR")
     ELSE \/ throws
          \/ says("INVALID_FILE")
          \/ /\ adds(d, dest, <<name>>, local[name])
             /\ copied(d, dest)
             /\ UNCHANGED <<local, listing, moving>>
  /\ UNCHANGED <<accountVars, changes>>

copyFromCloud(d, path) ==
  /\ ready(d)
  /\ IF getFileId(d, path) = NoId THEN says("INVALID_SOURCE_PATH")
     ELSE \/ throws
          \/ says("UNKNOWN_ERROR")
          \/ /\ copyable(d, path)
             /\ downloads(path, itemAt(d, path).content)
             /\ UNCHANGED cloud
             /\ copied(d, <<>>)
             /\ UNCHANGED <<listing, moving>>
  /\ UNCHANGED <<accountVars, changes>>

\* A move begins with the copy; the removal of the source is a second call.
half(d, source, content, to) ==
  /\ moving' = [drive |-> d, source |-> source, content |-> content, to |-> to]
  /\ pc' = "finish"
  /\ at' = d
  /\ UNCHANGED <<mFileIds, pending, listing, touched, reply>>

\* Mutant: an exception of the copy does not stop the move.
moveInCloud_GoesOn(d, path, dest) ==
  /\ ready(d)
  /\ copyable(d, path)
  /\ half(d, getFileId(d, path), itemAt(d, path).content, "cloud")
  /\ UNCHANGED <<accountVars, changes, cloud, local>>

moveInCloud(d, path, dest) ==
  /\ ready(d)
  /\ IF getFileId(d, path) = NoId THEN says("INVALID_SOURCE_PATH")
     ELSE \/ throws
          \/ /\ copyable(d, path)
             /\ adds(d, dest, itemAt(d, path).title, itemAt(d, path).content)
             /\ \/ half(d, getFileId(d, path), itemAt(d, path).content, "cloud")
                \/ reply' = noAnswer
                   /\ UNCHANGED <<mFileIds, flowVars, touched>>
             /\ UNCHANGED local
  /\ UNCHANGED <<accountVars, changes>>

moveToCloud(d, name, dest) ==
  /\ ready(d)
  /\ IF name \notin DOMAIN local THEN says("UNKNOWN_ERROR")
     ELSE \/ throws
          \/ says("INVALID_FILE")
          \/ /\ adds(d, dest, <<name>>, local[name])
             /\ \/ half(d, name, local[name], "cloud")
                \/ reply' = noAnswer
                   /\ UNCHANGED <<mFileIds, flowVars, touched>>
             /\ UNCHANGED local
  /\ UNCHANGED <<accountVars, changes>>

moveFromCloud(d, path) ==
  /\ ready(d)
  /\ IF getFileId(d, path) = NoId THEN says("INVALID_SOURCE_PATH")
     ELSE \/ throws
          \/ says("UNKNOWN_ERROR")
          \/ /\ copyable(d, path)
             /\ downloads(path, itemAt(d, path).content)
             /\ half(d, getFileId(d, path), itemAt(d, path).content, "local")
             /\ UNCHANGED cloud
  /\ UNCHANGED <<accountVars, changes>>

\* Delete of the source in the cloud: with its answer, without, or not done.
deleteSource ==
  /\ pc = "finish"
  /\ moving.source \in FileIds
  /\ moving' = NoMove
  /\ \/ /\ moving.source \in DOMAIN cloud[at]
        /\ cloud' = [cloud EXCEPT ![at] = without(@, moving.source)]
        /\ \/ reply' = answer("ok", <<>>) /\ loadFileIds(at)
           \/ /\ reply' = noAnswer
              /\ pc' = "idle"
              /\ touched' = touched \cup {at}
              /\ UNCHANGED <<mFileIds, at, pending>>
     \/ /\ reply' = noAnswer
        /\ pc' = "idle"
        /\ UNCHANGED <<cloud, mFileIds, at, pending, touched>>
  /\ UNCHANGED <<accountVars, local, listing, changes>>

\* InternalRemove of the local source; its status is ignored.
removeSource ==
  /\ pc = "finish"
  /\ moving.source \in Words
  /\ moving' = NoMove
  /\ local' \in {local, Restrict(local, DOMAIN local \ {moving.source})}
  /\ UNCHANGED cloud
  /\ reply' = answer("ok", <<>>)
  /\ loadFileIds(at)
  /\ UNCHANGED <<accountVars, listing, changes>>

-----------------------------------------------------------------------------
Init ==
  /\ mClientIdDriveId = <<>> /\ refreshToken = {} /\ mCred = {}
  /\ mFileIds = [d \in DriveIds |-> <<>>]
  /\ cloud = [d \in DriveIds |-> CloudBefore]
  /\ local = LocalBefore
  /\ pc = "idle" /\ at = 1 /\ pending = {} /\ listing = NoId /\ moving = NoMove
  /\ touched = {} /\ changes = 0
  /\ reply = noAnswer

Paths == Titles \cup {t \o u : t, u \in Titles}
Destinations == {<<>>} \cup Asked

Account == \/ \E c \in Clients : attachCloud(c) \/ token(c)
           \/ \E d \in DriveIds : authenticateCloud(d)

Copy(d) ==
  \/ \E path \in Asked, dest \in Destinations : copyInCloud(d, path, dest)
  \/ \E w \in Words, dest \in Destinations : copyToCloud(d, w, dest)
  \/ \E path \in Asked : copyFromCloud(d, path)

Move(d) ==
  \/ \E path \in Asked, dest \in Destinations : moveInCloud(d, path, dest)
  \/ \E w \in Words, dest \in Destinations : moveToCloud(d, w, dest)
  \/ \E path \in Asked : moveFromCloud(d, path)

FileOperation(d) ==
  \/ refuses(d)
  \/ \E path \in {<<>>} \cup Asked : list(d, path) \/ getProperties(d, path)
  \/ \E path \in Asked : remove(d, path)
  \/ \E path \in Asked, t \in NewTitles : rename(d, path, t)

Load == (\E e \in pending : getChildren(e)) \/ loadThrows \/ loadReturns

Next ==
  \/ Account
  \/ \E d \in DriveIds : FileOperation(d) \/ Copy(d) \/ Move(d)
  \/ deleteSource \/ removeSource
  \/ Load
  \/ \E d \in DriveIds, i \in FileIds : someoneChanges(d, i)

Spec == Init /\ [][Next]_vars
-----------------------------------------------------------------------------
(* Properties.                                                             *)

\* The types of the maps; only a drive with a credential has a cache, and the
\* phases of a request agree with each other.
TypeOK ==
  /\ Range(mClientIdDriveId) \subseteq DriveIds
  /\ refreshToken \cup mCred \cup touched \subseteq DriveIds
  /\ \A d \in DriveIds :
       /\ DOMAIN mFileIds[d] \subseteq Paths \cup {<<>>}
       /\ Range(mFileIds[d]) \subseteq FileIds \cup {Root}
       /\ d \notin mCred => mFileIds[d] = <<>>
  /\ pc \in {"idle", "load", "finish"}
  /\ pc = "finish" <=> moving # NoMove
  /\ pending # {} \/ listing # NoId => pc = "load"

\* An attached account has a drive of its own, and a drive that passes the
\* check of the refresh token has a credential: no file operation goes
\* through a null mCred, whatever order of logins, tokens and refused
\* authentications of several accounts came before.
CredentialBehindToken ==
  /\ IsInjective(mClientIdDriveId)
  /\ refreshToken \subseteq mCred
  /\ mCred \subseteq Range(mClientIdDriveId)

\* A path in the cache leads to a file that bears it, also in the middle of
\* a load and after one that threw, until somebody else changes the drive or
\* the answer to a change of our own is lost: what a client removes, renames
\* or moves is what it named.
CacheTruthful ==
  \A d \in DriveIds \ touched :
    \A path \in DOMAIN mFileIds[d] \ {<<>>} :
      LET i == mFileIds[d][path]
      IN  i \in DOMAIN cloud[d] /\ pathIn(cloud[d], i) = path

contents == Range(local) \cup
            UNION {{cloud[d][i].content : i \in DOMAIN cloud[d]} : d \in DriveIds}

\* A move into the cloud never loses the file, whichever of its calls fails
\* or goes unanswered: its content is at the source or at the destination
\* after every step, unless somebody else interferes.
MovesKeepContent ==
  [][\A m \in {moving, moving'} \ {NoMove} :
       m.to = "cloud" /\ m.drive \notin touched /\ changes' = changes =>
         m.content \in contents']_vars

liesIn(c, i, path) == folderPath(c, i) = path

\* What the search of texts can show: a title with a slash looks like a file
\* of a folder further down.
plain(title) == Len(title) = 1

\* A listing that was not disturbed has an entry for every file of the folder
\* with a plain title, and it is of that file unless another one bears the
\* same path: the load found them all, at whatever depth, and the search of
\* all paths of the drive for the folder's path as a text found them again.
ListShowsFolder ==
  [][loadReturns /\ at \notin touched /\ listing # NoId /\ reply'.kind = "ok" =>
       \A i \in DOMAIN cloud[at] :
         LET path == pathIn(cloud[at], i)
             bearers == {j \in DOMAIN cloud[at] : pathIn(cloud[at], j) = path}
         IN  liesIn(cloud[at], i, listing) /\ plain(cloud[at][i].title) =>
               path \in DOMAIN reply'.files /\ reply'.files[path] \in bearers]_vars

-----------------------------------------------------------------------------
(* What the code's own texts say and the code does not meet: violated when  *)
(* added to the configuration of a run.  README, section 3.                 *)

\* "Already Authenticated" is the answer to a login of an account that is.
AlreadyAuthenticatedTrue ==
  reply.kind = "ALREADY_AUTHENTICATED" =>
    mClientIdDriveId[reply.about] \in refreshToken

\* "setting parent object to folder id": a copy that is answered as done lies
\* in the folder that the client named.
CopyLandsThere ==
  reply.kind = "ok" /\ reply.about \in Paths /\ at \notin touched =>
    \E i, f \in DOMAIN cloud[at] :
      cloud[at][i].parent = f /\ pathIn(cloud[at], f) = reply.about

\* "listFolderContents : Folder Path", as the Luna handler of list logs it: a
\* listing shows nothing but the files of the folder.
ListShowsNothingElse ==
  [][loadReturns /\ listing # NoId =>
       \A entry \in DOMAIN reply'.files :
         Len(entry) = Len(listing) + 1 /\ SubSeq(entry, 1, Len(listing)) = listing]_vars

\* And it shows all of them.  It leaves out a file whose title has a slash, and
\* of the files that bear the same path all but one.
ListShowsEveryFile ==
  [][loadReturns /\ at \notin touched /\ listing # NoId /\ reply'.kind = "ok" =>
       \A i \in DOMAIN cloud[at] :
         liesIn(cloud[at], i, listing) => i \in Range(reply'.files)]_vars
=============================================================================
