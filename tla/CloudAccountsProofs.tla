------------------------ MODULE CloudAccountsProofs ------------------------
(***************************************************************************)
(* The credentials of Google accounts, the truth of the cache, listings,   *)
(* moves and types, for any finite set of clients, any drives and files,   *)
(* and whatever other programs and failing calls do.                       *)
(***************************************************************************)
EXTENDS CloudAccounts, FiniteSetTheorems, SequenceTheorems, TLAPS

\* The drive ids handed out are those up to the number of accounts: the next
\* one, attachCloud's size() + 1, is therefore nobody's.
DriveIdsCounted ==
  /\ DOMAIN mClientIdDriveId \subseteq Clients
  /\ Range(mClientIdDriveId) \subseteq 1..Cardinality(DOMAIN mClientIdDriveId)

\* The inductive invariant.
IInv == DriveIdsCounted /\ CredentialBehindToken

\* The number of accounts is a number, and one more after a new login.
LEMMA AccountsCounted ==
  ASSUME DOMAIN mClientIdDriveId \subseteq Clients
  PROVE  /\ Cardinality(DOMAIN mClientIdDriveId) \in Nat
         /\ \A c \in Clients \ DOMAIN mClientIdDriveId :
              Cardinality(DOMAIN mClientIdDriveId \cup {c})
                = Cardinality(DOMAIN mClientIdDriveId) + 1
<1>1. IsFiniteSet(DOMAIN mClientIdDriveId)
  BY FS_Subset, ClientsAssumption
<1>. QED
  BY <1>1, FS_CardinalityType, FS_AddElement

\* No account exists at first.
LEMMA InitInv == Init => IInv
<1>. SUFFICES ASSUME Init PROVE IInv
  OBVIOUS
<1>1. DOMAIN mClientIdDriveId = {} /\ Range(mClientIdDriveId) = {}
  BY DEF Init, Range
<1>. QED
  BY <1>1 DEF IInv, Init, DriveIdsCounted, CredentialBehindToken, IsInjective

\* A login gives a new client the next drive id.
LEMMA AttachInv ==
  ASSUME IInv, NEW c \in Clients, attachCloud(c)
  PROVE  IInv'
<1>. DEFINE m == mClientIdDriveId
            n == Cardinality(DOMAIN m)
<1>0. refreshToken' = refreshToken /\ mCred' = mCred
  BY DEF attachCloud
<1>1. CASE m' = m
  BY <1>0, <1>1 DEF IInv, DriveIdsCounted, CredentialBehindToken
<1>2. CASE /\ c \notin DOMAIN m
           /\ m' = [x \in DOMAIN m \cup {c} |-> IF x = c THEN n + 1 ELSE m[x]]
  <2>1. n \in Nat /\ Cardinality(DOMAIN m \cup {c}) = n + 1
    BY <1>2, AccountsCounted DEF IInv, DriveIdsCounted
  <2>2. DOMAIN m' = DOMAIN m \cup {c}
    BY <1>2
  <2>3. Range(m') = Range(m) \cup {n + 1}
    BY <1>2, <2>2 DEF Range
  <2>4. Range(m) \subseteq 1..n
    BY DEF IInv, DriveIdsCounted
  <2>5. DriveIdsCounted'
    <3>. HIDE DEF n
    <3>1. Range(m') \subseteq 1..(n + 1)
      BY <2>1, <2>3, <2>4
    <3>2. Cardinality(DOMAIN m') = n + 1
      BY <2>1, <2>2
    <3>. QED
      BY <3>1, <3>2, <2>2 DEF IInv, DriveIdsCounted
  <2>6. IsInjective(m')
    <3>1. n + 1 \notin Range(m)
      <4>. HIDE DEF n
      <4>. QED  BY <2>1, <2>4
    <3>. QED
      BY <1>2, <2>2, <3>1 DEF IInv, CredentialBehindToken, IsInjective, Range
  <2>. QED
    BY <1>0, <2>3, <2>5, <2>6 DEF IInv, CredentialBehindToken
<1>. QED
  BY <1>1, <1>2 DEF attachCloud

\* The ids of drives do not change, and a drive that gains a token gains, or
\* has, a credential: that is enough.
LEMMA CredentialsGrow ==
  ASSUME IInv, NEW d \in Range(mClientIdDriveId),
         mClientIdDriveId' = mClientIdDriveId,
         mCred' = mCred \cup {d},
         refreshToken' \in {refreshToken, refreshToken \cup {d}}
  PROVE  IInv'
BY DEF IInv, DriveIdsCounted, CredentialBehindToken

\* What leaves the accounts alone keeps the invariant.
LEMMA AccountsUnchanged ==
  ASSUME IInv, UNCHANGED accountVars
  PROVE  IInv'
BY DEF IInv, DriveIdsCounted, CredentialBehindToken, accountVars

\* A token sets the credential together with the refresh token.
LEMMA TokenInv ==
  ASSUME IInv, NEW c \in Clients, token(c)
  PROVE  IInv'
<1>1. CASE c \in DOMAIN mClientIdDriveId
  <2>1. mClientIdDriveId[c] \in Range(mClientIdDriveId)
    BY <1>1 DEF Range
  <2>. QED
    BY <1>1, <2>1, CredentialsGrow DEF token
<1>2. CASE c \notin DOMAIN mClientIdDriveId
  BY <1>2, AccountsUnchanged DEF token, accountVars
<1>. QED
  BY <1>1, <1>2

\* An authentication replaces the credential first, whatever becomes of it.
LEMMA AuthenticateInv ==
  ASSUME IInv, NEW d \in DriveIds, authenticateCloud(d)
  PROVE  IInv'
<1>1. CASE attached(d)
  BY <1>1, CredentialsGrow DEF authenticateCloud, attached
<1>2. CASE ~attached(d)
  BY <1>2, AccountsUnchanged DEF authenticateCloud
<1>. QED
  BY <1>1, <1>2

\* No file operation touches the accounts, however it ends.
LEMMA FilesLeaveAccounts ==
  ASSUME NEW d \in DriveIds, FileOperation(d) \/ Copy(d) \/ Move(d)
  PROVE  UNCHANGED accountVars
<1>1. CASE FileOperation(d)
  BY <1>1 DEF FileOperation, refuses, list, getProperties, remove, rename
<1>2. CASE Copy(d)
  BY <1>2 DEF Copy, copyInCloud, copyToCloud, copyFromCloud
<1>3. CASE Move(d)
  BY <1>3 DEF Move, moveInCloud, moveToCloud, moveFromCloud
<1>. QED
  BY <1>1, <1>2, <1>3

\* Every step keeps the invariant.
LEMMA NextInv == IInv /\ [Next]_vars => IInv'
<1>. SUFFICES ASSUME IInv, [Next]_vars PROVE IInv'
  OBVIOUS
<1>1. CASE Account
  BY <1>1, AttachInv, TokenInv, AuthenticateInv DEF Account
<1>2. CASE \E d \in DriveIds : FileOperation(d) \/ Copy(d) \/ Move(d)
  BY <1>2, FilesLeaveAccounts, AccountsUnchanged
<1>3. CASE deleteSource \/ removeSource
  BY <1>3, AccountsUnchanged DEF deleteSource, removeSource
<1>4. CASE Load
  BY <1>4, AccountsUnchanged DEF Load, getChildren, loadThrows, loadReturns
<1>5. CASE \E d \in DriveIds, i \in FileIds : someoneChanges(d, i)
  BY <1>5, AccountsUnchanged DEF someoneChanges
<1>6. CASE UNCHANGED vars
  BY <1>6, AccountsUnchanged DEF vars
<1>. QED
  BY <1>1, <1>2, <1>3, <1>4, <1>5, <1>6 DEF Next

\* For any number of accounts and any order of logins, tokens and refused
\* authentications, each account has a drive of its own, and a drive that
\* passes the check of the refresh token has a credential.
THEOREM CredentialsSound == Spec => []CredentialBehindToken
<1>1. IInv => CredentialBehindToken
  BY DEF IInv
<1>. QED
  BY <1>1, InitInv, NextInv, PTL DEF Spec

-----------------------------------------------------------------------------
(* The cache of file ids.                                                  *)

\* Whatever is done to a drive, only folders hold files, and they lie in the
\* root; a title has words.
Shape(c) ==
  /\ DOMAIN c \subseteq FileIds
  /\ \A i \in DOMAIN c :
       /\ {"parent", "title", "folder"} \subseteq DOMAIN c[i]
       /\ c[i].title \in Titles
       /\ c[i].folder => c[i].parent = Root
       /\ c[i].parent # Root => c[i].parent \in DOMAIN c /\ c[c[i].parent].folder

\* Nothing that was there has changed.
Grown(c, n) == \A i \in DOMAIN c : i \in DOMAIN n /\ n[i] = c[i]

\* The paths of a cache are those of a drive.
CacheOf(m, c) ==
  \A path \in DOMAIN m \ {<<>>} : m[path] \in DOMAIN c /\ pathIn(c, m[path]) = path

\* The files that are still to be visited are there, with the right parent.
PendingIn(es, c) ==
  \A e \in es :
    /\ e.id \in DOMAIN c
    /\ e.parentPath = folderPath(c, e.id)

CacheInv ==
  /\ DOMAIN mFileIds = DriveIds /\ DOMAIN cloud = DriveIds
  /\ pc \in {"idle", "load", "finish"}
  /\ pc # "load" => pending = {}
  /\ pc # "idle" => at \in DriveIds
  /\ \A d \in DriveIds : Shape(cloud[d])
  /\ \A d \in DriveIds \ touched : CacheOf(mFileIds[d], cloud[d])
  /\ pc = "load" /\ at \notin touched => PendingIn(pending, cloud[at])

LEMMA RootIsNoFile == Root \notin FileIds
BY BoundsAssumption DEF Root, FileIds

LEMMA WithoutShape ==
  ASSUME NEW c, Shape(c), NEW i \in FileIds PROVE Shape(without(c, i))
<1> DEFINE n == without(c, i)
<1>1. /\ DOMAIN n = {j \in DOMAIN c : j # i /\ c[j].parent # i}
      /\ \A j \in DOMAIN n : n[j] = c[j]
  BY DEF without, Restrict
<1>2. ASSUME NEW j \in DOMAIN n, n[j].parent # Root
      PROVE  n[j].parent \in DOMAIN n /\ n[n[j].parent].folder
  <2>1. /\ c[j].parent \in DOMAIN c /\ c[j].parent # i
        /\ c[c[j].parent].folder /\ c[c[j].parent].parent = Root
    BY <1>1, <1>2 DEF Shape
  <2> QED BY <1>1, <2>1, RootIsNoFile
<1> QED BY <1>1, <1>2 DEF Shape

LEMMA RetitledShape ==
  ASSUME NEW c, Shape(c), NEW i, NEW t \in Titles PROVE Shape(retitled(c, i, t))
<1> DEFINE n == retitled(c, i, t)
<1>1. /\ DOMAIN n = DOMAIN c
      /\ \A j \in DOMAIN c : /\ DOMAIN n[j] = DOMAIN c[j]
                             /\ \A f \in DOMAIN c[j] \ {"title"} : n[j][f] = c[j][f]
                             /\ {"title"} \subseteq DOMAIN c[j] =>
                                  n[j].title \in {t, c[j].title}
  BY DEF retitled
<1>2. \A j \in DOMAIN c : /\ {"parent", "title", "folder"} \subseteq DOMAIN n[j]
                          /\ n[j].parent = c[j].parent /\ n[j].folder = c[j].folder
                          /\ n[j].title \in Titles
  BY <1>1 DEF Shape
<1> HIDE DEF n
<1>3. Shape(n)
  BY <1>1, <1>2 DEF Shape
<1> QED BY <1>3 DEF n

LEMMA WithShape ==
  ASSUME NEW c, Shape(c), hasRoom(c), NEW p, NEW t \in Titles, NEW x,
         p = Root \/ (p \in DOMAIN c /\ c[p].folder)
  PROVE  LET item == [parent |-> p, title |-> t, folder |-> FALSE, content |-> x]
         IN  Shape(with(c, item)) /\ Grown(c, with(c, item))
<1> DEFINE item == [parent |-> p, title |-> t, folder |-> FALSE, content |-> x]
           new == CHOOSE i \in FileIds : i \notin DOMAIN c
           n == with(c, item)
<1>1. new \in FileIds /\ new \notin DOMAIN c
  BY DEF hasRoom, Shape
<1>2. /\ DOMAIN n = DOMAIN c \cup {new} /\ n[new] = item
      /\ \A i \in DOMAIN c : n[i] = c[i]
  BY <1>1 DEF with
<1>3. /\ {"parent", "title", "folder"} \subseteq DOMAIN item
      /\ item.parent = p /\ item.folder = FALSE /\ item.title = t
  OBVIOUS
<1> HIDE DEF new, item, n
<1>4. Shape(n) /\ Grown(c, n)
  BY <1>1, <1>2, <1>3 DEF Shape, Grown
<1> QED BY <1>4 DEF n, item

\* The path of a file does not change while the drive only grows.
LEMMA GrownPaths ==
  ASSUME NEW c, NEW n, Shape(c), Grown(c, n), NEW i \in DOMAIN c
  PROVE  i \in DOMAIN n /\ pathIn(n, i) = pathIn(c, i)
BY DEF Shape, Grown, pathIn, folderPath

LEMMA GrownCache ==
  ASSUME NEW c, NEW n, Shape(c), Grown(c, n), NEW m, CacheOf(m, c)
  PROVE  CacheOf(m, n)
BY GrownPaths DEF CacheOf

LEMMA GrownPending ==
  ASSUME NEW c, NEW n, Shape(c), Grown(c, n), NEW es, PendingIn(es, c)
  PROVE  PendingIn(es, n)
<1> SUFFICES ASSUME NEW e \in es
             PROVE  /\ e.id \in DOMAIN n
                    /\ e.parentPath = folderPath(n, e.id)
  BY DEF PendingIn
<1>1. e.id \in DOMAIN c /\ e.parentPath = folderPath(c, e.id)
  BY DEF PendingIn
<1>2. e.id \in DOMAIN n /\ n[e.id] = c[e.id]
  BY <1>1 DEF Grown
<1>3. c[e.id].parent # Root => n[c[e.id].parent] = c[c[e.id].parent]
  BY <1>1 DEF Shape, Grown
<1> QED BY <1>1, <1>2, <1>3 DEF folderPath

\* One drive changes, or none.
Becomes(d, c) ==
  /\ DOMAIN cloud' = DriveIds /\ cloud'[d] = c
  /\ \A e \in DriveIds \ {d} : cloud'[e] = cloud[e]

LEMMA OneDrive ==
  ASSUME CacheInv, NEW d \in DriveIds, NEW c, cloud' = [cloud EXCEPT ![d] = c]
  PROVE  Becomes(d, c)
BY DEF CacheInv, Becomes

\* A load begins with a cache that holds the root only.
LEMMA Reloads ==
  ASSUME CacheInv, NEW d \in DriveIds, NEW c, Shape(c),
         Becomes(d, c), loadFileIds(d)
  PROVE  CacheInv'
<1>1. /\ mFileIds' = [mFileIds EXCEPT ![d] = [p \in {<<>>} |-> Root]]
      /\ pc' = "load" /\ at' = d /\ touched' = touched \ {d}
      /\ pending' = {[id |-> i, parentPath |-> <<>>] :
                       i \in {j \in DOMAIN cloud'[d] : cloud'[d][j].parent = Root}}
  BY DEF loadFileIds
<1>2. /\ DOMAIN mFileIds' = DriveIds /\ DOMAIN cloud' = DriveIds
      /\ cloud'[d] = c /\ DOMAIN mFileIds'[d] = {<<>>}
      /\ \A e \in DriveIds \ {d} : cloud'[e] = cloud[e] /\ mFileIds'[e] = mFileIds[e]
  BY <1>1 DEF CacheInv, Becomes
<1>3. \A e \in DriveIds : Shape(cloud'[e])
  BY <1>2 DEF CacheInv
<1>4. ASSUME NEW e \in DriveIds \ touched' PROVE CacheOf(mFileIds'[e], cloud'[e])
  <2>1. CASE e = d
    BY <1>2, <2>1 DEF CacheOf
  <2>2. CASE e # d
    <3>1. CacheOf(mFileIds[e], cloud[e])
      BY <1>1, <1>4, <2>2 DEF CacheInv
    <3> QED BY <1>2, <2>2, <3>1
  <2> QED BY <2>1, <2>2
<1>5. PendingIn(pending', cloud'[at'])
  <2> SUFFICES ASSUME NEW i \in DOMAIN c, c[i].parent = Root,
                      NEW e, e = [id |-> i, parentPath |-> <<>>]
               PROVE  e.id \in DOMAIN c /\ e.parentPath = folderPath(c, e.id)
    BY <1>1, <1>2 DEF PendingIn
  <2>1. e.id = i /\ e.parentPath = <<>>
    OBVIOUS
  <2> QED BY <2>1 DEF folderPath
<1> QED BY <1>1, <1>2, <1>3, <1>4, <1>5 DEF CacheInv

\* The cache stays as it is while the drive grows, or while the change is one
\* that the cache is not answerable for.
LEMMA CacheStays ==
  ASSUME CacheInv, NEW d \in DriveIds, NEW c, Shape(c),
         Becomes(d, c), mFileIds' = mFileIds,
         \/ touched' = touched \cup {d}
         \/ touched' = touched /\ Grown(cloud[d], c),
         \/ UNCHANGED <<pc, at, pending>>
         \/ /\ pc' \in {"idle", "finish"} /\ pending' = {}
            /\ pc' # "idle" => at' \in DriveIds
  PROVE  CacheInv'
<1>1. /\ DOMAIN mFileIds' = DriveIds /\ DOMAIN cloud' = DriveIds
      /\ cloud'[d] = c /\ touched \subseteq touched'
      /\ \A e \in DriveIds \ {d} : cloud'[e] = cloud[e]
  BY DEF CacheInv, Becomes
<1>2. \A e \in DriveIds : Shape(cloud'[e])
  BY <1>1 DEF CacheInv
<1>3. \A e \in DriveIds \ touched' : Grown(cloud[e], cloud'[e])
  BY <1>1 DEF Grown
<1>4. ASSUME NEW e \in DriveIds \ touched' PROVE CacheOf(mFileIds'[e], cloud'[e])
  <2>1. Shape(cloud[e]) /\ CacheOf(mFileIds[e], cloud[e])
    BY <1>1, <1>4 DEF CacheInv
  <2> QED BY <1>3, <2>1, GrownCache
<1>5. ASSUME pc' = "load", at' \notin touched' PROVE PendingIn(pending', cloud'[at'])
  <2>1. UNCHANGED <<pc, at, pending>> /\ at \in DriveIds
    BY <1>5 DEF CacheInv
  <2>2. Shape(cloud[at]) /\ PendingIn(pending, cloud[at]) /\ Grown(cloud[at], cloud'[at])
    BY <1>1, <1>3, <1>5, <2>1 DEF CacheInv
  <2>3. PendingIn(pending, cloud'[at])
    BY <2>2, GrownPending
  <2> QED BY <2>1, <2>3
<1> QED BY <1>1, <1>2, <1>4, <1>5 DEF CacheInv

\* Neither the drives nor the cache: the request at work at most ends.
LEMMA FilesStay ==
  ASSUME CacheInv, UNCHANGED <<mFileIds, cloud, touched>>,
         \/ UNCHANGED <<pc, at, pending>>
         \/ /\ pc' \in {"idle", "finish"} /\ pending' = {}
            /\ pc' # "idle" => at' \in DriveIds
  PROVE  CacheInv'
BY DEF CacheInv

\* The path of what lies in the root is its title.
LEMMA RootPath ==
  ASSUME NEW t \in Titles PROVE <<>> \o t = t
<1>1. t \in Seq(Words)
  BY TitlesAssumption
<1> QED BY <1>1

\* One file of a load.
LEMMA VisitKeeps ==
  ASSUME CacheInv, NEW e \in pending, getChildren(e)
  PROVE  CacheInv'
<1> DEFINE path == e.parentPath \o cloud[at][e.id].title
           kids == {[id |-> i, parentPath |-> path] : i \in children(at, e.id)}
<1>1. /\ pc = "load" /\ e.id \in DOMAIN cloud[at] /\ at \in DriveIds
      /\ UNCHANGED <<cloud, pc, at, touched>>
      /\ mFileIds' = [mFileIds EXCEPT ![at] =
                        [p \in DOMAIN @ \cup {path} |-> IF p = path THEN e.id ELSE @[p]]]
      /\ pending' = (pending \ {e}) \cup kids
  BY DEF getChildren, CacheInv
<1>2. /\ DOMAIN mFileIds' = DriveIds
      /\ \A d \in DriveIds \ {at} : mFileIds'[d] = mFileIds[d]
      /\ DOMAIN mFileIds'[at] = DOMAIN mFileIds[at] \cup {path}
      /\ mFileIds'[at][path] = e.id
      /\ \A p \in DOMAIN mFileIds[at] \ {path} : mFileIds'[at][p] = mFileIds[at][p]
  BY <1>1 DEF CacheInv
<1>3. ASSUME at \notin touched
      PROVE  /\ pathIn(cloud[at], e.id) = path
             /\ \A k \in kids : /\ k.id \in DOMAIN cloud[at]
                                /\ cloud[at][k.id].parent # Root
                                /\ k.parentPath = folderPath(cloud[at], k.id)
  <2> DEFINE c == cloud[at]
  <2>1. e.parentPath = folderPath(c, e.id) /\ Shape(c)
    BY <1>1, <1>3 DEF CacheInv, PendingIn
  <2>2. pathIn(c, e.id) = path
    BY <2>1 DEF pathIn
  <2>3. ASSUME NEW i \in children(at, e.id)
        PROVE  i \in DOMAIN c /\ c[i].parent # Root /\ path = folderPath(c, i)
    <3>1. i \in DOMAIN c /\ c[i].parent = e.id
      BY <2>3 DEF children
    <3>2. e.id # Root
      BY <1>1, <2>1, RootIsNoFile DEF Shape
    <3>3. c[e.id].parent = Root /\ c[e.id].title \in Titles
      BY <1>1, <2>1, <3>1, <3>2 DEF Shape
    <3>4. e.parentPath = <<>>
      BY <2>1, <3>3 DEF folderPath
    <3>5. path = c[e.id].title
      BY <3>3, <3>4, RootPath
    <3> HIDE DEF path
    <3> QED BY <3>1, <3>2, <3>5 DEF folderPath
  <2>4. ASSUME NEW k \in kids
        PROVE  \E i \in children(at, e.id) : k.id = i /\ k.parentPath = path
    <3>1. PICK i \in children(at, e.id) : k = [id |-> i, parentPath |-> path]
      BY <2>4
    <3> HIDE DEF path
    <3> QED BY <3>1
  <2> HIDE DEF kids, path
  <2> QED BY <2>2, <2>3, <2>4
<1> HIDE DEF kids, path
<1>4. ASSUME NEW d \in DriveIds \ touched PROVE CacheOf(mFileIds'[d], cloud[d])
  <2>1. CacheOf(mFileIds[d], cloud[d])
    BY <1>4 DEF CacheInv
  <2>2. CASE d # at
    BY <1>2, <2>1, <2>2
  <2>3. CASE d = at
    BY <1>1, <1>2, <1>3, <1>4, <2>1, <2>3 DEF CacheOf
  <2> QED BY <2>2, <2>3
<1>5. ASSUME at \notin touched PROVE PendingIn(pending', cloud[at])
  <2>1. PendingIn(pending, cloud[at])
    BY <1>1, <1>5 DEF CacheInv
  <2> QED BY <1>1, <1>3, <1>5, <2>1 DEF PendingIn
<1> QED BY <1>1, <1>2, <1>4, <1>5 DEF CacheInv

-----------------------------------------------------------------------------
(* Every step keeps the cache.                                             *)

LEMMA DriveIdsGiven ==
  ASSUME IInv, NEW c \in DOMAIN mClientIdDriveId PROVE mClientIdDriveId[c] \in DriveIds
<1> DEFINE n == Cardinality(DOMAIN mClientIdDriveId)
<1>1. n \in Nat /\ Cardinality(Clients) \in Nat /\ n <= Cardinality(Clients)
  BY FS_Subset, FS_CardinalityType, ClientsAssumption DEF IInv, DriveIdsCounted
<1>2. mClientIdDriveId[c] \in 1..n
  BY DEF IInv, DriveIdsCounted, Range
<1> HIDE DEF n
<1> QED BY <1>1, <1>2 DEF DriveIds

\* A drive that is left as it is.
LEMMA SameDrive ==
  ASSUME CacheInv, NEW d \in DriveIds, cloud' = cloud
  PROVE  Becomes(d, cloud[d]) /\ Shape(cloud[d]) /\ Grown(cloud[d], cloud[d])
BY DEF Grown, CacheInv, Becomes

LEMMA AccountsKeepCache ==
  ASSUME IInv, CacheInv, Account PROVE CacheInv'
<1>1. ASSUME NEW c \in Clients, attachCloud(c) PROVE CacheInv'
  BY <1>1, FilesStay DEF attachCloud, fileVars, flowVars
<1>2. ASSUME NEW c \in Clients, token(c) PROVE CacheInv'
  <2>1. CASE c \in DOMAIN mClientIdDriveId
    <3> DEFINE d == mClientIdDriveId[c]
    <3>1. d \in DriveIds /\ cloud' = cloud /\ loadFileIds(d)
      BY <1>2, <2>1, DriveIdsGiven DEF token
    <3> HIDE DEF d
    <3> QED BY <3>1, SameDrive, Reloads
  <2>2. CASE c \notin DOMAIN mClientIdDriveId
    BY <1>2, <2>2, FilesStay DEF token
  <2> QED BY <2>1, <2>2
<1>3. ASSUME NEW d \in DriveIds, authenticateCloud(d) PROVE CacheInv'
  <2>1. CASE cloud' = cloud /\ loadFileIds(d)
    BY <2>1, SameDrive, Reloads
  <2>2. CASE UNCHANGED <<mFileIds, cloud, pc, at, pending, touched>>
    BY <2>2, FilesStay
  <2> QED BY <1>3, <2>1, <2>2 DEF authenticateCloud
<1> QED BY <1>1, <1>2, <1>3 DEF Account

\* The drive after a Delete or a Patch.
LEMMA ChangeKeeps ==
  ASSUME CacheInv, NEW d \in DriveIds, NEW c, Shape(c), changesCloud(d, c)
  PROVE  CacheInv'
<1>1. CASE loadFileIds(d)
  BY <1>1, OneDrive, Reloads DEF changesCloud
<1>2. CASE touched' = touched \cup {d} /\ UNCHANGED <<mFileIds, pc, at, pending>>
  BY <1>2, OneDrive, CacheStays DEF changesCloud
<1> QED BY <1>1, <1>2 DEF changesCloud

\* The drive after a Copy or an Insert, with one more file.
LEMMA AddingGrows ==
  ASSUME CacheInv, NEW d \in DriveIds, NEW dest, NEW title \in Titles, NEW content,
         adds(d, dest, title, content)
  PROVE  \E c : Shape(c) /\ Grown(cloud[d], c) /\ Becomes(d, c)
<1> DEFINE item == [parent |-> parentFor(d, dest), title |-> title,
                    folder |-> FALSE, content |-> content]
           c == with(cloud[d], item)
<1>1. /\ hasRoom(cloud[d]) /\ Shape(cloud[d])
      /\ \/ parentFor(d, dest) = Root
         \/ /\ parentFor(d, dest) \in DOMAIN cloud[d]
            /\ cloud[d][parentFor(d, dest)].folder
  BY DEF adds, isFolder, CacheInv
<1>2. Shape(c) /\ Grown(cloud[d], c)
  BY <1>1, WithShape
<1>3. Becomes(d, c)
  BY OneDrive DEF adds
<1> QED BY <1>2, <1>3

LEMMA FileOperationsKeepCache ==
  ASSUME CacheInv, NEW d \in DriveIds, FileOperation(d) PROVE CacheInv'
<1>1. CASE refuses(d) \/ \E path \in {<<>>} \cup Asked : getProperties(d, path)
  <2>1. UNCHANGED <<fileVars, flowVars, touched>>
    BY <1>1 DEF refuses, getProperties, says, throws
  <2> QED BY <2>1, FilesStay DEF fileVars, flowVars
<1>2. ASSUME NEW path \in {<<>>} \cup Asked, list(d, path) PROVE CacheInv'
  BY <1>2, SameDrive, Reloads DEF list
<1>3. ASSUME NEW path \in Asked, remove(d, path) PROVE CacheInv'
  <2> DEFINE i == getFileId(d, path)
  <2>1. CASE UNCHANGED <<fileVars, flowVars, touched>>
    BY <2>1, FilesStay DEF fileVars, flowVars
  <2>2. CASE i \in DOMAIN cloud[d] /\ changesCloud(d, without(cloud[d], i))
    <3>1. Shape(cloud[d])
      BY DEF CacheInv
    <3>2. i \in FileIds
      BY <2>2, <3>1 DEF Shape
    <3>3. Shape(without(cloud[d], i))
      BY <3>1, <3>2, WithoutShape
    <3> QED BY <2>2, <3>3, ChangeKeeps
  <2> QED BY <1>3, <2>1, <2>2 DEF remove, says, throws
<1>4. ASSUME NEW path \in Asked, NEW t \in NewTitles, rename(d, path, t) PROVE CacheInv'
  <2> DEFINE i == getFileId(d, path)
  <2>1. CASE UNCHANGED <<fileVars, flowVars, touched>>
    BY <2>1, FilesStay DEF fileVars, flowVars
  <2>2. CASE changesCloud(d, retitled(cloud[d], i, t))
    <3>1. Shape(retitled(cloud[d], i, t))
      BY RetitledShape, TitlesAssumption DEF CacheInv
    <3> QED BY <2>2, <3>1, ChangeKeeps
  <2> QED BY <1>4, <2>1, <2>2 DEF rename, says, throws
<1> QED BY <1>1, <1>2, <1>3, <1>4 DEF FileOperation

\* A copy: one more file, or none for a download, and a load or an exception.
LEMMA CopyKeeps ==
  ASSUME CacheInv, NEW d \in DriveIds, NEW c, Shape(c), Grown(cloud[d], c),
         Becomes(d, c), NEW dest, copied(d, dest)
  PROVE  CacheInv'
<1>1. CASE loadFileIds(d)
  BY <1>1, Reloads
<1>2. CASE UNCHANGED <<mFileIds, pc, at, pending, touched>>
  BY <1>2, CacheStays
<1> QED BY <1>1, <1>2 DEF copied

\* The first half of a move: one more file, or none.
LEMMA HalfKeeps ==
  ASSUME CacheInv, pc = "idle", NEW d \in DriveIds, NEW c, Shape(c),
         Grown(cloud[d], c), Becomes(d, c), NEW source, NEW content, NEW to,
         half(d, source, content, to) \/ UNCHANGED <<mFileIds, flowVars, touched>>
  PROVE  CacheInv'
<1>1. CASE half(d, source, content, to)
  <2>1. /\ UNCHANGED <<mFileIds, pending, touched>> /\ pc' = "finish" /\ at' = d
        /\ pending = {}
    BY <1>1 DEF half, CacheInv
  <2> QED BY <2>1, CacheStays
<1>2. CASE UNCHANGED <<mFileIds, flowVars, touched>>
  BY <1>2, CacheStays DEF flowVars
<1> QED BY <1>1, <1>2

\* A copy has the title of a file.
LEMMA CopiedTitle ==
  ASSUME CacheInv, NEW d \in DriveIds
  PROVE  \A path : copyable(d, path) => itemAt(d, path).title \in Titles
BY DEF CacheInv, Shape, copyable, itemAt

LEMMA CopiesKeepCache ==
  ASSUME CacheInv, NEW d \in DriveIds, Copy(d) PROVE CacheInv'
<1>1. CASE UNCHANGED <<fileVars, flowVars, touched>>
  BY <1>1, FilesStay DEF fileVars, flowVars
<1>2. ASSUME NEW dest, NEW title \in Titles, NEW content,
             adds(d, dest, title, content), copied(d, dest)
      PROVE  CacheInv'
  BY <1>2, AddingGrows, CopyKeeps
<1>4. \A path : copyable(d, path) => itemAt(d, path).title \in Titles
  BY CopiedTitle
<1>5. \A w \in Words : <<w>> \in Titles
  BY TitlesAssumption
<1>3. CASE cloud' = cloud /\ copied(d, <<>>)
  BY <1>3, SameDrive, CopyKeeps
<1> QED BY <1>1, <1>2, <1>3, <1>4, <1>5 DEF Copy, copyInCloud, copyToCloud,
           copyFromCloud, says, throws

LEMMA MovesKeepCache ==
  ASSUME CacheInv, NEW d \in DriveIds, Move(d) PROVE CacheInv'
<1>1. CASE UNCHANGED <<fileVars, flowVars, touched>>
  BY <1>1, FilesStay DEF fileVars, flowVars
<1>2. ASSUME pc = "idle", NEW dest, NEW title \in Titles, NEW x,
             adds(d, dest, title, x), NEW source, NEW content, NEW to,
             half(d, source, content, to) \/ UNCHANGED <<mFileIds, flowVars, touched>>
      PROVE  CacheInv'
  BY <1>2, AddingGrows, HalfKeeps
<1>3. ASSUME pc = "idle", cloud' = cloud, NEW source, NEW content, NEW to,
             half(d, source, content, to)
      PROVE  CacheInv'
  BY <1>3, SameDrive, HalfKeeps
<1>4. \A path : copyable(d, path) => itemAt(d, path).title \in Titles
  BY CopiedTitle
<1>5. \A w \in Words : <<w>> \in Titles
  BY TitlesAssumption
<1> QED BY <1>1, <1>2, <1>3, <1>4, <1>5 DEF Move, moveInCloud, moveToCloud,
           moveFromCloud, says, throws, ready

LEMMA SourcesKeepCache ==
  ASSUME CacheInv, deleteSource \/ removeSource PROVE CacheInv'
<1>1. at \in DriveIds /\ pending = {} /\ Shape(cloud[at])
  BY DEF deleteSource, removeSource, CacheInv
<1>2. CASE removeSource
  BY <1>1, <1>2, SameDrive, Reloads DEF removeSource
<1>3. CASE deleteSource
  <2>1. CASE UNCHANGED <<cloud, mFileIds, at, pending, touched>> /\ pc' = "idle"
    BY <1>1, <2>1, FilesStay
  <2>2. CASE /\ cloud' = [cloud EXCEPT ![at] = without(@, moving.source)]
             /\ \/ loadFileIds(at)
                \/ /\ touched' = touched \cup {at} /\ pc' = "idle"
                   /\ UNCHANGED <<mFileIds, at, pending>>
    <3>1. Shape(without(cloud[at], moving.source))
      BY <1>1, <1>3, WithoutShape DEF deleteSource
    <3>2. Becomes(at, without(cloud[at], moving.source))
      BY <1>1, <2>2, OneDrive
    <3>3. CASE loadFileIds(at)
      BY <1>1, <3>1, <3>2, <3>3, Reloads
    <3>4. CASE /\ touched' = touched \cup {at} /\ pc' = "idle"
               /\ UNCHANGED <<mFileIds, at, pending>>
      BY <1>1, <3>1, <3>2, <3>4, CacheStays
    <3> QED BY <2>2, <3>3, <3>4
  <2> QED BY <1>3, <2>1, <2>2 DEF deleteSource
<1> QED BY <1>2, <1>3

LEMMA CacheKept == IInv /\ CacheInv /\ [Next]_vars => CacheInv'
<1> SUFFICES ASSUME IInv, CacheInv, [Next]_vars PROVE CacheInv'
  OBVIOUS
<1>1. CASE Account
  BY <1>1, AccountsKeepCache
<1>2. ASSUME NEW d \in DriveIds, FileOperation(d) \/ Copy(d) \/ Move(d) PROVE CacheInv'
  BY <1>2, FileOperationsKeepCache, CopiesKeepCache, MovesKeepCache
<1>3. CASE deleteSource \/ removeSource
  BY <1>3, SourcesKeepCache
<1>4. CASE Load
  <2>1. CASE loadThrows \/ loadReturns
    BY <2>1, FilesStay DEF loadThrows, loadReturns, fileVars
  <2> QED BY <1>4, <2>1, VisitKeeps DEF Load
<1>5. ASSUME NEW d \in DriveIds, NEW i \in FileIds, someoneChanges(d, i)
      PROVE  CacheInv'
  <2>1. PICK c : cloud' = [cloud EXCEPT ![d] = c] /\ Shape(c)
    BY <1>5, WithoutShape, RetitledShape, TitlesAssumption DEF someoneChanges, CacheInv
  <2> QED BY <1>5, <2>1, OneDrive, CacheStays DEF someoneChanges, flowVars
<1>6. CASE UNCHANGED vars
  BY <1>6, FilesStay DEF vars, fileVars, flowVars
<1> QED BY <1>1, <1>2, <1>3, <1>4, <1>5, <1>6 DEF Next

LEMMA InitCache == Init => CacheInv
<1> SUFFICES ASSUME Init PROVE CacheInv
  OBVIOUS
<1>1. Shape(CloudBefore)
  BY CloudAssumption DEF Shape
<1>2. \A d \in DriveIds : DOMAIN mFileIds[d] = {}
  BY DEF Init
<1> QED BY <1>1, <1>2 DEF Init, CacheInv, CacheOf

\* On any drives, with any files and calls that throw, a path in the cache
\* leads to the file that bears it, until somebody else changes the drive or
\* the answer to a change is lost.
THEOREM CacheIsTrue == Spec => []CacheTruthful
<1>1. Init => CacheInv
  BY InitCache
<1>2. CacheInv => CacheTruthful
  BY DEF CacheInv, CacheOf, CacheTruthful
<1> QED BY <1>1, <1>2, CacheKept, InitInv, NextInv, PTL DEF Spec

-----------------------------------------------------------------------------
(* What a listing shows.                                                   *)

\* A file of the drive is in the cache, or is waiting to be visited, or will
\* be found when its folder is.
Reached(c, m, es) ==
  \A i \in DOMAIN c : \/ pathIn(c, i) \in DOMAIN m
                      \/ \E e \in es : e.id = i \/ e.id = c[i].parent

LoadInv ==
  /\ listing \in Asked \cup {<<>>, NoId}
  /\ pc = "load" /\ at \notin touched => Reached(cloud[at], mFileIds[at], pending)

\* How the cache comes to be loaded, or stays so.
LEMMA LoadSteps ==
  ASSUME IInv, CacheInv, [Next]_vars, pc' = "load"
  PROVE  \/ \E d \in DriveIds : loadFileIds(d)
         \/ \E e \in pending : getChildren(e)
         \/ /\ pc = "load" /\ UNCHANGED <<mFileIds, at, pending>>
            /\ at \notin touched' => at \notin touched /\ cloud'[at] = cloud[at]
<1>1. CASE Account
  <2>1. \A c \in DOMAIN mClientIdDriveId : mClientIdDriveId[c] \in DriveIds
    BY DriveIdsGiven
  <2> QED BY <1>1, <2>1 DEF Account, attachCloud, token, authenticateCloud, flowVars
<1>2. ASSUME NEW d \in DriveIds, FileOperation(d)
      PROVE  loadFileIds(d)
  BY <1>2 DEF FileOperation, refuses, list, getProperties, remove, rename, says,
              throws, changesCloud, ready, flowVars
<1>3. ASSUME NEW d \in DriveIds, Copy(d)
      PROVE  loadFileIds(d)
  BY <1>3 DEF Copy, copyInCloud, copyToCloud, copyFromCloud, copied, says, throws,
              ready, flowVars
<1>4. ASSUME NEW d \in DriveIds, Move(d)
      PROVE  FALSE
  BY <1>4 DEF Move, moveInCloud, moveToCloud, moveFromCloud, half, says, throws,
              ready, flowVars
<1>5. CASE deleteSource \/ removeSource
  <2>1. at \in DriveIds /\ loadFileIds(at)
    BY <1>5 DEF deleteSource, removeSource, CacheInv
  <2> QED BY <2>1
<1>6. CASE Load
  BY <1>6 DEF Load, loadThrows, loadReturns
<1>7. ASSUME NEW d \in DriveIds, NEW i \in FileIds, someoneChanges(d, i)
      PROVE  /\ pc = "load" /\ UNCHANGED <<mFileIds, at, pending>>
             /\ at \notin touched' => at \notin touched /\ cloud'[at] = cloud[at]
  <2>1. /\ touched' = touched \cup {d} /\ UNCHANGED <<mFileIds, pc, at, pending>>
        /\ \E c : cloud' = [cloud EXCEPT ![d] = c]
    BY <1>7 DEF someoneChanges, flowVars
  <2>2. at \in DriveIds /\ DOMAIN cloud = DriveIds
    BY <2>1 DEF CacheInv
  <2> QED BY <2>1, <2>2
<1>8. CASE UNCHANGED vars
  BY <1>8 DEF vars, fileVars, flowVars
<1> QED BY <1>1, <1>2, <1>3, <1>4, <1>5, <1>6, <1>7, <1>8 DEF Next

\* A load begins with the files in the root, and every other one is in a
\* folder that is there.
LEMMA ReloadReaches ==
  ASSUME CacheInv', NEW d \in DriveIds, loadFileIds(d)
  PROVE  Reached(cloud'[at'], mFileIds'[at'], pending')
<1>1. /\ at' = d /\ Shape(cloud'[d])
      /\ pending' = {[id |-> i, parentPath |-> <<>>] :
                       i \in {j \in DOMAIN cloud'[d] : cloud'[d][j].parent = Root}}
  BY DEF loadFileIds, CacheInv
<1> SUFFICES ASSUME NEW i \in DOMAIN cloud'[d]
             PROVE  \E e \in pending' : e.id = i \/ e.id = cloud'[d][i].parent
  BY <1>1 DEF Reached
<1>2. \A j \in DOMAIN cloud'[d] :
        cloud'[d][j].parent = Root => \E e \in pending' : e.id = j
  <2> SUFFICES ASSUME NEW j \in DOMAIN cloud'[d], cloud'[d][j].parent = Root
               PROVE  \E e \in pending' : e.id = j
    OBVIOUS
  <2>1. [id |-> j, parentPath |-> <<>>] \in pending'
    BY <1>1
  <2> QED BY <2>1
<1>3. CASE cloud'[d][i].parent = Root
  BY <1>2, <1>3
<1>4. CASE cloud'[d][i].parent # Root
  <2> DEFINE f == cloud'[d][i].parent
  <2>1. f \in DOMAIN cloud'[d] /\ cloud'[d][f].parent = Root
    BY <1>1, <1>4 DEF Shape
  <2> QED BY <1>2, <2>1
<1> QED BY <1>3, <1>4

\* A visited file is in the cache, and what lies in it is waiting.
LEMMA VisitReaches ==
  ASSUME CacheInv, at \notin touched, NEW e \in pending, getChildren(e),
         Reached(cloud[at], mFileIds[at], pending)
  PROVE  Reached(cloud[at], mFileIds'[at], pending')
<1> DEFINE c == cloud[at]
           path == e.parentPath \o c[e.id].title
           kids == {[id |-> i, parentPath |-> path] : i \in children(at, e.id)}
<1>1. /\ pc = "load" /\ e.id \in DOMAIN c /\ at \in DriveIds
      /\ mFileIds' = [mFileIds EXCEPT ![at] =
                        [p \in DOMAIN @ \cup {path} |-> IF p = path THEN e.id ELSE @[p]]]
      /\ pending' = (pending \ {e}) \cup kids
  BY DEF getChildren, CacheInv
<1>2. DOMAIN mFileIds'[at] = DOMAIN mFileIds[at] \cup {path}
  BY <1>1 DEF CacheInv
<1>3. pathIn(c, e.id) = path
  <2>1. e.parentPath = folderPath(c, e.id)
    BY <1>1 DEF CacheInv, PendingIn
  <2> QED BY <2>1 DEF pathIn
<1>4. \A i \in DOMAIN c : c[i].parent = e.id => \E k \in kids : k.id = i
  <2> SUFFICES ASSUME NEW i \in DOMAIN c, c[i].parent = e.id
               PROVE  \E k \in kids : k.id = i
    OBVIOUS
  <2>1. i \in children(at, e.id)
    BY DEF children
  <2> HIDE DEF path
  <2>2. [id |-> i, parentPath |-> path] \in kids
    BY <2>1
  <2> QED BY <2>2
<1> HIDE DEF path, kids
<1> SUFFICES ASSUME NEW i \in DOMAIN c
             PROVE  \/ pathIn(c, i) \in DOMAIN mFileIds'[at]
                    \/ \E x \in pending' : x.id = i \/ x.id = c[i].parent
  BY DEF Reached
<1>5. \/ pathIn(c, i) \in DOMAIN mFileIds[at]
      \/ \E x \in pending : x.id = i \/ x.id = c[i].parent
  BY DEF Reached
<1>6. CASE i = e.id
  BY <1>2, <1>3, <1>6
<1>7. CASE c[i].parent = e.id
  BY <1>1, <1>4, <1>7
<1>8. CASE i # e.id /\ c[i].parent # e.id
  BY <1>1, <1>2, <1>5, <1>8
<1> QED BY <1>6, <1>7, <1>8

LEMMA ListingStays ==
  ASSUME listing \in Asked \cup {<<>>, NoId}, [Next]_vars
  PROVE  listing' \in Asked \cup {<<>>, NoId}
<1>1. CASE Account
  BY <1>1 DEF Account, attachCloud, token, authenticateCloud, flowVars
<1>2. ASSUME NEW d \in DriveIds, FileOperation(d)
      PROVE  listing' \in Asked \cup {<<>>, NoId}
  BY <1>2 DEF FileOperation, refuses, list, getProperties, remove, rename, says,
              throws, changesCloud, flowVars
<1>3. ASSUME NEW d \in DriveIds, Copy(d) \/ Move(d)
      PROVE  listing' = listing
  BY <1>3 DEF Copy, copyInCloud, copyToCloud, copyFromCloud, copied, says, throws,
              Move, moveInCloud, moveToCloud, moveFromCloud, half, flowVars
<1>4. CASE deleteSource \/ removeSource
  BY <1>4 DEF deleteSource, removeSource
<1>5. CASE Load
  BY <1>5 DEF Load, loadThrows, loadReturns, getChildren
<1>6. ASSUME NEW d \in DriveIds, NEW i \in FileIds, someoneChanges(d, i)
      PROVE  listing' = listing
  BY <1>6 DEF someoneChanges, flowVars
<1>7. CASE UNCHANGED vars
  BY <1>7 DEF vars, flowVars
<1> QED BY <1>1, <1>2, <1>3, <1>4, <1>5, <1>6, <1>7 DEF Next

LEMMA LoadKept ==
  ASSUME IInv, CacheInv, CacheInv', LoadInv, [Next]_vars
  PROVE  LoadInv'
<1>1. listing' \in Asked \cup {<<>>, NoId}
  BY ListingStays DEF LoadInv
<1>2. ASSUME pc' = "load", at' \notin touched'
      PROVE  Reached(cloud'[at'], mFileIds'[at'], pending')
  <2>1. CASE \E d \in DriveIds : loadFileIds(d)
    BY <2>1, ReloadReaches
  <2>2. CASE \E e \in pending : getChildren(e)
    <3>1. PICK e \in pending : getChildren(e)
      BY <2>2
    <3>2. pc = "load" /\ UNCHANGED <<cloud, at, touched>>
      BY <3>1 DEF getChildren
    <3>3. Reached(cloud[at], mFileIds[at], pending)
      BY <1>2, <3>2 DEF LoadInv
    <3>4. Reached(cloud[at], mFileIds'[at], pending')
      BY <1>2, <3>1, <3>2, <3>3, VisitReaches
    <3> QED BY <3>2, <3>4
  <2>3. CASE /\ pc = "load" /\ UNCHANGED <<mFileIds, at, pending>>
             /\ at \notin touched' => at \notin touched /\ cloud'[at] = cloud[at]
    BY <1>2, <2>3 DEF LoadInv
  <2> QED BY <1>2, <2>1, <2>2, <2>3, LoadSteps
<1> QED BY <1>1, <1>2 DEF LoadInv

\* A path and one more word.
LEMMA OneMore ==
  ASSUME NEW path \in Seq(Words), NEW w \in Words
  PROVE  /\ Len(path) \in Nat
         /\ Len(path \o <<w>>) = Len(path) + 1
         /\ \A n \in 1..Len(path) : (path \o <<w>>)[n] = path[n]
         /\ path = <<>> <=> Len(path) = 0
OBVIOUS

\* getFileMap finds a file of the folder among the paths of the cache: the
\* folder's path is where it begins, and one word follows.
LEMMA FolderFound ==
  ASSUME NEW d, NEW path \in Seq(Words), NEW w \in Words,
         path \o <<w>> \in DOMAIN mFileIds[d]
  PROVE  LET entry == path \o <<w>>
         IN  /\ entry \in DOMAIN getFileMap(d, path)
             /\ getFileMap(d, path)[entry] = mFileIds[d][entry]
<1> DEFINE entry == path \o <<w>>
<1>1. /\ Len(path) \in Nat /\ Len(entry) = Len(path) + 1
      /\ \A n \in 1..Len(path) : entry[n] = path[n]
      /\ path = <<>> <=> Len(path) = 0
  BY OneMore
<1>2. entry \in DOMAIN mFileIds[d]
  OBVIOUS
<1> HIDE DEF entry
<1>3. entry # path
  BY <1>1
<1>4. IF path = <<>> THEN inRoot(entry) ELSE inText(entry, path)
  <2>1. CASE path = <<>>
    BY <1>1, <2>1 DEF inRoot
  <2>2. CASE path # <<>>
    <3>1. matchesAt(entry, path, 1)
      BY <1>1 DEF matchesAt
    <3>2. Len(entry) = (1 + Len(path) - 1) + 1 /\ entry[1 + Len(path) - 1] = path[Len(path)]
      BY <1>1, <2>2
    <3>3. 1 \in 1..Len(entry) /\ \A l \in 1..(1 - 1) : ~matchesAt(entry, path, l)
      BY <1>1
    <3> QED BY <2>2, <3>1, <3>2, <3>3 DEF inText
  <2> QED BY <2>1, <2>2
<1>5. entry \in DOMAIN getFileMap(d, path) /\ getFileMap(d, path)[entry] = mFileIds[d][entry]
  BY <1>2, <1>3, <1>4 DEF getFileMap, Restrict
<1> QED BY <1>5 DEF entry

\* A listing that nobody disturbed has an entry for every file of the folder
\* whose title is plain: the load has visited all of the drive when nothing is
\* left to visit, the search of the cache for the folder's path finds what
\* begins with it, and what the cache has there is a file that bears the path.
THEOREM ListingsShowFolder == Spec => ListShowsFolder
<1>1. Init => LoadInv
  BY DEF Init, LoadInv
<1>2. ASSUME CacheInv, LoadInv, loadReturns, at \notin touched,
             listing # NoId, reply'.kind = "ok",
             NEW i \in DOMAIN cloud[at], NEW path, path = pathIn(cloud[at], i),
             liesIn(cloud[at], i, listing), plain(cloud[at][i].title)
      PROVE  /\ path \in DOMAIN reply'.files
             /\ reply'.files[path] \in
                  {j \in DOMAIN cloud[at] : pathIn(cloud[at], j) = path}
  <2>1. pc = "load" /\ pending = {} /\ listing \in Asked \cup {<<>>} /\ at \in DriveIds
    BY <1>2 DEF loadReturns, LoadInv, CacheInv
  <2>2. path \in DOMAIN mFileIds[at]
    BY <1>2, <2>1 DEF LoadInv, Reached
  <2>3. reply'.files = getFileMap(at, listing)
    BY <1>2 DEF loadReturns, answer, listed
  <2>4. listing \in Seq(Words)
    <3>1. <<>> \in Seq(Words)
      OBVIOUS
    <3> QED BY <2>1, <3>1, AskedAssumption
  <2>5. cloud[at][i].title \in Seq(Words)
    BY <1>2, <2>1, TitlesAssumption DEF CacheInv, Shape
  <2>6. PICK w \in Words : cloud[at][i].title = <<w>>
    BY <1>2, <2>5 DEF plain
  <2>7. path = listing \o <<w>>
    BY <1>2, <2>6 DEF pathIn, liesIn
  <2>8. path \in DOMAIN reply'.files /\ reply'.files[path] = mFileIds[at][path]
    BY <2>2, <2>3, <2>4, <2>7, FolderFound
  <2>9. path # <<>>
    BY <2>4, <2>7
  <2>10. mFileIds[at][path] \in DOMAIN cloud[at]
         /\ pathIn(cloud[at], mFileIds[at][path]) = path
    BY <1>2, <2>1, <2>2, <2>9 DEF CacheInv, CacheOf
  <2> QED BY <2>8, <2>10
<1>3. IInv /\ CacheInv /\ CacheInv' /\ LoadInv /\ [Next]_vars => LoadInv'
  BY LoadKept
<1>4. Spec => [](IInv /\ CacheInv)
  BY CacheKept, InitInv, InitCache, NextInv, PTL DEF Spec
<1>5. CacheInv /\ LoadInv =>
        (loadReturns /\ at \notin touched /\ listing # NoId /\ reply'.kind = "ok" =>
           \A i \in DOMAIN cloud[at] :
             LET path == pathIn(cloud[at], i)
                 bearers == {j \in DOMAIN cloud[at] : pathIn(cloud[at], j) = path}
             IN  liesIn(cloud[at], i, listing) /\ plain(cloud[at][i].title) =>
                   path \in DOMAIN reply'.files /\ reply'.files[path] \in bearers)
  BY <1>2
<1> QED BY <1>1, <1>3, <1>4, <1>5, PTL DEF Spec, ListShowsFolder

-----------------------------------------------------------------------------
(* What a move leaves.                                                     *)

\* The drive has the content in a file that the removal of the source spares.
SafeCopy(c, m) ==
  \E j \in DOMAIN c : /\ c[j].content = m.content
                      /\ m.source \in FileIds => j # m.source /\ c[j].parent # m.source

MoveInv ==
  /\ changes \in Nat
  /\ pc # "finish" => moving = NoMove
  /\ pc = "finish" => moving.drive = at
  /\ pc = "finish" /\ moving.to = "cloud" /\ at \notin touched =>
       SafeCopy(cloud[at], moving)

\* A Copy or an Insert adds one file and touches no other.
LEMMA AddedFile ==
  ASSUME CacheInv, NEW d \in DriveIds, NEW dest, NEW title, NEW content,
         adds(d, dest, title, content)
  PROVE  \E new \in DOMAIN cloud'[d] \ DOMAIN cloud[d] :
           /\ cloud'[d][new].content = content
           /\ cloud'[d][new].parent = parentFor(d, dest)
<1> DEFINE item == [parent |-> parentFor(d, dest), title |-> title,
                    folder |-> FALSE, content |-> content]
           new == CHOOSE i \in FileIds : i \notin DOMAIN cloud[d]
<1>1. cloud'[d] = with(cloud[d], item) /\ hasRoom(cloud[d]) /\ Shape(cloud[d])
  BY DEF adds, CacheInv
<1>2. new \in FileIds /\ new \notin DOMAIN cloud[d]
  BY <1>1 DEF hasRoom, Shape
<1>3. with(cloud[d], item)
        = [i \in DOMAIN cloud[d] \cup {new} |-> IF i = new THEN item ELSE cloud[d][i]]
  BY DEF with
<1>4. item.content = content /\ item.parent = parentFor(d, dest)
  OBVIOUS
<1> HIDE DEF item, new
<1>5. new \in DOMAIN cloud'[d] /\ cloud'[d][new] = item
  BY <1>1, <1>3
<1> QED BY <1>2, <1>4, <1>5

\* The first half of a move has made the copy, and nothing the second half
\* does can reach it.
LEMMA FirstHalves ==
  ASSUME CacheInv, NEW d \in DriveIds, Move(d), pc' = "finish"
  PROVE  /\ moving'.drive = d /\ at' = d
         /\ moving'.to = "cloud" => SafeCopy(cloud'[d], moving')
<1>0. pc = "idle"
  BY DEF Move, moveInCloud, moveToCloud, moveFromCloud, ready
<1>1. ASSUME NEW path \in Asked, NEW dest \in Destinations, moveInCloud(d, path, dest)
      PROVE  /\ moving'.drive = d /\ at' = d
             /\ moving'.to = "cloud" => SafeCopy(cloud'[d], moving')
  <2> DEFINE source == getFileId(d, path)
             item == itemAt(d, path)
  <2>1. /\ copyable(d, path) /\ adds(d, dest, item.title, item.content)
        /\ half(d, source, item.content, "cloud")
    BY <1>0, <1>1 DEF moveInCloud, says, throws, flowVars
  <2>2. /\ moving' = [drive |-> d, source |-> source, content |-> item.content,
                      to |-> "cloud"]
        /\ at' = d
    BY <2>1 DEF half
  <2>3. /\ source \in DOMAIN cloud[d] /\ source # Root
        /\ ~cloud[d][source].folder /\ isFolder(d, parentFor(d, dest))
    BY <2>1, RootIsNoFile DEF copyable, adds, CacheInv, Shape
  <2>4. parentFor(d, dest) # source
    BY <2>3 DEF isFolder
  <2>5. PICK new \in DOMAIN cloud'[d] \ DOMAIN cloud[d] :
          /\ cloud'[d][new].content = item.content
          /\ cloud'[d][new].parent = parentFor(d, dest)
    BY <2>1, AddedFile
  <2> HIDE DEF item, source
  <2>6. /\ moving'.drive = d /\ moving'.content = item.content
        /\ moving'.source = source
    BY <2>2
  <2>7. SafeCopy(cloud'[d], moving')
    BY <2>3, <2>4, <2>5, <2>6 DEF SafeCopy
  <2> QED BY <2>2, <2>6, <2>7
<1>2. ASSUME NEW w \in Words, NEW dest \in Destinations, moveToCloud(d, w, dest)
      PROVE  /\ moving'.drive = d /\ at' = d
             /\ moving'.to = "cloud" => SafeCopy(cloud'[d], moving')
  <2>1. adds(d, dest, <<w>>, local[w]) /\ half(d, w, local[w], "cloud")
    BY <1>0, <1>2 DEF moveToCloud, says, throws, flowVars
  <2>2. /\ moving' = [drive |-> d, source |-> w, content |-> local[w],
                      to |-> "cloud"]
        /\ at' = d
    BY <2>1 DEF half
  <2>3. PICK new \in DOMAIN cloud'[d] : cloud'[d][new].content = local[w]
    BY <2>1, AddedFile
  <2>4. w \notin FileIds
    BY WordsAssumption
  <2>5. SafeCopy(cloud'[d], moving')
    BY <2>2, <2>3, <2>4 DEF SafeCopy
  <2> QED BY <2>2, <2>5
<1>3. ASSUME NEW path \in Asked, moveFromCloud(d, path)
      PROVE  moving'.drive = d /\ at' = d /\ moving'.to = "local"
  <2>1. half(d, getFileId(d, path), itemAt(d, path).content, "local")
    BY <1>0, <1>3 DEF moveFromCloud, says, throws, flowVars
  <2> QED BY <2>1 DEF half
<1> QED BY <1>1, <1>2, <1>3 DEF Move

\* A step that ends between the halves of a move.
LEMMA FinishSteps ==
  ASSUME CacheInv, MoveInv, [Next]_vars, pc' = "finish"
  PROVE  \/ \E d \in DriveIds : Move(d)
         \/ /\ pc = "finish" /\ UNCHANGED <<moving, at>>
            /\ \/ UNCHANGED <<cloud, touched>>
               \/ /\ changes' # changes /\ touched \subseteq touched'
                  /\ at \notin touched' => cloud'[at] = cloud[at]
<1>1. CASE Account
  BY <1>1 DEF Account, attachCloud, token, authenticateCloud, flowVars, loadFileIds
<1>2. ASSUME NEW d \in DriveIds, FileOperation(d)
      PROVE  FALSE
  BY <1>2 DEF FileOperation, refuses, list, getProperties, remove, rename, says,
              throws, changesCloud, ready, flowVars, loadFileIds
<1>3. ASSUME NEW d \in DriveIds, Copy(d)
      PROVE  FALSE
  BY <1>3 DEF Copy, copyInCloud, copyToCloud, copyFromCloud, copied, says, throws,
              ready, flowVars, loadFileIds
<1>4. CASE deleteSource \/ removeSource
  BY <1>4 DEF deleteSource, removeSource, loadFileIds
<1>5. CASE Load
  BY <1>5 DEF Load, loadThrows, loadReturns, getChildren
<1>6. ASSUME NEW d \in DriveIds, NEW i \in FileIds, someoneChanges(d, i)
      PROVE  /\ pc = "finish" /\ UNCHANGED <<moving, at>>
             /\ changes' # changes /\ touched \subseteq touched'
             /\ at \notin touched' => cloud'[at] = cloud[at]
  <2>1. /\ touched' = touched \cup {d} /\ changes' = changes + 1
        /\ UNCHANGED <<moving, at, pc>>
        /\ \E c : cloud' = [cloud EXCEPT ![d] = c]
    BY <1>6 DEF someoneChanges, flowVars
  <2>2. changes' # changes
    BY <2>1 DEF MoveInv
  <2> QED BY <2>1, <2>2 DEF CacheInv
<1>7. CASE UNCHANGED vars
  BY <1>7 DEF vars, fileVars, flowVars
<1> QED BY <1>1, <1>2, <1>3, <1>4, <1>5, <1>6, <1>7 DEF Next

\* No move is under way but between its halves.
LEMMA NoMoveElsewhere ==
  ASSUME MoveInv, [Next]_vars
  PROVE  changes' \in Nat /\ (pc' # "finish" => moving' = NoMove)
<1>1. CASE Account
  BY <1>1 DEF Account, attachCloud, token, authenticateCloud, flowVars, MoveInv
<1>2. ASSUME NEW d \in DriveIds, FileOperation(d)
      PROVE  changes' = changes /\ pc # "finish" /\ moving' = moving
  BY <1>2 DEF FileOperation, refuses, list, getProperties, remove, rename, says,
              throws, changesCloud, ready, flowVars
<1>3. ASSUME NEW d \in DriveIds, Copy(d)
      PROVE  changes' = changes /\ pc # "finish" /\ moving' = moving
  BY <1>3 DEF Copy, copyInCloud, copyToCloud, copyFromCloud, copied, says, throws,
              ready, flowVars
<1>4. ASSUME NEW d \in DriveIds, Move(d)
      PROVE  changes' = changes /\ pc # "finish" /\ (pc' = "finish" \/ moving' = moving)
  BY <1>4 DEF Move, moveInCloud, moveToCloud, moveFromCloud, half, says, throws,
              ready, flowVars
<1>5. CASE deleteSource \/ removeSource
  BY <1>5 DEF deleteSource, removeSource, MoveInv
<1>6. CASE Load
  BY <1>6 DEF Load, loadThrows, loadReturns, getChildren, MoveInv
<1>7. ASSUME NEW d \in DriveIds, NEW i \in FileIds, someoneChanges(d, i)
      PROVE  changes' = changes + 1 /\ pc' = pc /\ moving' = moving
  BY <1>7 DEF someoneChanges, flowVars
<1>8. CASE UNCHANGED vars
  BY <1>8 DEF vars, flowVars, MoveInv
<1> QED BY <1>1, <1>2, <1>3, <1>4, <1>5, <1>6, <1>7, <1>8 DEF Next, MoveInv

LEMMA MoveKept ==
  ASSUME CacheInv, MoveInv, [Next]_vars
  PROVE  MoveInv'
<1>1. ASSUME pc' = "finish"
      PROVE  /\ moving'.drive = at'
             /\ moving'.to = "cloud" /\ at' \notin touched' => SafeCopy(cloud'[at'], moving')
  <2>1. ASSUME NEW d \in DriveIds, Move(d)
        PROVE  /\ moving'.drive = at'
               /\ moving'.to = "cloud" => SafeCopy(cloud'[at'], moving')
    BY <1>1, <2>1, FirstHalves
  <2>2. CASE /\ pc = "finish" /\ UNCHANGED <<moving, at>>
             /\ \/ UNCHANGED <<cloud, touched>>
                \/ /\ changes' # changes /\ touched \subseteq touched'
                   /\ at \notin touched' => cloud'[at] = cloud[at]
    BY <2>2 DEF MoveInv
  <2> QED BY <1>1, <2>1, <2>2, FinishSteps
<1> QED BY <1>1, NoMoveElsewhere DEF MoveInv

\* What a file of a drive holds is among the contents.
LEMMA ContentThere ==
  ASSUME NEW d \in DriveIds, NEW j \in DOMAIN cloud'[d]
  PROVE  cloud'[d][j].content \in contents'
<1>1. cloud'[d][j].content \in {cloud'[d][i].content : i \in DOMAIN cloud'[d]}
  OBVIOUS
<1> QED BY <1>1 DEF contents

\* The removal of the source spares the copy.
LEMMA RemovalSpares ==
  ASSUME CacheInv, MoveInv, pc = "finish", moving.to = "cloud", at \notin touched,
         [Next]_vars, changes' = changes
  PROVE  moving.content \in contents'
<1>1. SafeCopy(cloud[at], moving) /\ at \in DriveIds /\ DOMAIN cloud = DriveIds
  BY DEF MoveInv, CacheInv
<1>2. CASE cloud' = cloud
  <2>1. PICK j \in DOMAIN cloud'[at] : cloud'[at][j].content = moving.content
    BY <1>1, <1>2 DEF SafeCopy
  <2> QED BY <1>1, <2>1, ContentThere
<1>3. CASE /\ moving.source \in FileIds
           /\ cloud' = [cloud EXCEPT ![at] = without(@, moving.source)]
  <2>1. cloud'[at] = without(cloud[at], moving.source)
    BY <1>1, <1>3
  <2>2. PICK j \in DOMAIN cloud[at] : /\ cloud[at][j].content = moving.content
                                      /\ j # moving.source
                                      /\ cloud[at][j].parent # moving.source
    BY <1>1, <1>3 DEF SafeCopy
  <2>3. j \in DOMAIN cloud'[at] /\ cloud'[at][j] = cloud[at][j]
    BY <2>1, <2>2 DEF without, Restrict
  <2> QED BY <1>1, <2>2, <2>3, ContentThere
<1>4. CASE deleteSource \/ removeSource \/ UNCHANGED vars
  BY <1>2, <1>3, <1>4 DEF deleteSource, removeSource, vars, fileVars
<1>5. CASE \E d \in DriveIds, i \in FileIds : someoneChanges(d, i)
  <2>1. changes' = changes + 1
    BY <1>5 DEF someoneChanges
  <2> QED BY <2>1 DEF MoveInv
<1>6. ~Account /\ ~Load
  BY DEF Account, attachCloud, token, authenticateCloud, Load, loadThrows,
         loadReturns, getChildren
<1>7. \A d \in DriveIds : ~FileOperation(d) /\ ~Copy(d) /\ ~Move(d)
  BY DEF FileOperation, refuses, list, getProperties, remove, rename, ready,
         Copy, copyInCloud, copyToCloud, copyFromCloud,
         Move, moveInCloud, moveToCloud, moveFromCloud
<1> QED BY <1>4, <1>5, <1>6, <1>7 DEF Next

\* Whichever of its calls fails or goes unanswered, a move into the cloud
\* leaves the content at its source or at its destination after every step:
\* the copy is made first, under an id and in a folder that the removal of
\* the source does not touch.
THEOREM MovesAreSafe == Spec => MovesKeepContent
<1>1. Init => MoveInv
  BY DEF Init, MoveInv
<1>2. CacheInv /\ CacheInv' /\ MoveInv /\ MoveInv' /\ [Next]_vars =>
        \A m \in {moving, moving'} \ {NoMove} :
          m.to = "cloud" /\ m.drive \notin touched /\ changes' = changes =>
            m.content \in contents'
  <2> SUFFICES ASSUME CacheInv, CacheInv', MoveInv, MoveInv', [Next]_vars,
                      NEW m \in {moving, moving'}, m # NoMove,
                      m.to = "cloud", m.drive \notin touched, changes' = changes
               PROVE  m.content \in contents'
    OBVIOUS
  <2>1. CASE m = moving
    BY <2>1, RemovalSpares DEF MoveInv
  <2>2. CASE m = moving' /\ moving' # moving
    <3>1. pc' = "finish"
      BY <2>2 DEF MoveInv
    <3>2. PICK d \in DriveIds : Move(d)
      BY <2>2, <3>1, FinishSteps
    <3>3. PICK j \in DOMAIN cloud'[d] : cloud'[d][j].content = m.content
      BY <2>2, <3>1, <3>2, FirstHalves DEF SafeCopy
    <3> QED BY <3>3, ContentThere
  <2> QED BY <2>1, <2>2
<1>3. CacheInv /\ MoveInv /\ [Next]_vars => MoveInv'
  BY MoveKept
<1>4. Spec => []CacheInv
  BY CacheKept, InitInv, InitCache, NextInv, PTL DEF Spec
<1> QED BY <1>1, <1>2, <1>3, <1>4, PTL DEF Spec, MovesKeepContent

-----------------------------------------------------------------------------
(* The types of the maps and the phases of a request.                      *)

\* The files of a drive have names and contents that files can have.
Items(c) ==
  \A i \in DOMAIN c : /\ {"title", "content"} \subseteq DOMAIN c[i]
                      /\ c[i].title \in Titles /\ c[i].content \in Contents

\* What a load has listed lies in the root or in a folder of the root, as
\* long as it is there.
Visits(es, c) ==
  \A e \in es : /\ e.parentPath \in Titles \cup {<<>>}
                /\ e.id \in DOMAIN c => (c[e.id].parent = Root <=> e.parentPath = <<>>)

CachePaths(d) ==
  /\ DOMAIN mFileIds[d] \subseteq Paths \cup {<<>>}
  /\ Range(mFileIds[d]) \subseteq FileIds \cup {Root}
  /\ d \notin mCred => mFileIds[d] = <<>>

TypeInv ==
  /\ \A d \in DriveIds : Items(cloud[d])
  /\ \A t \in DOMAIN local : local[t] \in Contents
  /\ touched \subseteq DriveIds
  /\ \A d \in DriveIds : CachePaths(d)
  /\ pc # "idle" => at \in mCred
  /\ pc = "load" => Visits(pending, cloud[at])
  /\ pc # "load" => listing = NoId
  /\ pc = "finish" => moving # NoMove

LEMMA WithoutItems ==
  ASSUME NEW c, Items(c), NEW i PROVE Items(without(c, i))
BY DEF Items, without, Restrict

LEMMA RetitledItems ==
  ASSUME NEW c, Items(c), NEW i, NEW t \in Titles PROVE Items(retitled(c, i, t))
<1> DEFINE n == retitled(c, i, t)
<1>1. /\ DOMAIN n = DOMAIN c
      /\ \A j \in DOMAIN c : j # i => n[j] = c[j]
      /\ i \in DOMAIN c => n[i] = [c[i] EXCEPT !.title = t]
  BY DEF retitled
<1>2. ASSUME i \in DOMAIN c
      PROVE  /\ {"title", "content"} \subseteq DOMAIN n[i]
             /\ n[i].title = t /\ n[i].content = c[i].content
  BY <1>1, <1>2 DEF Items
<1> HIDE DEF n
<1>3. Items(n)
  BY <1>1, <1>2 DEF Items
<1> QED BY <1>3 DEF n

LEMMA WithItems ==
  ASSUME NEW c, Items(c), NEW p, NEW t \in Titles, NEW x \in Contents
  PROVE  Items(with(c, [parent |-> p, title |-> t, folder |-> FALSE, content |-> x]))
<1> DEFINE item == [parent |-> p, title |-> t, folder |-> FALSE, content |-> x]
           new == CHOOSE i \in FileIds : i \notin DOMAIN c
           n == with(c, item)
<1>1. n = [i \in DOMAIN c \cup {new} |-> IF i = new THEN item ELSE c[i]]
  BY DEF with
<1>2. /\ {"title", "content"} \subseteq DOMAIN item
      /\ item.title = t /\ item.content = x
  OBVIOUS
<1> HIDE DEF new, item, n
<1>3. Items(n)
  BY <1>1, <1>2 DEF Items
<1> QED BY <1>3 DEF n, item

\* One drive changes to another drive of such files, or none.
LEMMA ItemsIn ==
  ASSUME CacheInv, TypeInv, NEW d \in DriveIds, NEW c, Items(c),
         cloud' = [cloud EXCEPT ![d] = c]
  PROVE  \A e \in DriveIds : Items(cloud'[e])
BY DEF CacheInv, TypeInv

LEMMA AddedItems ==
  ASSUME CacheInv, TypeInv, NEW d \in DriveIds, NEW dest, NEW title \in Titles,
         NEW content \in Contents, adds(d, dest, title, content)
  PROVE  \A e \in DriveIds : Items(cloud'[e])
BY ItemsIn, WithItems DEF adds, TypeInv

LEMMA ItemsKept ==
  ASSUME CacheInv, TypeInv, [Next]_vars
  PROVE  \A d \in DriveIds : Items(cloud'[d])
<1> DEFINE Kept == \A d \in DriveIds : Items(cloud'[d])
<1>1. CASE cloud' = cloud
  BY <1>1 DEF TypeInv
<1>2. CASE Account
  BY <1>1, <1>2 DEF Account, attachCloud, token, authenticateCloud, fileVars
<1>3. ASSUME NEW d \in DriveIds, FileOperation(d)
      PROVE  Kept
  <2>1. Items(cloud[d])
    BY DEF TypeInv
  <2>2. ASSUME NEW c, Items(c), changesCloud(d, c) PROVE Kept
    BY <2>2, ItemsIn DEF changesCloud
  <2>3. CASE refuses(d) \/ \E path \in {<<>>} \cup Asked :
                             list(d, path) \/ getProperties(d, path)
    BY <1>1, <2>3 DEF refuses, list, getProperties, says, throws, fileVars
  <2>4. CASE \E path \in Asked : remove(d, path)
    BY <1>1, <2>1, <2>2, <2>4, WithoutItems DEF remove, says, throws, fileVars
  <2>5. CASE \E path \in Asked, t \in NewTitles : rename(d, path, t)
    BY <1>1, <2>1, <2>2, <2>5, RetitledItems, TitlesAssumption DEF rename, says, throws, fileVars
  <2> QED BY <1>3, <2>3, <2>4, <2>5 DEF FileOperation
<1>4. ASSUME NEW d \in DriveIds, Copy(d) \/ Move(d)
      PROVE  Kept
  <2>1. ASSUME NEW path, NEW dest, copyable(d, path),
               adds(d, dest, itemAt(d, path).title, itemAt(d, path).content)
        PROVE  Kept
    <3>1. itemAt(d, path).title \in Titles /\ itemAt(d, path).content \in Contents
      BY <2>1 DEF copyable, itemAt, TypeInv, Items
    <3> QED BY <2>1, <3>1, AddedItems
  <2>2. ASSUME NEW w \in Words, w \in DOMAIN local, NEW dest,
               adds(d, dest, <<w>>, local[w])
        PROVE  Kept
    <3>1. <<w>> \in Titles /\ local[w] \in Contents
      BY <2>2, TitlesAssumption DEF TypeInv
    <3> QED BY <2>2, <3>1, AddedItems
  <2>3. CASE Copy(d)
    BY <1>1, <2>1, <2>2, <2>3 DEF Copy, copyInCloud, copyToCloud, copyFromCloud,
                                  says, throws, fileVars
  <2>4. CASE Move(d)
    BY <1>1, <2>1, <2>2, <2>4 DEF Move, moveInCloud, moveToCloud, moveFromCloud,
                                  says, throws, fileVars
  <2> QED BY <1>4, <2>3, <2>4
<1>5. CASE deleteSource
  <2>1. at \in DriveIds /\ Items(cloud[at])
    BY <1>5 DEF deleteSource, CacheInv, TypeInv
  <2> QED BY <1>1, <1>5, <2>1, ItemsIn, WithoutItems DEF deleteSource
<1>6. CASE removeSource \/ Load
  BY <1>1, <1>6 DEF removeSource, Load, loadThrows, loadReturns, getChildren, fileVars
<1>7. ASSUME NEW d \in DriveIds, NEW i \in FileIds, someoneChanges(d, i)
      PROVE  Kept
  <2>1. Items(cloud[d])
    BY DEF TypeInv
  <2> QED BY <1>7, <2>1, ItemsIn, WithoutItems, RetitledItems, TitlesAssumption
         DEF someoneChanges
<1>8. CASE UNCHANGED vars
  BY <1>1, <1>8 DEF vars, fileVars
<1> QED BY <1>2, <1>3, <1>4, <1>5, <1>6, <1>7, <1>8 DEF Next

LEMMA LocalKept ==
  ASSUME TypeInv, [Next]_vars
  PROVE  \A t \in DOMAIN local' : local'[t] \in Contents
<1> DEFINE Kept == \A t \in DOMAIN local' : local'[t] \in Contents
<1>1. CASE local' = local
  BY <1>1 DEF TypeInv
<1>2. CASE Account \/ Load \/ deleteSource
  BY <1>1, <1>2 DEF Account, attachCloud, token, authenticateCloud, fileVars,
                    Load, loadThrows, loadReturns, getChildren, deleteSource
<1>3. ASSUME NEW d \in DriveIds, FileOperation(d)
      PROVE  Kept
  BY <1>1, <1>3 DEF FileOperation, refuses, list, getProperties, remove, rename,
                    says, throws, changesCloud, fileVars
<1>4. ASSUME NEW d \in DriveIds, Copy(d) \/ Move(d)
      PROVE  Kept
  <2>1. ASSUME NEW path, copyable(d, path), downloads(path, itemAt(d, path).content)
        PROVE  Kept
    <3>1. itemAt(d, path).content \in Contents /\ "short" \in Contents
      BY <2>1 DEF copyable, itemAt, TypeInv, Items, Contents
    <3> QED BY <2>1, <3>1 DEF downloads, TypeInv
  <2>2. CASE Copy(d)
    BY <1>1, <2>1, <2>2 DEF Copy, copyInCloud, copyToCloud, copyFromCloud,
                            says, throws, fileVars
  <2>3. CASE Move(d)
    BY <1>1, <2>1, <2>3 DEF Move, moveInCloud, moveToCloud, moveFromCloud,
                            says, throws, fileVars
  <2> QED BY <1>4, <2>2, <2>3
<1>5. CASE removeSource
  BY <1>1, <1>5 DEF removeSource, Restrict, TypeInv
<1>6. CASE UNCHANGED vars \/ \E d \in DriveIds, i \in FileIds : someoneChanges(d, i)
  BY <1>1, <1>6 DEF vars, fileVars, someoneChanges
<1> QED BY <1>2, <1>3, <1>4, <1>5, <1>6 DEF Next

\* Only what has a credential is loaded, and a request that goes on is one of
\* a drive with a credential.
LEMMA CacheSteps ==
  ASSUME IInv, CacheInv, TypeInv, [Next]_vars
  PROVE  /\ mCred \subseteq mCred'
         /\ pc' # "idle" => at' \in mCred'
         /\ \/ /\ UNCHANGED mFileIds
               /\ touched' \subseteq touched \cup DriveIds
            \/ \E d \in DriveIds : d \in mCred' /\ loadFileIds(d)
            \/ \E e \in pending : getChildren(e)
<1> DEFINE AtWithCredential == pc' # "idle" => at' \in mCred'
           Loaded == \/ /\ UNCHANGED mFileIds /\ touched' \subseteq touched \cup DriveIds
                        /\ AtWithCredential
                     \/ \E d \in DriveIds : d \in mCred' /\ loadFileIds(d)
<1>1. ASSUME Account
      PROVE  mCred \subseteq mCred' /\ Loaded
  <2>1. ASSUME NEW c \in Clients, attachCloud(c)
        PROVE  mCred \subseteq mCred' /\ Loaded
    BY <2>1 DEF attachCloud, fileVars, flowVars
  <2>2. ASSUME NEW c \in Clients, token(c)
        PROVE  mCred \subseteq mCred' /\ Loaded
    <3>1. CASE c \in DOMAIN mClientIdDriveId
      <4>1. mClientIdDriveId[c] \in DriveIds
        BY <3>1, DriveIdsGiven
      <4> QED BY <2>2, <3>1, <4>1 DEF token
    <3>2. CASE c \notin DOMAIN mClientIdDriveId
      BY <2>2, <3>2 DEF token
    <3> QED BY <3>1, <3>2
  <2>3. ASSUME NEW d \in DriveIds, authenticateCloud(d)
        PROVE  mCred \subseteq mCred' /\ Loaded
    BY <2>3 DEF authenticateCloud, accountVars
  <2> QED BY <1>1, <2>1, <2>2, <2>3 DEF Account
<1>2. \A d \in DriveIds : authenticated(d) => d \in mCred
  BY DEF authenticated, IInv, CredentialBehindToken
<1>3. ASSUME NEW d \in DriveIds, FileOperation(d)
      PROVE  mCred' = mCred /\ Loaded
  BY <1>2, <1>3 DEF FileOperation, refuses, list, getProperties, remove, rename, says,
              throws, changesCloud, ready, fileVars, flowVars, accountVars
<1>4. ASSUME NEW d \in DriveIds, Copy(d)
      PROVE  mCred' = mCred /\ Loaded
  BY <1>2, <1>4 DEF Copy, copyInCloud, copyToCloud, copyFromCloud, copied, says, throws,
              ready, fileVars, flowVars, accountVars
<1>5. ASSUME NEW d \in DriveIds, Move(d)
      PROVE  mCred' = mCred /\ Loaded
  BY <1>2, <1>5 DEF Move, moveInCloud, moveToCloud, moveFromCloud, half, says, throws,
              ready, fileVars, flowVars, accountVars
<1>6. ASSUME deleteSource \/ removeSource
      PROVE  mCred' = mCred /\ Loaded
  <2>1. at \in DriveIds /\ at \in mCred /\ mCred' = mCred
    BY <1>6 DEF deleteSource, removeSource, CacheInv, TypeInv, accountVars
  <2> QED BY <1>6, <2>1 DEF deleteSource, removeSource
<1>7. CASE Load
  <2>1. mCred' = mCred /\ at \in mCred
    BY <1>7 DEF Load, loadThrows, loadReturns, getChildren, accountVars, TypeInv
  <2> QED BY <1>7, <2>1 DEF Load, loadThrows, loadReturns, getChildren, fileVars
<1>8. ASSUME NEW d \in DriveIds, NEW i \in FileIds, someoneChanges(d, i)
      PROVE  mCred' = mCred /\ Loaded
  BY <1>8 DEF someoneChanges, accountVars, flowVars, TypeInv
<1>9. CASE UNCHANGED vars
  BY <1>9 DEF vars, fileVars, flowVars, accountVars, TypeInv
<1>10. ASSUME NEW d \in DriveIds, d \in mCred', loadFileIds(d)
       PROVE  AtWithCredential
  BY <1>10 DEF loadFileIds
<1> QED BY <1>1, <1>3, <1>4, <1>5, <1>6, <1>7, <1>8, <1>9, <1>10 DEF Next

LEMMA PathsKept ==
  ASSUME IInv, CacheInv, TypeInv, [Next]_vars
  PROVE  touched' \subseteq DriveIds /\ \A d \in DriveIds : CachePaths(d)'
<1>1. touched \subseteq DriveIds /\ \A d \in DriveIds : CachePaths(d)
  BY DEF TypeInv
<1>2. mCred \subseteq mCred'
  BY CacheSteps
<1>3. CASE UNCHANGED mFileIds /\ touched' \subseteq touched \cup DriveIds
  BY <1>1, <1>2, <1>3 DEF CachePaths
<1>4. ASSUME NEW a \in DriveIds, a \in mCred', loadFileIds(a)
      PROVE  touched' \subseteq DriveIds /\ \A d \in DriveIds : CachePaths(d)'
  <2> DEFINE m == [p \in {<<>>} |-> Root]
  <2>1. mFileIds' = [mFileIds EXCEPT ![a] = m] /\ touched' = touched \ {a}
    BY <1>4 DEF loadFileIds
  <2>2. DOMAIN m \subseteq Paths \cup {<<>>} /\ Range(m) \subseteq FileIds \cup {Root}
    BY DEF Range
  <2> HIDE DEF m
  <2>3. mFileIds'[a] = m /\ \A d \in DriveIds \ {a} : mFileIds'[d] = mFileIds[d]
    BY <2>1 DEF CacheInv
  <2> QED BY <1>1, <1>2, <1>4, <2>1, <2>2, <2>3 DEF CachePaths
<1>5. ASSUME NEW e \in pending, getChildren(e)
      PROVE  touched' \subseteq DriveIds /\ \A d \in DriveIds : CachePaths(d)'
  <2> DEFINE path == e.parentPath \o cloud[at][e.id].title
             m == [p \in DOMAIN mFileIds[at] \cup {path} |->
                     IF p = path THEN e.id ELSE mFileIds[at][p]]
  <2>1. /\ mFileIds' = [mFileIds EXCEPT ![at] = m] /\ touched' = touched
        /\ at \in DriveIds /\ at \in mCred /\ e.id \in DOMAIN cloud[at]
        /\ e.parentPath \in Titles \cup {<<>>}
    BY <1>5 DEF getChildren, CacheInv, TypeInv, Visits
  <2>2. e.id \in FileIds /\ cloud[at][e.id].title \in Titles
    BY <2>1 DEF CacheInv, Shape, TypeInv, Items
  <2>3. path \in Paths
    <3>1. CASE e.parentPath = <<>>
      BY <2>2, <3>1, RootPath DEF Paths
    <3>2. CASE e.parentPath \in Titles
      <4> DEFINE t == e.parentPath
                 u == cloud[at][e.id].title
      <4>1. t \in Titles /\ u \in Titles
        BY <2>2, <3>2
      <4> HIDE DEF t, u
      <4>2. t \o u \in Paths
        BY <4>1 DEF Paths
      <4> QED BY <4>2 DEF t, u
    <3> QED BY <2>1, <3>1, <3>2
  <2> HIDE DEF path
  <2>4. /\ DOMAIN m \subseteq Paths \cup {<<>>}
        /\ Range(m) \subseteq FileIds \cup {Root}
    BY <1>1, <2>1, <2>2, <2>3 DEF CachePaths, Range
  <2> HIDE DEF m
  <2>5. mFileIds'[at] = m /\ \A d \in DriveIds \ {at} : mFileIds'[d] = mFileIds[d]
    BY <2>1 DEF CacheInv
  <2> QED BY <1>1, <1>2, <2>1, <2>4, <2>5 DEF CachePaths
<1> QED BY <1>3, <1>4, <1>5, CacheSteps

\* While a load lasts others delete and rename, and no file changes its folder.
LEMMA LoadLasts ==
  ASSUME CacheInv, [Next]_vars, pc = "load", pc' = "load",
         ~ \E e \in pending : getChildren(e)
  PROVE  /\ UNCHANGED <<at, pending>>
         /\ \A i \in DOMAIN cloud'[at] : /\ i \in DOMAIN cloud[at]
                                         /\ cloud'[at][i].parent = cloud[at][i].parent
<1>1. ~Account /\ ~deleteSource /\ ~removeSource
  BY DEF Account, attachCloud, token, authenticateCloud, deleteSource, removeSource
<1>2. \A d \in DriveIds : ~FileOperation(d) /\ ~Copy(d) /\ ~Move(d)
  BY DEF FileOperation, refuses, list, getProperties, remove, rename, ready,
         Copy, copyInCloud, copyToCloud, copyFromCloud,
         Move, moveInCloud, moveToCloud, moveFromCloud
<1>3. ~Load
  BY DEF Load, loadThrows, loadReturns
<1>4. CASE UNCHANGED vars
  BY <1>4 DEF vars, fileVars, flowVars
<1>5. ASSUME NEW d \in DriveIds, NEW i \in FileIds, someoneChanges(d, i)
      PROVE  /\ UNCHANGED <<at, pending>>
             /\ \A j \in DOMAIN cloud'[at] : /\ j \in DOMAIN cloud[at]
                                             /\ cloud'[at][j].parent = cloud[at][j].parent
  <2>1. UNCHANGED <<at, pending>> /\ at \in DriveIds /\ DOMAIN cloud = DriveIds
    BY <1>5 DEF someoneChanges, flowVars, CacheInv
  <2>2. Shape(cloud[d])
    BY DEF CacheInv
  <2>3. \A j \in DOMAIN without(cloud[d], i) :
          j \in DOMAIN cloud[d] /\ without(cloud[d], i)[j] = cloud[d][j]
    BY DEF without, Restrict
  <2>4. ASSUME NEW t
        PROVE  \A j \in DOMAIN retitled(cloud[d], i, t) :
                 /\ j \in DOMAIN cloud[d]
                 /\ retitled(cloud[d], i, t)[j].parent = cloud[d][j].parent
    BY <2>2 DEF retitled, Shape
  <2>5. PICK c : /\ cloud' = [cloud EXCEPT ![d] = c]
                 /\ \A j \in DOMAIN c : j \in DOMAIN cloud[d]
                                        /\ c[j].parent = cloud[d][j].parent
    BY <1>5, <2>3, <2>4 DEF someoneChanges
  <2> QED BY <2>1, <2>5
<1> QED BY <1>1, <1>2, <1>3, <1>4, <1>5 DEF Next

LEMMA VisitsKept ==
  ASSUME IInv, CacheInv, CacheInv', TypeInv, [Next]_vars, pc' = "load"
  PROVE  Visits(pending', cloud'[at'])
<1>1. ASSUME NEW d \in DriveIds, loadFileIds(d)
      PROVE  Visits(pending', cloud'[at'])
  <2>1. at' = d /\ pending' = {[id |-> i, parentPath |-> <<>>] :
                       i \in {j \in DOMAIN cloud'[d] : cloud'[d][j].parent = Root}}
    BY <1>1 DEF loadFileIds
  <2>2. ASSUME NEW e \in pending'
        PROVE  e.parentPath = <<>> /\ cloud'[d][e.id].parent = Root
    BY <2>1, <2>2
  <2> QED BY <2>1, <2>2 DEF Visits
<1>2. ASSUME NEW e \in pending, getChildren(e)
      PROVE  Visits(pending', cloud'[at'])
  <2> DEFINE c == cloud[at]
             path == e.parentPath \o c[e.id].title
             kids == {[id |-> i, parentPath |-> path] : i \in children(at, e.id)}
  <2>1. /\ pc = "load" /\ at' = at /\ cloud' = cloud /\ e.id \in DOMAIN c
        /\ pending' = (pending \ {e}) \cup kids /\ at \in DriveIds
        /\ Visits(pending, c) /\ Shape(c) /\ Items(c)
    BY <1>2 DEF getChildren, CacheInv, TypeInv
  <2>2. ASSUME NEW i \in children(at, e.id)
        PROVE  c[i].parent # Root /\ path \in Titles /\ path # <<>>
    <3>1. i \in DOMAIN c /\ c[i].parent = e.id /\ e.id # Root
      BY <2>1, <2>2, RootIsNoFile DEF children, Shape
    <3>2. c[e.id].parent = Root /\ c[e.id].title \in Titles
      BY <2>1, <3>1 DEF Shape, Items
    <3>3. e.parentPath = <<>>
      BY <2>1, <3>2 DEF Visits
    <3>4. path = c[e.id].title
      BY <3>2, <3>3, RootPath
    <3> HIDE DEF path
    <3> QED BY <3>1, <3>2, <3>4, TitlesAssumption
  <2>3. ASSUME NEW k \in kids
        PROVE  k.parentPath \in Titles /\ k.parentPath # <<>> /\ c[k.id].parent # Root
    <3>1. PICK i \in children(at, e.id) : k = [id |-> i, parentPath |-> path]
      BY <2>3
    <3>2. c[i].parent # Root /\ path \in Titles /\ path # <<>>
      BY <2>2
    <3> HIDE DEF path
    <3>3. k.id = i /\ k.parentPath = path
      BY <3>1
    <3> QED BY <3>2, <3>3
  <2> HIDE DEF kids, path
  <2> QED BY <2>1, <2>3 DEF Visits
<1>3. CASE ~(\E d \in DriveIds : loadFileIds(d)) /\ ~(\E e \in pending : getChildren(e))
  <2>1. pc = "load"
    BY <1>3, LoadSteps
  <2>2. /\ UNCHANGED <<at, pending>>
        /\ \A i \in DOMAIN cloud'[at] : /\ i \in DOMAIN cloud[at]
                                        /\ cloud'[at][i].parent = cloud[at][i].parent
    BY <1>3, <2>1, LoadLasts
  <2> QED BY <2>1, <2>2 DEF TypeInv, Visits
<1> QED BY <1>1, <1>2, <1>3

\* A path is listed by a load only, and ends with it.
LEMMA ListingEnds ==
  ASSUME CacheInv, TypeInv, [Next]_vars
  PROVE  pc' # "load" => listing' = NoId
<1> DEFINE Ends == \/ UNCHANGED <<pc, listing>> \/ pc' = "load" \/ listing' = NoId
                   \/ pc # "load" /\ UNCHANGED listing
<1>1. ASSUME Account PROVE Ends
  BY <1>1 DEF Account, attachCloud, token, authenticateCloud, flowVars
<1>2. ASSUME NEW d \in DriveIds, FileOperation(d)
      PROVE  Ends
  BY <1>2 DEF FileOperation, refuses, list, getProperties, remove, rename, says,
              throws, changesCloud, ready, flowVars, loadFileIds
<1>3. ASSUME NEW d \in DriveIds, Copy(d)
      PROVE  Ends
  BY <1>3 DEF Copy, copyInCloud, copyToCloud, copyFromCloud, says, throws,
              ready, flowVars
<1>4. ASSUME NEW d \in DriveIds, Move(d)
      PROVE  Ends
  BY <1>4 DEF Move, moveInCloud, moveToCloud, moveFromCloud, half, says, throws,
              ready, flowVars
<1>5. ASSUME deleteSource \/ removeSource PROVE Ends
  BY <1>5 DEF deleteSource, removeSource
<1>6. ASSUME Load PROVE Ends
  BY <1>6 DEF Load, loadThrows, loadReturns, getChildren
<1>7. ASSUME UNCHANGED vars \/ \E d \in DriveIds, i \in FileIds : someoneChanges(d, i)
      PROVE  Ends
  BY <1>7 DEF vars, someoneChanges, flowVars
<1> HIDE DEF Ends
<1>8. Ends
  BY <1>1, <1>2, <1>3, <1>4, <1>5, <1>6, <1>7 DEF Next, Ends
<1> QED BY <1>8 DEF Ends, TypeInv

\* Between its halves a move is a record of what it moves.
LEMMA MoveUnderWay ==
  ASSUME CacheInv, MoveInv, TypeInv, [Next]_vars, pc' = "finish"
  PROVE  moving' # NoMove
<1>1. ASSUME NEW d \in DriveIds, NEW source \in FileIds \cup Words,
             NEW content \in Contents, NEW to \in {"cloud", "local"},
             half(d, source, content, to)
      PROVE  moving' # NoMove
  BY <1>1, NoMoveAssumption DEF half
<1>2. ASSUME NEW d \in DriveIds, Move(d)
      PROVE  moving' # NoMove
  <2>0. pc = "idle"
    BY <1>2 DEF Move, moveInCloud, moveToCloud, moveFromCloud, ready
  <2>1. ASSUME NEW path, NEW to \in {"cloud", "local"}, copyable(d, path),
               half(d, getFileId(d, path), itemAt(d, path).content, to)
        PROVE  moving' # NoMove
    <3>1. getFileId(d, path) \in FileIds /\ itemAt(d, path).content \in Contents
      BY <2>1 DEF copyable, itemAt, CacheInv, Shape, TypeInv, Items
    <3> QED BY <1>1, <2>1, <3>1
  <2>2. ASSUME NEW path \in Asked, NEW dest \in Destinations, moveInCloud(d, path, dest)
        PROVE  moving' # NoMove
    BY <1>2, <2>0, <2>1, <2>2 DEF moveInCloud, says, throws, flowVars
  <2>3. ASSUME NEW w \in Words, NEW dest \in Destinations, moveToCloud(d, w, dest)
        PROVE  moving' # NoMove
    <3>1. w \in DOMAIN local /\ half(d, w, local[w], "cloud")
      BY <2>0, <2>3 DEF moveToCloud, says, throws, flowVars
    <3> QED BY <1>1, <3>1 DEF TypeInv
  <2>4. ASSUME NEW path \in Asked, moveFromCloud(d, path)
        PROVE  moving' # NoMove
    BY <2>0, <2>1, <2>4 DEF moveFromCloud, says, throws, flowVars
  <2> QED BY <1>2, <2>2, <2>3, <2>4 DEF Move
<1>3. CASE pc = "finish" /\ UNCHANGED moving
  BY <1>3 DEF TypeInv
<1> QED BY <1>2, <1>3, FinishSteps

LEMMA TypeKept ==
  ASSUME IInv, CacheInv, MoveInv, TypeInv, [Next]_vars
  PROVE  TypeInv'
<1>1. \A d \in DriveIds : Items(cloud'[d])
  BY ItemsKept
<1>2. \A t \in DOMAIN local' : local'[t] \in Contents
  BY LocalKept
<1>3. touched' \subseteq DriveIds /\ \A d \in DriveIds : CachePaths(d)'
  BY PathsKept
<1>4. pc' # "idle" => at' \in mCred'
  BY CacheSteps
<1>5. CacheInv'
  BY CacheKept
<1>6. pc' = "load" => Visits(pending', cloud'[at'])
  BY <1>5, VisitsKept
<1>7. pc' # "load" => listing' = NoId
  BY ListingEnds
<1>8. pc' = "finish" => moving' # NoMove
  BY MoveUnderWay
<1> QED BY <1>1, <1>2, <1>3, <1>4, <1>6, <1>7, <1>8 DEF TypeInv

LEMMA InitTypes == Init => TypeInv
<1> SUFFICES ASSUME Init PROVE TypeInv
  OBVIOUS
<1>1. Items(CloudBefore)
  <2> SUFFICES ASSUME NEW i \in DOMAIN CloudBefore
               PROVE  /\ {"title", "content"} \subseteq DOMAIN CloudBefore[i]
                      /\ CloudBefore[i].title \in Titles
                      /\ CloudBefore[i].content \in Contents
    BY DEF Items
  <2>1. CloudBefore[i].content \in {CloudBefore[j].content : j \in DOMAIN CloudBefore}
    OBVIOUS
  <2> QED BY <2>1, CloudAssumption DEF Contents
<1>2. \A t \in DOMAIN LocalBefore : LocalBefore[t] \in Contents
  BY DEF Contents, Range
<1>3. \A d \in DriveIds : mFileIds[d] = <<>>
  BY DEF Init
<1>4. \A d \in DriveIds : CachePaths(d)
  BY <1>3 DEF CachePaths, Range
<1> QED BY <1>1, <1>2, <1>4 DEF Init, TypeInv

\* Drive ids are those of the clients' drives, the caches hold paths and file
\* ids, only a drive with a credential has a cache, and the phases of a request
\* agree with each other, whatever fails and whoever else changes a drive.
THEOREM TypeCorrect == Spec => []TypeOK
<1>1. Init => IInv /\ CacheInv /\ MoveInv /\ TypeInv
  BY InitInv, InitCache, InitTypes DEF Init, MoveInv
<1>2. IInv /\ CacheInv /\ MoveInv /\ TypeInv /\ [Next]_vars
        => IInv' /\ CacheInv' /\ MoveInv' /\ TypeInv'
  BY NextInv, CacheKept, MoveKept, TypeKept
<1>3. IInv /\ CacheInv /\ MoveInv /\ TypeInv => TypeOK
  <2> SUFFICES ASSUME IInv, CacheInv, MoveInv, TypeInv PROVE TypeOK
    OBVIOUS
  <2>1. Range(mClientIdDriveId) \subseteq DriveIds
    BY DriveIdsGiven DEF Range
  <2>2. refreshToken \cup mCred \cup touched \subseteq DriveIds
    BY <2>1 DEF IInv, CredentialBehindToken, TypeInv
  <2>3. pc = "finish" <=> moving # NoMove
    BY DEF MoveInv, TypeInv
  <2>4. pending # {} \/ listing # NoId => pc = "load"
    BY DEF CacheInv, TypeInv
  <2> QED BY <2>1, <2>2, <2>3, <2>4 DEF TypeOK, CacheInv, TypeInv, CachePaths
<1> QED BY <1>1, <1>2, <1>3, PTL DEF Spec
=============================================================================
