------------------------- MODULE NetworkDrivesProofs -------------------------
(***************************************************************************)
(* Theorems about NetworkDrives, for any shares, hosts, time stamps,       *)
(* servers and dispatchers that check paths meanwhile.                     *)
(***************************************************************************)
EXTENDS NetworkDrives, TLAPS

\* The drive ids handed out so far are the ones up to the counter, and a
\* drive's mount point is its own and is in use.
DrivesDistinct ==
  /\ sambaId \in Nat
  /\ mSambaSessionData \subseteq 1..sambaId
  /\ DOMAIN mSambaPathMap = mSambaSessionData
  /\ IsInjective(mSambaPathMap)
  /\ \A d \in mSambaSessionData : mSambaPathMap[d] \in mntpathmap
  /\ \A x \in mntpathmap : \E d \in mSambaSessionData : mSambaPathMap[d] = x
  /\ NoPath \notin mntpathmap

\* The kernel's mounts are the mount points of the drives, but for the one
\* between umount2 and the update of the maps.
MountsMatch ==
  /\ \A m \in mounts : \E d \in mSambaSessionData \ beingEjected :
       m.path = mSambaPathMap[d]
  /\ \A d \in mSambaSessionData \ beingEjected : isMounted(mSambaPathMap[d])
  /\ \A m, n \in mounts : m.path = n.path => m = n
  /\ pc = "eject" =>
       /\ reply.what \in mSambaSessionData
       /\ \A k \in DOMAIN mSambaDriveMap : mSambaDriveMap[k] # reply.what

\* Between its find and its operator[] a check has lost its entry only to a
\* clear that has noted it: so the entries of no drive are those of checks
\* that the last clear overtook.
ChecksNoted ==
  /\ DOMAIN checking = Checkers
  /\ \A t \in Checkers : checking[t] # NoDrive =>
       checking[t] \in DOMAIN mSambaDrivePathMap \cup overtaken
  /\ DOMAIN mSambaDrivePathMap \subseteq mSambaSessionData \cup overtaken

IInv == /\ DrivesDistinct
        /\ MountsMatch
        /\ ChecksNoted
        /\ RefusedShareIsMounted
        /\ DestinationCheckSound

\* IInv only speaks of the Samba side.
LEMMA UpnpLeavesSamba ==
  ASSUME IInv, UNCHANGED <<copyVars, sambaVars>>,
         pc = "eject" <=> pc' = "eject", pc = "eject" => reply' = reply,
         pc' # "setDriveDetails" =>
           \A d \in mSambaSessionData : comparesWithMount(d)
  PROVE  IInv'
<1>1. beingEjected' = beingEjected
  BY DEF beingEjected
<1>2. DrivesDistinct' /\ MountsMatch'
  BY <1>1 DEF IInv, DrivesDistinct, MountsMatch, isMounted, sambaVars
<1>3. RefusedShareIsMounted'
  BY DEF IInv, RefusedShareIsMounted, validateSambaOperation, mountPointOf,
         sambaVars
<1>4. ChecksNoted'
  BY DEF IInv, ChecksNoted, copyVars, sambaVars
<1>5. DestinationCheckSound'
  BY <1>1, <1>4 DEF IInv, ChecksNoted, DestinationCheckSound, comparesWithMount,
                    mountPointOf, isMounted, copyVars, sambaVars
<1> QED BY <1>2, <1>3, <1>4, <1>5 DEF IInv

\* Nothing is left of the copy after clears but what the checks put back.
LEMMA ClearNotes ==
  ASSUME ChecksNoted, clears
  PROVE  ChecksNoted' /\ DOMAIN mSambaDrivePathMap' = {}
<1>1. DOMAIN mSambaDrivePathMap' = {} /\ checking' = checking
  BY DEF clears
<1>2. \A t \in Checkers : checking[t] # NoDrive => checking[t] \in overtaken'
  BY DEF clears, ChecksNoted, Range
<1> QED BY <1>1, <1>2 DEF ChecksNoted

LEMMA InitIInv == Init => IInv
<1> SUFFICES ASSUME Init PROVE IInv
  OBVIOUS
<1>1. /\ DOMAIN mSambaPathMap = {} /\ DOMAIN mSambaDrivePathMap = {}
      /\ DOMAIN mSambaDriveMap = {}
  BY DEF Init
<1>2. DrivesDistinct
  BY <1>1 DEF Init, DrivesDistinct, IsInjective
<1>3. MountsMatch /\ RefusedShareIsMounted /\ DestinationCheckSound
  BY <1>1 DEF Init, MountsMatch, RefusedShareIsMounted, DestinationCheckSound
<1>4. ChecksNoted
  BY <1>1 DEF Init, ChecksNoted
<1> QED BY <1>2, <1>3, <1>4 DEF IInv

LEMMA MountPreserves ==
  ASSUME IInv, NEW k \in Shares, NEW path, path # NoPath,
         mountSambaServer(k, path)
  PROVE  IInv'
<1> DEFINE d == sambaId + 1
<1> USE DEF mountSambaServer
<1>1. d \in Nat /\ d \notin mSambaSessionData /\ sambaId \in Nat
  BY DEF IInv, DrivesDistinct
<1>2. /\ DOMAIN mSambaPathMap' = mSambaSessionData'
      /\ mSambaPathMap'[d] = path
      /\ \A e \in mSambaSessionData : mSambaPathMap'[e] = mSambaPathMap[e]
  BY <1>1 DEF IInv, DrivesDistinct, put
<1>3. \A e \in mSambaSessionData : mSambaPathMap[e] # path
  BY DEF IInv, DrivesDistinct
<1>4. /\ mSambaSessionData' = mSambaSessionData \cup {d}
      /\ mntpathmap' = mntpathmap \cup {path}
      /\ mounts' = mounts \cup {[path |-> path, share |-> k]}
      /\ sambaId' = d
      /\ ChecksNoted' /\ DOMAIN mSambaDrivePathMap' = {}
      /\ beingEjected' = {} /\ beingEjected = {}
      /\ pc' = "setDriveDetails"
  BY ClearNotes DEF beingEjected, IInv
<1>5. /\ DOMAIN mSambaDriveMap' = DOMAIN mSambaDriveMap \cup {k}
      /\ mSambaDriveMap'[k] = d
      /\ \A j \in DOMAIN mSambaDriveMap : mSambaDriveMap'[j] = mSambaDriveMap[j]
  BY DEF put
<1> HIDE DEF mountSambaServer, d
<1>6. DrivesDistinct'
  <2>1. d = sambaId + 1
    BY DEF d
  <2>2. sambaId' \in Nat /\ mSambaSessionData' \subseteq 1..sambaId'
    BY <1>1, <1>4, <2>1 DEF IInv, DrivesDistinct
  <2>3. IsInjective(mSambaPathMap)'
    <3>1. \A a, b \in mSambaSessionData : mSambaPathMap[a] = mSambaPathMap[b] => a = b
      BY DEF IInv, DrivesDistinct, IsInjective
    <3>2. \A a, b \in mSambaSessionData \cup {d} :
            mSambaPathMap'[a] = mSambaPathMap'[b] => a = b
      BY <1>2, <1>3, <3>1
    <3> QED BY <1>2, <1>4, <3>2 DEF IsInjective
  <2> QED BY <1>2, <1>4, <2>2, <2>3 DEF IInv, DrivesDistinct
<1>7. MountsMatch'
  <2>1. \A m \in mounts : m.path # path
    BY <1>3 DEF IInv, MountsMatch
  <2>2. \A m, n \in mounts' : m.path = n.path => m = n
    BY <1>4, <2>1 DEF IInv, MountsMatch
  <2>3. \A m \in mounts' : \E e \in mSambaSessionData' : m.path = mSambaPathMap'[e]
    BY <1>2, <1>4 DEF IInv, MountsMatch
  <2>4. \A e \in mSambaSessionData' : \E m \in mounts' : m.path = mSambaPathMap'[e]
    <3>1. \A e \in mSambaSessionData : \E m \in mounts : m.path = mSambaPathMap[e]
      BY <1>4 DEF IInv, MountsMatch, isMounted
    <3>2. [path |-> path, share |-> k] \in mounts'
      BY <1>4
    <3>3. [path |-> path, share |-> k].path = mSambaPathMap'[d]
      BY <1>2
    <3> QED BY <1>2, <1>4, <3>1, <3>2, <3>3
  <2> QED BY <1>4, <2>2, <2>3, <2>4 DEF MountsMatch, isMounted
<1>8. RefusedShareIsMounted'
  BY <1>2, <1>4, <1>5
     DEF IInv, RefusedShareIsMounted, validateSambaOperation, mountPointOf
<1>9. DestinationCheckSound'
  BY <1>4 DEF DestinationCheckSound
<1> QED BY <1>4, <1>6, <1>7, <1>8, <1>9 DEF IInv

\* What the steps inside setDriveDetails and the checks may do to the copy: an
\* entry that they change or add has an empty path or the drive's own one.
LEMMA CopyPreserves ==
  ASSUME IInv, UNCHANGED <<pc, reply, overtaken, sambaVars>>, ChecksNoted',
         \A d \in DOMAIN mSambaDrivePathMap' :
           \/ mSambaDrivePathMap'[d] = NoPath
           \/ /\ d \in DOMAIN mSambaDrivePathMap
              /\ mSambaDrivePathMap'[d] = mSambaDrivePathMap[d]
           \/ /\ pc = "setDriveDetails"
              /\ d \in DOMAIN mSambaPathMap
              /\ mSambaDrivePathMap'[d] = mSambaPathMap[d],
         pc # "setDriveDetails" => \A d \in DOMAIN mSambaDrivePathMap :
           /\ d \in DOMAIN mSambaDrivePathMap'
           /\ mSambaDrivePathMap'[d] = mSambaDrivePathMap[d]
  PROVE  IInv'
<1>1. beingEjected' = beingEjected
  BY DEF beingEjected
<1>2. DrivesDistinct' /\ MountsMatch' /\ RefusedShareIsMounted'
  BY <1>1 DEF IInv, DrivesDistinct, MountsMatch, isMounted, sambaVars,
              RefusedShareIsMounted, validateSambaOperation, mountPointOf
<1>3. ASSUME NEW d \in DOMAIN mSambaDrivePathMap', mSambaDrivePathMap'[d] # NoPath
      PROVE  /\ d \in DOMAIN mSambaPathMap
             /\ mSambaDrivePathMap'[d] = mSambaPathMap[d]
             /\ d \notin beingEjected => isMounted(mSambaPathMap[d])
  <2>1. CASE pc = "setDriveDetails" /\ d \in DOMAIN mSambaPathMap
                                   /\ mSambaDrivePathMap'[d] = mSambaPathMap[d]
    BY <2>1 DEF IInv, DrivesDistinct, MountsMatch
  <2>2. CASE d \in DOMAIN mSambaDrivePathMap
             /\ mSambaDrivePathMap'[d] = mSambaDrivePathMap[d]
    BY <1>3, <2>2 DEF IInv, DestinationCheckSound, comparesWithMount, mountPointOf
  <2> QED BY <1>3, <2>1, <2>2
<1>4. UNCHANGED <<mSambaPathMap, mounts, mSambaSessionData, pc>>
  BY DEF sambaVars
<1>5. pc # "setDriveDetails" => \A d \in mSambaSessionData :
        d \in DOMAIN mSambaDrivePathMap' /\ mSambaDrivePathMap'[d] # NoPath
  BY DEF IInv, DestinationCheckSound, comparesWithMount
<1>6. DOMAIN mSambaDrivePathMap' \subseteq mSambaSessionData \cup overtaken'
  BY <1>4 DEF ChecksNoted
<1>7. DestinationCheckSound'
  BY <1>1, <1>3, <1>4, <1>5, <1>6
     DEF DestinationCheckSound, comparesWithMount, mountPointOf, isMounted
<1> QED BY <1>2, <1>7 DEF IInv

LEMMA SetDriveDetailsPreserves ==
  ASSUME IInv, NEW d, setDriveDetails(d)
  PROVE  IInv'
<1>1. /\ pc = "setDriveDetails" /\ d \in DOMAIN mSambaPathMap
      /\ UNCHANGED <<pc, reply, checking, overtaken, sambaVars>>
      /\ \E path \in {NoPath, mSambaPathMap[d]} :
           mSambaDrivePathMap' = put(mSambaDrivePathMap, d, path)
  BY DEF setDriveDetails
<1>2. /\ DOMAIN mSambaDrivePathMap' = DOMAIN mSambaDrivePathMap \cup {d}
      /\ mSambaDrivePathMap'[d] \in {NoPath, mSambaPathMap[d]}
      /\ \A e \in DOMAIN mSambaDrivePathMap \ {d} :
           mSambaDrivePathMap'[e] = mSambaDrivePathMap[e]
  BY <1>1 DEF put
<1>3. ChecksNoted'
  <2>1. d \in mSambaSessionData
    BY <1>1 DEF IInv, DrivesDistinct
  <2> QED BY <1>1, <1>2, <2>1 DEF IInv, ChecksNoted, sambaVars
<1>4. \A e \in DOMAIN mSambaDrivePathMap' :
        \/ mSambaDrivePathMap'[e] = NoPath
        \/ /\ e \in DOMAIN mSambaDrivePathMap
           /\ mSambaDrivePathMap'[e] = mSambaDrivePathMap[e]
        \/ /\ e \in DOMAIN mSambaPathMap
           /\ mSambaDrivePathMap'[e] = mSambaPathMap[e]
  BY <1>1, <1>2
<1> QED BY <1>1, <1>3, <1>4, CopyPreserves

LEMMA FindPreserves ==
  ASSUME IInv, NEW t \in Checkers, NEW d, findDrive(t, d)
  PROVE  IInv'
<1>1. /\ d \in DOMAIN mSambaDrivePathMap
      /\ UNCHANGED <<pc, reply, mSambaDrivePathMap, overtaken, sambaVars>>
      /\ checking' = [checking EXCEPT ![t] = d]
  BY DEF findDrive
<1>2. ChecksNoted'
  <2>1. /\ DOMAIN checking' = Checkers /\ checking'[t] = d
        /\ \A u \in Checkers \ {t} : checking'[u] = checking[u]
    BY <1>1 DEF IInv, ChecksNoted
  <2> QED BY <1>1, <2>1 DEF IInv, ChecksNoted, sambaVars
<1> QED BY <1>1, <1>2, CopyPreserves

LEMMA ComparePreserves ==
  ASSUME IInv, NEW t \in Checkers, comparePath(t)
  PROVE  IInv'
<1> DEFINE d == checking[t]
<1>1. /\ d # NoDrive
      /\ UNCHANGED <<pc, reply, overtaken, sambaVars>>
      /\ checking' = [checking EXCEPT ![t] = NoDrive]
      /\ d \in DOMAIN mSambaDrivePathMap => mSambaDrivePathMap' = mSambaDrivePathMap
      /\ d \notin DOMAIN mSambaDrivePathMap =>
           mSambaDrivePathMap' = put(mSambaDrivePathMap, d, NoPath)
  BY DEF comparePath
<1>2. /\ DOMAIN checking' = Checkers /\ checking'[t] = NoDrive
      /\ \A u \in Checkers \ {t} : checking'[u] = checking[u]
  BY <1>1 DEF IInv, ChecksNoted
<1> HIDE DEF d
<1>3. CASE d \in DOMAIN mSambaDrivePathMap
  <2>1. mSambaDrivePathMap' = mSambaDrivePathMap
    BY <1>1, <1>3
  <2>2. ChecksNoted'
    BY <1>1, <1>2, <2>1 DEF IInv, ChecksNoted, sambaVars
  <2> QED BY <1>1, <2>1, <2>2, CopyPreserves
<1>4. CASE d \notin DOMAIN mSambaDrivePathMap
  <2>1. /\ DOMAIN mSambaDrivePathMap' = DOMAIN mSambaDrivePathMap \cup {d}
        /\ mSambaDrivePathMap'[d] = NoPath
        /\ \A e \in DOMAIN mSambaDrivePathMap :
             mSambaDrivePathMap'[e] = mSambaDrivePathMap[e]
    BY <1>1, <1>4 DEF put
  <2>2. d \in overtaken
    BY <1>1, <1>4 DEF IInv, ChecksNoted, d
  <2>3. ChecksNoted'
    BY <1>1, <1>2, <2>1, <2>2 DEF IInv, ChecksNoted, sambaVars
  <2>4. \A e \in DOMAIN mSambaDrivePathMap' :
          \/ mSambaDrivePathMap'[e] = NoPath
          \/ /\ e \in DOMAIN mSambaDrivePathMap
             /\ mSambaDrivePathMap'[e] = mSambaDrivePathMap[e]
    BY <2>1
  <2> QED BY <1>1, <2>1, <2>3, <2>4, CopyPreserves
<1> QED BY <1>3, <1>4

LEMMA EjectPreserves ==
  ASSUME IInv, NEW d, eject(d)
  PROVE  IInv'
<1> USE DEF eject
<1>1. /\ d \in mSambaSessionData /\ d \in DOMAIN mSambaPathMap
      /\ UNCHANGED <<mSambaSessionData, mSambaPathMap, mntpathmap, sambaId,
                     mSambaDrivePathMap, checking, overtaken>>
      /\ beingEjected = {} /\ pc = "idle"
  BY DEF IInv, DrivesDistinct, validateSambaOperation, beingEjected, copyVars
<1>2. /\ DOMAIN mSambaDriveMap' =
           {k \in DOMAIN mSambaDriveMap : mSambaDriveMap[k] # d}
      /\ \A k \in DOMAIN mSambaDriveMap' : mSambaDriveMap'[k] = mSambaDriveMap[k]
  BY DEF Restrict
<1>3. DrivesDistinct' /\ ChecksNoted'
  BY <1>1 DEF IInv, DrivesDistinct, ChecksNoted
<1>4. CASE pc' = "eject"
  <2>1. /\ mounts' = {m \in mounts : m.path # mSambaPathMap[d]}
        /\ reply'.what = d
        /\ beingEjected' = {d}
    BY <1>4 DEF answer, beingEjected
  <2> HIDE DEF eject
  <2>2. \A e \in mSambaSessionData \ {d} : mSambaPathMap[e] # mSambaPathMap[d]
    BY <1>1 DEF IInv, DrivesDistinct, IsInjective
  <2>3. MountsMatch'
    <3>1. \A e \in mSambaSessionData \ {d} :
            \E m \in mounts' : m.path = mSambaPathMap[e]
      BY <1>1, <2>1, <2>2 DEF IInv, MountsMatch, isMounted
    <3>2. \A m \in mounts' : \E e \in mSambaSessionData \ {d} :
            m.path = mSambaPathMap[e]
      BY <1>1, <2>1 DEF IInv, MountsMatch
    <3>3. \A m, n \in mounts' : m.path = n.path => m = n
      BY <2>1 DEF IInv, MountsMatch
    <3> QED BY <1>1, <1>2, <2>1, <3>1, <3>2, <3>3 DEF MountsMatch, isMounted
  <2>4. RefusedShareIsMounted'
    BY <1>1, <1>2, <2>1, <2>2
       DEF IInv, RefusedShareIsMounted, validateSambaOperation, mountPointOf
  <2>5. DestinationCheckSound'
    <3>1. \A e \in mSambaSessionData \ {d} :
            \E m \in mounts' : m.path = mSambaPathMap[e]
      BY <1>1, <2>1, <2>3 DEF MountsMatch, isMounted
    <3>2. \A e \in DOMAIN mSambaDrivePathMap : mSambaDrivePathMap[e] # NoPath =>
            e \in mSambaSessionData /\ mSambaDrivePathMap[e] = mSambaPathMap[e]
      BY DEF IInv, DestinationCheckSound, DrivesDistinct, mountPointOf,
             comparesWithMount
    <3>3. DOMAIN mSambaPathMap = mSambaSessionData
      BY DEF IInv, DrivesDistinct
    <3>4. /\ \A e \in mSambaSessionData : comparesWithMount(e)
          /\ DOMAIN mSambaDrivePathMap \subseteq mSambaSessionData \cup overtaken
      BY <1>1 DEF IInv, DestinationCheckSound
    <3> QED BY <1>1, <1>4, <2>1, <3>1, <3>2, <3>3, <3>4
            DEF DestinationCheckSound, mountPointOf, isMounted, comparesWithMount
  <2> QED BY <1>3, <2>3, <2>4, <2>5 DEF IInv
<1>5. CASE pc' # "eject"
  <2>1. UNCHANGED <<pc, mounts>> /\ beingEjected' = {}
    BY <1>5 DEF beingEjected
  <2> HIDE DEF eject
  <2>2. MountsMatch'
    BY <1>1, <1>2, <1>5, <2>1 DEF IInv, MountsMatch, isMounted
  <2>3. RefusedShareIsMounted'
    BY <1>1, <1>2, <2>1
       DEF IInv, RefusedShareIsMounted, validateSambaOperation, mountPointOf
  <2>4. DestinationCheckSound'
    BY <1>1, <2>1 DEF IInv, DestinationCheckSound, mountPointOf, isMounted,
                      comparesWithMount
  <2> QED BY <1>3, <2>2, <2>3, <2>4 DEF IInv
<1> QED BY <1>4, <1>5

LEMMA EjectUnmountedPreserves ==
  ASSUME IInv, NEW d, ejectUnmounted(d)
  PROVE  IInv'
<1> USE DEF ejectUnmounted
<1>1. /\ beingEjected = {d} /\ beingEjected' = {}
      /\ ChecksNoted' /\ DOMAIN mSambaDrivePathMap' = {}
      /\ d \in mSambaSessionData
      /\ \A k \in DOMAIN mSambaDriveMap : mSambaDriveMap[k] # d
      /\ pc' = "setDriveDetails"
  BY ClearNotes DEF beingEjected, IInv, MountsMatch
<1>2. /\ DOMAIN mSambaPathMap' = mSambaSessionData'
      /\ \A e \in mSambaSessionData' : mSambaPathMap'[e] = mSambaPathMap[e]
  BY DEF erase, Restrict, IInv, DrivesDistinct
<1>3. /\ mSambaSessionData' = mSambaSessionData \ {d}
      /\ mntpathmap' = mntpathmap \ {mSambaPathMap[d]}
      /\ UNCHANGED <<mSambaDriveMap, mounts, sambaId>>
  OBVIOUS
<1> HIDE DEF ejectUnmounted
<1>4. \A e \in mSambaSessionData' : mSambaPathMap[e] # mSambaPathMap[d]
  BY <1>1, <1>3 DEF IInv, DrivesDistinct, IsInjective
<1>5. DrivesDistinct'
  <2>1. IsInjective(mSambaPathMap)'
    BY <1>2, <1>3 DEF IInv, DrivesDistinct, IsInjective
  <2> QED BY <1>2, <1>3, <1>4, <2>1 DEF IInv, DrivesDistinct
<1>6. MountsMatch'
  BY <1>1, <1>2, <1>3 DEF IInv, MountsMatch, isMounted
<1>7. RefusedShareIsMounted'
  BY <1>1, <1>2, <1>3
     DEF IInv, RefusedShareIsMounted, validateSambaOperation, mountPointOf
<1>8. DestinationCheckSound'
  BY <1>1 DEF DestinationCheckSound
<1> QED BY <1>1, <1>5, <1>6, <1>7, <1>8 DEF IInv

\* operator[] of the path map never inserts: it has every drive.
LEMMA ListPreserves ==
  ASSUME IInv, listStoragesMethod
  PROVE  IInv'
<1> USE DEF listStoragesMethod
<1>1. /\ DOMAIN mSambaPathMap' = DOMAIN mSambaPathMap
      /\ \A d \in DOMAIN mSambaPathMap : mSambaPathMap'[d] = mSambaPathMap[d]
      /\ DOMAIN mSambaPathMap = mSambaSessionData
  BY DEF IInv, DrivesDistinct
<1>2. /\ beingEjected = {} /\ beingEjected' = {} /\ pc' = pc /\ pc = "idle"
      /\ UNCHANGED <<mSambaDriveMap, mSambaSessionData, mntpathmap, mounts,
                     sambaId, mSambaDrivePathMap, checking, overtaken>>
  BY DEF beingEjected, copyVars
<1> HIDE DEF listStoragesMethod
<1>3. DrivesDistinct' /\ ChecksNoted'
  BY <1>1, <1>2 DEF IInv, DrivesDistinct, ChecksNoted, IsInjective
<1>4. MountsMatch'
  BY <1>1, <1>2 DEF IInv, MountsMatch, isMounted
<1>5. RefusedShareIsMounted'
  BY <1>1, <1>2 DEF IInv, RefusedShareIsMounted, validateSambaOperation,
                    mountPointOf
<1>6. DestinationCheckSound'
  BY <1>1, <1>2 DEF IInv, DestinationCheckSound, mountPointOf, isMounted,
                    comparesWithMount
<1> QED BY <1>3, <1>4, <1>5, <1>6 DEF IInv

LEMMA NextPreserves ==
  ASSUME IInv, [Next]_vars
  PROVE  IInv'
<1>1. ASSUME NEW k \in Shares, Mount(k) PROVE IInv'
  <2>1. ASSUME NEW stamp \in Stamps, mountSambaServer(k, <<HostOf[k], stamp>>)
        PROVE  IInv'
    <3>1. <<HostOf[k], stamp>> # NoPath
      BY NoPathAssumption DEF Paths, Hosts
    <3> QED BY <2>1, <3>1, MountPreserves
  <2>2. CASE mountSambaServerRefuses(k) \/ \E path : mountPointInUse(k, path)
    BY <2>2, UpnpLeavesSamba
       DEF mountSambaServerRefuses, mountPointInUse, IInv, DestinationCheckSound
  <2> QED BY <1>1, <2>1, <2>2 DEF Mount
<1>2. ASSUME NEW d \in DriveIds, Eject(d) PROVE IInv'
  <2>1. CASE ejectInvalidDrive(d)
    BY <2>1, UpnpLeavesSamba
       DEF ejectInvalidDrive, IInv, DestinationCheckSound
  <2> QED BY <1>2, <2>1, EjectPreserves, EjectUnmountedPreserves DEF Eject
<1>3. ASSUME NEW d \in DriveIds, setDriveDetails(d) PROVE IInv'
  BY <1>3, SetDriveDetailsPreserves
<1>4. ASSUME NEW t \in Checkers, Check(t) PROVE IInv'
  BY <1>4, FindPreserves, ComparePreserves DEF Check
<1>5. CASE setDriveDetailsReturns
  <2>1. \A d \in mSambaSessionData : comparesWithMount(d)
    BY <1>5 DEF setDriveDetailsReturns, IInv, DrivesDistinct, comparesWithMount
  <2> QED BY <1>5, <2>1, UpnpLeavesSamba DEF setDriveDetailsReturns
<1>6. CASE Discover
  <2>1. \A d \in mSambaSessionData : comparesWithMount(d)
    BY <1>6 DEF Discover, discoverUPnPMediaServer, registerServer,
                discoverReturns, IInv, DestinationCheckSound
  <2> QED BY <1>6, <2>1, UpnpLeavesSamba
          DEF Discover, discoverUPnPMediaServer, registerServer, discoverReturns
<1>7. CASE listStoragesMethod
  BY <1>7, ListPreserves
<1>8. CASE UNCHANGED vars
  BY <1>8, UpnpLeavesSamba DEF vars, IInv, DestinationCheckSound
<1> QED BY <1>1, <1>2, <1>3, <1>4, <1>5, <1>6, <1>7, <1>8 DEF Next

\* The maps, the kernel's mounts and the copy for the other dispatchers agree
\* at every step.
THEOREM DrivesConsistent == Spec => []IInv
<1>1. Init => IInv
  BY InitIInv
<1>2. IInv /\ [Next]_vars => IInv'
  BY NextPreserves
<1> QED BY <1>1, <1>2, PTL DEF Spec

\* No mount is orphaned and no drive is without its mount, whatever fails.
THEOREM NoOrphanMounts == Spec => []MountsHaveDrives
<1>1. ASSUME IInv PROVE MountsHaveDrives
  <2>1. /\ DOMAIN mSambaPathMap = mSambaSessionData
        /\ IsInjective(mSambaPathMap)
        /\ \A m, n \in mounts : m.path = n.path => m = n
    BY <1>1 DEF IInv, DrivesDistinct, MountsMatch
  <2>2. {m.path : m \in mounts} =
          {mountPointOf(d) : d \in mSambaSessionData \ beingEjected}
    BY <1>1 DEF IInv, MountsMatch, isMounted, mountPointOf
  <2> QED BY <2>1, <2>2 DEF MountsHaveDrives
<1>2. IInv => MountsHaveDrives
  BY <1>1
<1> QED BY <1>2, DrivesConsistent, PTL

\* A check that races with mounts, ejects and other checks meets the empty path
\* or the drive's own mounted one, and outside a refresh of the copy the latter
\* for every drive.
THEOREM DestinationCheckIsSound == Spec => []DestinationCheckSound
<1>1. IInv => DestinationCheckSound
  BY DEF IInv
<1> QED BY <1>1, DrivesConsistent, PTL

\* "Already Mounted " is only said of a share that is mounted and ejectable.
THEOREM RefusalIsTrue == Spec => []RefusedShareIsMounted
<1>1. IInv => RefusedShareIsMounted
  BY DEF IInv
<1> QED BY <1>1, DrivesConsistent, PTL

-----------------------------------------------------------------------------
(* What eject answers.                                                     *)

\* From the end of an eject that succeeded to the next answer nothing in the
\* provider refers to the drive.
EjectedIsGone ==
  reply.op = "eject" /\ reply.ok /\ pc # "eject" =>
    reply.what \notin mSambaSessionData \cup Range(mSambaDriveMap)

LEMMA OtherAnswers ==
  ASSUME NEW op, NEW what, NEW ok, reply' = answer(op, what, ok)
  PROVE  reply'.op = op /\ reply'.what = what /\ reply'.ok = ok
BY DEF answer

LEMMA EjectedStaysGone ==
  ASSUME IInv, EjectedIsGone, [Next]_vars
  PROVE  EjectedIsGone'
<1> USE DEF EjectedIsGone
<1>1. ASSUME NEW k \in Shares, Mount(k) PROVE EjectedIsGone'
  <2>1. \E ok \in BOOLEAN : reply' = answer("mount", k, ok)
    BY <1>1 DEF Mount, mountSambaServer, mountPointInUse, mountSambaServerRefuses
  <2>2. reply'.op = "mount"
    BY <2>1, OtherAnswers
  <2> QED BY <2>2
<1>2. ASSUME NEW d \in DriveIds, eject(d) PROVE EjectedIsGone'
  <2>1. CASE pc' = "eject"
    BY <2>1
  <2>2. CASE reply' = answer("eject", d, FALSE)
    <3>1. reply'.ok = FALSE
      BY <2>2, OtherAnswers
    <3> QED BY <3>1
  <2> QED BY <1>2, <2>1, <2>2 DEF eject
<1>3. ASSUME NEW d \in DriveIds, ejectInvalidDrive(d) PROVE EjectedIsGone'
  <2>1. reply'.ok = FALSE
    BY <1>3, OtherAnswers DEF ejectInvalidDrive
  <2> QED BY <2>1
<1>4. ASSUME NEW d \in DriveIds, ejectUnmounted(d) PROVE EjectedIsGone'
  <2>1. /\ reply' = reply /\ d = reply.what
        /\ mSambaDriveMap' = mSambaDriveMap
        /\ d \notin mSambaSessionData'
    BY <1>4 DEF ejectUnmounted
  <2>2. d \notin Range(mSambaDriveMap)
    BY <1>4, <2>1 DEF ejectUnmounted, IInv, MountsMatch, Range
  <2> QED BY <2>1, <2>2 DEF Range
<1>5. ASSUME UNCHANGED <<pc, reply, sambaVars>> PROVE EjectedIsGone'
  BY <1>5 DEF sambaVars, Range
<1>6. CASE setDriveDetailsReturns
  BY <1>6 DEF setDriveDetailsReturns, sambaVars, Range
<1>7. CASE Discover
  <2>1. UNCHANGED <<reply, mSambaSessionData, mSambaDriveMap>> /\ pc # "eject"
    BY <1>7 DEF Discover, discoverUPnPMediaServer, registerServer,
                discoverReturns, sambaVars
  <2> QED BY <2>1 DEF Range
<1>8. CASE listStoragesMethod
  <2>1. reply'.op = "list"
    BY <1>8 DEF listStoragesMethod, answer
  <2> QED BY <2>1
<1>9. ASSUME \/ \E d \in DriveIds : setDriveDetails(d)
             \/ \E t \in Checkers : Check(t)
             \/ UNCHANGED vars
      PROVE  EjectedIsGone'
  <2>1. UNCHANGED <<pc, reply, sambaVars>>
    BY <1>9 DEF setDriveDetails, Check, findDrive, comparePath, vars
  <2> QED BY <1>5, <2>1
<1> QED BY <1>1, <1>2, <1>3, <1>4, <1>6, <1>7, <1>8, <1>9 DEF Next, Eject

\* A client that is told its drive is ejected is told the truth, and one that
\* is refused still has a drive that works, if it had one.
THEOREM EjectAnswersAreTrue == Spec => []EjectAnswerTrue
<1>1. Init => EjectedIsGone
  BY DEF Init, EjectedIsGone, answer
<1>2. IInv /\ EjectedIsGone /\ [Next]_vars => EjectedIsGone'
  BY EjectedStaysGone
<1>3. IInv /\ EjectedIsGone => EjectAnswerTrue
  <2> SUFFICES ASSUME IInv, EjectedIsGone, pc = "idle", reply.op = "eject"
               PROVE  EjectAnswerTrue
    BY DEF EjectAnswerTrue
  <2> DEFINE d == reply.what
  <2>1. CASE reply.ok
    <3>1. d \notin mSambaSessionData \cup Range(mSambaDriveMap)
      BY <2>1 DEF EjectedIsGone
    <3>2. d \notin DOMAIN mSambaPathMap
      BY <3>1 DEF IInv, DrivesDistinct
    <3>3. ~comparesWithMount(d)
      BY <3>2 DEF IInv, DestinationCheckSound, comparesWithMount
    <3>4. d \in DOMAIN mSambaDrivePathMap => d \in overtaken
      BY <3>1 DEF IInv, ChecksNoted
    <3> QED BY <2>1, <3>1, <3>2, <3>3, <3>4 DEF EjectAnswerTrue
  <2>2. CASE ~reply.ok
    <3>1. \A e \in mSambaSessionData : comparesWithMount(e)
      BY DEF IInv, DestinationCheckSound
    <3>2. \A e \in mSambaSessionData : isMounted(mountPointOf(e))
      BY DEF IInv, MountsMatch, beingEjected, mountPointOf
    <3>3. \A e \in mSambaSessionData :
            e \in DOMAIN mSambaDrivePathMap /\ mSambaDrivePathMap[e] = mountPointOf(e)
      BY <3>1 DEF IInv, DestinationCheckSound, comparesWithMount
    <3> QED BY <2>2, <3>2, <3>3 DEF EjectAnswerTrue
  <2> QED BY <2>1, <2>2
<1> QED BY <1>1, <1>2, <1>3, DrivesConsistent, PTL DEF Spec

-----------------------------------------------------------------------------
(* Media servers.                                                          *)

\* And their ids are the ones up to the counter.
ServersInv ==
  /\ ServersAreDrivesOnce
  /\ upnpId \in Nat /\ mUpnpSessionData \subseteq 1..upnpId

LEMMA ServersSame ==
  ASSUME ServersInv,
         UNCHANGED <<mUpnpDriveMap, mUpnpSessionData, mUpnpPathMap, upnpId>>
  PROVE  ServersInv'
BY DEF ServersInv, ServersAreDrivesOnce, IsInjective, Range

LEMMA RegisteredOnce ==
  ASSUME ServersInv, NEW u \in Servers, registerServer(u)
  PROVE  ServersInv'
<1>1. CASE UNCHANGED <<upnpId, mUpnpDriveMap, mUpnpSessionData, mUpnpPathMap>>
  BY <1>1, ServersSame
<1>2. CASE /\ PortOf[u] \notin DOMAIN mUpnpDriveMap
           /\ upnpId' = upnpId + 1
           /\ mUpnpDriveMap' = put(mUpnpDriveMap, PortOf[u], upnpId + 1)
           /\ mUpnpSessionData' = mUpnpSessionData \cup {upnpId + 1}
           /\ mUpnpPathMap' = put(mUpnpPathMap, upnpId + 1, u)
  <2> DEFINE new == upnpId + 1
  <2>1. new \in Nat /\ new \notin mUpnpSessionData /\ mUpnpSessionData' \subseteq 1..new
    BY <1>2 DEF ServersInv
  <2>2. /\ IsInjective(mUpnpDriveMap)
        /\ \A s \in DOMAIN mUpnpDriveMap : mUpnpDriveMap[s] \in mUpnpSessionData
        /\ \A d \in mUpnpSessionData : \E s \in DOMAIN mUpnpDriveMap : mUpnpDriveMap[s] = d
        /\ DOMAIN mUpnpPathMap = mUpnpSessionData
        /\ \A s \in DOMAIN mUpnpDriveMap : PortOf[mUpnpPathMap[mUpnpDriveMap[s]]] = s
    BY DEF ServersInv, ServersAreDrivesOnce, Range
  <2>3. /\ DOMAIN mUpnpDriveMap' = DOMAIN mUpnpDriveMap \cup {PortOf[u]}
        /\ mUpnpDriveMap'[PortOf[u]] = new
        /\ \A s \in DOMAIN mUpnpDriveMap : mUpnpDriveMap'[s] = mUpnpDriveMap[s]
    BY <1>2 DEF put
  <2>4. /\ DOMAIN mUpnpPathMap' = mUpnpSessionData'
        /\ mUpnpPathMap'[new] = u
        /\ \A d \in mUpnpSessionData : mUpnpPathMap'[d] = mUpnpPathMap[d]
    BY <1>2, <2>1, <2>2 DEF put
  <2>5. IsInjective(mUpnpDriveMap')
    BY <2>1, <2>2, <2>3 DEF IsInjective
  <2>6. Range(mUpnpDriveMap') = mUpnpSessionData'
    BY <1>2, <2>2, <2>3 DEF Range
  <2>7. \A s \in DOMAIN mUpnpDriveMap' : PortOf[mUpnpPathMap'[mUpnpDriveMap'[s]]] = s
    BY <2>2, <2>3, <2>4
  <2> QED BY <1>2, <2>1, <2>4, <2>5, <2>6, <2>7 DEF ServersInv, ServersAreDrivesOnce
<1> QED BY <1>1, <1>2 DEF registerServer

LEMMA ListingKeepsServers ==
  ASSUME ServersInv, listStoragesMethod
  PROVE  ServersInv'
<1>1. UNCHANGED <<mUpnpDriveMap, mUpnpSessionData, upnpId>>
  BY DEF listStoragesMethod
<1>2. /\ DOMAIN mUpnpPathMap' = mUpnpSessionData
      /\ \A d \in mUpnpSessionData : mUpnpPathMap'[d] = mUpnpPathMap[d]
  BY DEF listStoragesMethod, ServersInv, ServersAreDrivesOnce
<1>3. \A s \in DOMAIN mUpnpDriveMap : mUpnpDriveMap[s] \in mUpnpSessionData
  BY DEF ServersInv, ServersAreDrivesOnce, Range
<1>4. \A s \in DOMAIN mUpnpDriveMap : PortOf[mUpnpPathMap'[mUpnpDriveMap[s]]] = s
  BY <1>2, <1>3 DEF ServersInv, ServersAreDrivesOnce
<1>5. /\ IsInjective(mUpnpDriveMap)' /\ Range(mUpnpDriveMap)' = mUpnpSessionData'
      /\ upnpId' \in Nat /\ mUpnpSessionData' \subseteq 1..upnpId'
  BY <1>1 DEF ServersInv, ServersAreDrivesOnce, IsInjective, Range
<1>6. ServersAreDrivesOnce'
  BY <1>1, <1>2, <1>4, <1>5 DEF ServersAreDrivesOnce
<1> QED BY <1>5, <1>6 DEF ServersInv

LEMMA ServersKept == ServersInv /\ [Next]_vars => ServersInv'
<1> SUFFICES ASSUME ServersInv, [Next]_vars PROVE ServersInv'
  OBVIOUS
<1>1. ASSUME NEW k \in Shares, Mount(k) PROVE ServersInv'
  BY <1>1, ServersSame DEF Mount, mountSambaServer, mountPointInUse,
     mountSambaServerRefuses, upnpVars
<1>2. ASSUME NEW d \in DriveIds, Eject(d) \/ setDriveDetails(d) PROVE ServersInv'
  BY <1>2, ServersSame DEF Eject, eject, ejectInvalidDrive, ejectUnmounted,
     setDriveDetails, upnpVars
<1>3. CASE setDriveDetailsReturns
  BY <1>3, ServersSame DEF setDriveDetailsReturns, upnpVars
<1>4. CASE Discover
  <2>1. CASE discoverReturns \/ \E found \in SUBSET Servers : discoverUPnPMediaServer(found)
    BY <2>1, ServersSame DEF discoverReturns, discoverUPnPMediaServer, upnpVars
  <2>2. ASSUME NEW u \in Servers, registerServer(u) PROVE ServersInv'
    BY <2>2, RegisteredOnce
  <2> QED BY <1>4, <2>1, <2>2 DEF Discover
<1>5. CASE listStoragesMethod
  BY <1>5, ListingKeepsServers
<1>6. CASE UNCHANGED vars \/ \E t \in Checkers : Check(t)
  BY <1>6, ServersSame DEF vars, Check, findDrive, comparePath, upnpVars
<1> QED BY <1>1, <1>2, <1>3, <1>4, <1>5, <1>6 DEF Next

LEMMA InitServers == Init => ServersInv
<1> SUFFICES ASSUME Init PROVE ServersInv
  OBVIOUS
<1>1. DOMAIN mUpnpDriveMap = {} /\ DOMAIN mUpnpPathMap = {}
  BY DEF Init
<1> QED BY <1>1 DEF Init, ServersInv, ServersAreDrivesOnce, IsInjective, Range

\* A media server is one drive, with one description, however often and under
\* however many URLs it is found.
THEOREM ServersRegisterOnce == Spec => []ServersAreDrivesOnce
<1>1. Init => ServersInv
  BY InitServers
<1>2. ServersInv => ServersAreDrivesOnce
  BY DEF ServersInv
<1> QED BY <1>1, <1>2, ServersKept, PTL DEF Spec

-----------------------------------------------------------------------------
(* Types, from the invariants above.                                       *)

LEMMA RangeOfPut ==
  ASSUME NEW f, NEW x, NEW y
  PROVE  /\ DOMAIN put(f, x, y) = DOMAIN f \cup {x}
         /\ Range(put(f, x, y)) \subseteq Range(f) \cup {y}
BY DEF put, Range

LEMMA RangeOfRestriction ==
  ASSUME NEW f, NEW D, D \subseteq DOMAIN f
  PROVE  /\ DOMAIN Restrict(f, D) = D
         /\ Range(Restrict(f, D)) \subseteq Range(f)
BY DEF Restrict, Range

\* The shares and what belongs to them.
SambaTyped ==
  /\ pc \in {"idle", "setDriveDetails", "eject", "discover"}
  /\ DOMAIN mSambaDriveMap \subseteq Shares
  /\ Range(mSambaDriveMap) \cup mSambaSessionData \cup DOMAIN mSambaPathMap
       \subseteq 1..sambaId
  /\ Range(mSambaPathMap) \subseteq Paths
  /\ mntpathmap \subseteq Paths
  /\ mounts \subseteq [path : Paths, share : Shares]
  /\ sambaId \in 0..MaxDrives

\* The utility's copy and the checks.
CopyTyped ==
  /\ Range(mSambaDrivePathMap) \subseteq Paths \cup {NoPath}
  /\ checking \in [Checkers -> 0..sambaId]
  /\ DOMAIN mSambaDrivePathMap \cup overtaken \subseteq 1..sambaId

LEMMA ClearTyped ==
  ASSUME sambaId \in Nat, sambaId' \in Nat, sambaId' >= sambaId, CopyTyped, clears
  PROVE  CopyTyped'
<1>1. 0..sambaId \subseteq 0..sambaId' /\ 0..sambaId \ {0} \subseteq 1..sambaId'
  OBVIOUS
<1>2. \A t \in Checkers : checking[t] \in 0..sambaId
  BY DEF CopyTyped
<1>3. checking' \in [Checkers -> 0..sambaId']
  <2>1. checking \in [Checkers -> 0..sambaId]
    BY DEF CopyTyped
  <2> QED BY <1>1, <2>1 DEF clears
<1>4. Range(checking) \subseteq 0..sambaId
  BY <1>2 DEF Range, CopyTyped
<1>5. overtaken' \subseteq 1..sambaId'
  BY <1>1, <1>4 DEF clears, NoDrive
<1>6. DOMAIN mSambaDrivePathMap' = {} /\ Range(mSambaDrivePathMap') = {}
  BY DEF clears, Range
<1> QED BY <1>3, <1>5, <1>6 DEF CopyTyped

\* The media servers.
UpnpTyped ==
  /\ upnpId \in 0..MaxDrives
  /\ DOMAIN mUpnpDriveMap \subseteq Ports
  /\ Range(mUpnpPathMap) \subseteq Servers
  /\ scanned \subseteq Servers

LEMMA MountTyped ==
  ASSUME SambaTyped, CopyTyped, NEW k \in Shares, Mount(k)
  PROVE  SambaTyped' /\ CopyTyped'
<1>1. ASSUME NEW stamp \in Stamps, mountSambaServer(k, <<HostOf[k], stamp>>)
      PROVE  SambaTyped' /\ CopyTyped'
  <2> DEFINE path == <<HostOf[k], stamp>>
             d == sambaId + 1
  <2>1. path \in Paths
    BY DEF Paths, Hosts
  <2>2. d \in 1..MaxDrives /\ 1..sambaId \subseteq 1..d /\ d \in 1..d
    BY <1>1, BoundAssumption DEF mountSambaServer, SambaTyped
  <2>3. /\ sambaId' = d /\ pc' = "setDriveDetails"
        /\ mSambaDriveMap' = put(mSambaDriveMap, k, d)
        /\ mSambaSessionData' = mSambaSessionData \cup {d}
        /\ mSambaPathMap' = put(mSambaPathMap, d, path)
        /\ mntpathmap' = mntpathmap \cup {path}
        /\ mounts' = mounts \cup {[path |-> path, share |-> k]}
    BY <1>1 DEF mountSambaServer
  <2>4. CopyTyped'
    BY <1>1, <2>3, ClearTyped DEF mountSambaServer, SambaTyped
  <2> HIDE DEF d, path
  <2>5. /\ DOMAIN mSambaDriveMap' = DOMAIN mSambaDriveMap \cup {k}
        /\ Range(mSambaDriveMap') \subseteq Range(mSambaDriveMap) \cup {d}
        /\ DOMAIN mSambaPathMap' = DOMAIN mSambaPathMap \cup {d}
        /\ Range(mSambaPathMap') \subseteq Range(mSambaPathMap) \cup {path}
    BY <2>3, RangeOfPut
  <2>6. [path |-> path, share |-> k] \in [path : Paths, share : Shares]
    BY <2>1
  <2> QED BY <2>1, <2>2, <2>3, <2>4, <2>5, <2>6 DEF SambaTyped
<1>2. CASE UNCHANGED <<pc, copyVars, sambaVars>>
  BY <1>2 DEF copyVars, sambaVars, SambaTyped, CopyTyped
<1> QED BY <1>1, <1>2 DEF Mount, mountPointInUse, mountSambaServerRefuses

LEMMA EjectTyped ==
  ASSUME SambaTyped, CopyTyped, NEW d, Eject(d)
  PROVE  SambaTyped' /\ CopyTyped'
<1>1. CASE eject(d)
  <2>1. /\ pc' \in {pc, "eject"} /\ mounts' \subseteq mounts
        /\ UNCHANGED <<mSambaSessionData, mSambaPathMap, mntpathmap, sambaId,
                       copyVars>>
    BY <1>1 DEF eject
  <2>2. /\ DOMAIN mSambaDriveMap' \subseteq DOMAIN mSambaDriveMap
        /\ Range(mSambaDriveMap') \subseteq Range(mSambaDriveMap)
    BY <1>1, RangeOfRestriction DEF eject
  <2> QED BY <2>1, <2>2 DEF SambaTyped, CopyTyped, copyVars
<1>2. CASE ejectInvalidDrive(d)
  BY <1>2 DEF ejectInvalidDrive, sambaVars, copyVars, SambaTyped, CopyTyped
<1>3. CASE ejectUnmounted(d)
  <2>1. /\ pc' = "setDriveDetails"
        /\ mSambaPathMap' = erase(mSambaPathMap, d)
        /\ mSambaSessionData' \subseteq mSambaSessionData
        /\ mntpathmap' \subseteq mntpathmap
        /\ UNCHANGED <<mSambaDriveMap, mounts, sambaId>>
    BY <1>3 DEF ejectUnmounted
  <2>2. CopyTyped'
    BY <1>3, <2>1, ClearTyped DEF ejectUnmounted, SambaTyped
  <2>3. /\ DOMAIN mSambaPathMap' \subseteq DOMAIN mSambaPathMap
        /\ Range(mSambaPathMap') \subseteq Range(mSambaPathMap)
    BY <2>1, RangeOfRestriction DEF erase
  <2> QED BY <2>1, <2>2, <2>3 DEF SambaTyped
<1> QED BY <1>1, <1>2, <1>3 DEF Eject

LEMMA RefreshTyped ==
  ASSUME SambaTyped, CopyTyped, NEW d, setDriveDetails(d)
  PROVE  SambaTyped' /\ CopyTyped'
<1>1. mSambaPathMap[d] \in Range(mSambaPathMap) /\ d \in DOMAIN mSambaPathMap
  BY DEF setDriveDetails, Range
<1>2. PICK path \in {NoPath, mSambaPathMap[d]} :
        mSambaDrivePathMap' = put(mSambaDrivePathMap, d, path)
  BY DEF setDriveDetails
<1>3. /\ DOMAIN mSambaDrivePathMap' = DOMAIN mSambaDrivePathMap \cup {d}
      /\ Range(mSambaDrivePathMap') \subseteq Range(mSambaDrivePathMap) \cup {path}
  BY <1>2, RangeOfPut
<1>4. UNCHANGED <<pc, checking, overtaken, sambaVars>>
  BY DEF setDriveDetails
<1>5. SambaTyped'
  BY <1>4 DEF SambaTyped, sambaVars
<1>6. d \in 1..sambaId /\ path \in Paths \cup {NoPath}
  BY <1>1, <1>2 DEF SambaTyped
<1>7. CopyTyped'
  BY <1>3, <1>4, <1>6 DEF CopyTyped, sambaVars
<1> QED BY <1>5, <1>7

LEMMA CheckTyped ==
  ASSUME SambaTyped, CopyTyped, NEW t \in Checkers, Check(t)
  PROVE  SambaTyped' /\ CopyTyped'
<1>1. UNCHANGED <<pc, overtaken, sambaVars>>
  BY DEF Check, findDrive, comparePath
<1>2. SambaTyped'
  BY <1>1 DEF SambaTyped, sambaVars
<1>3. sambaId \in Nat /\ sambaId' = sambaId
  BY <1>1 DEF SambaTyped, sambaVars
<1>4. ASSUME NEW d, findDrive(t, d) PROVE CopyTyped'
  <2>1. /\ d \in 0..sambaId /\ mSambaDrivePathMap' = mSambaDrivePathMap
        /\ checking' = [checking EXCEPT ![t] = d]
    BY <1>3, <1>4 DEF findDrive, CopyTyped
  <2>2. checking' \in [Checkers -> 0..sambaId]
    BY <2>1 DEF CopyTyped
  <2> QED BY <1>1, <1>3, <2>1, <2>2 DEF CopyTyped
<1>5. CASE comparePath(t)
  <2>1. checking' = [checking EXCEPT ![t] = NoDrive]
    BY <1>5 DEF comparePath
  <2>2. checking' \in [Checkers -> 0..sambaId]
    BY <1>3, <2>1 DEF CopyTyped, NoDrive
  <2>3. checking[t] \in 1..sambaId
    BY <1>3, <1>5 DEF CopyTyped, comparePath, NoDrive
  <2>4. /\ DOMAIN mSambaDrivePathMap' \subseteq DOMAIN mSambaDrivePathMap \cup {checking[t]}
        /\ Range(mSambaDrivePathMap') \subseteq Range(mSambaDrivePathMap) \cup {NoPath}
    <3>1. CASE mSambaDrivePathMap' = mSambaDrivePathMap
      BY <3>1
    <3>2. CASE mSambaDrivePathMap' = put(mSambaDrivePathMap, checking[t], NoPath)
      BY <3>2, RangeOfPut
    <3> QED BY <1>5, <3>1, <3>2 DEF comparePath
  <2>5. CopyTyped'
    BY <1>1, <1>3, <2>2, <2>3, <2>4 DEF CopyTyped
  <2> QED BY <1>2, <2>5
<1> QED BY <1>2, <1>4, <1>5 DEF Check

LEMMA ListingTyped ==
  ASSUME SambaTyped, CopyTyped, UpnpTyped, IInv, ServersInv, listStoragesMethod
  PROVE  SambaTyped' /\ CopyTyped' /\ UpnpTyped'
<1>1. /\ DOMAIN mSambaPathMap = mSambaSessionData
      /\ DOMAIN mUpnpPathMap = mUpnpSessionData
  BY DEF IInv, DrivesDistinct, ServersInv, ServersAreDrivesOnce
<1>2. /\ DOMAIN mSambaPathMap' = DOMAIN mSambaPathMap
      /\ \A d \in DOMAIN mSambaPathMap : mSambaPathMap'[d] = mSambaPathMap[d]
      /\ DOMAIN mUpnpPathMap' = DOMAIN mUpnpPathMap
      /\ \A d \in DOMAIN mUpnpPathMap : mUpnpPathMap'[d] = mUpnpPathMap[d]
  BY <1>1 DEF listStoragesMethod
<1>3. /\ Range(mSambaPathMap') = Range(mSambaPathMap)
      /\ Range(mUpnpPathMap') = Range(mUpnpPathMap)
  BY <1>2 DEF Range
<1> QED BY <1>2, <1>3
        DEF listStoragesMethod, copyVars, SambaTyped, CopyTyped, UpnpTyped

LEMMA DiscoverTyped ==
  ASSUME SambaTyped, CopyTyped, UpnpTyped, Discover
  PROVE  SambaTyped' /\ CopyTyped' /\ UpnpTyped'
<1>1. UNCHANGED <<copyVars, sambaVars>> /\ pc' \in {"idle", "discover"}
  BY DEF Discover, discoverUPnPMediaServer, registerServer, discoverReturns
<1>2. SambaTyped' /\ CopyTyped'
  BY <1>1 DEF SambaTyped, CopyTyped, sambaVars, copyVars
<1>3. ASSUME NEW u \in Servers, registerServer(u) PROVE UpnpTyped'
  <2>1. CASE UNCHANGED <<upnpId, mUpnpDriveMap, mUpnpSessionData, mUpnpPathMap>>
    BY <1>3, <2>1 DEF registerServer, UpnpTyped
  <2>2. CASE /\ upnpId < MaxDrives /\ upnpId' = upnpId + 1
             /\ mUpnpDriveMap' = put(mUpnpDriveMap, PortOf[u], upnpId + 1)
             /\ mUpnpPathMap' = put(mUpnpPathMap, upnpId + 1, u)
    <3>1. /\ DOMAIN mUpnpDriveMap' = DOMAIN mUpnpDriveMap \cup {PortOf[u]}
          /\ Range(mUpnpPathMap') \subseteq Range(mUpnpPathMap) \cup {u}
      BY <2>2, RangeOfPut
    <3>2. upnpId' \in 0..MaxDrives /\ PortOf[u] \in Ports
      BY <2>2, BoundAssumption DEF UpnpTyped, Ports
    <3> QED BY <1>3, <3>1, <3>2 DEF registerServer, UpnpTyped
  <2> QED BY <1>3, <2>1, <2>2 DEF registerServer
<1>4. CASE \E found \in SUBSET Servers : discoverUPnPMediaServer(found)
  BY <1>2, <1>4 DEF discoverUPnPMediaServer, UpnpTyped
<1>5. CASE discoverReturns
  BY <1>2, <1>5 DEF discoverReturns, upnpVars, UpnpTyped
<1> QED BY <1>2, <1>3, <1>4, <1>5 DEF Discover

\* The maps of the provider hold what their names say, and none of its own
\* paths is empty: the operator[] of listStorages finds every drive.
THEOREM TypeCorrect == Spec => []TypeOK
<1> DEFINE Typed == SambaTyped /\ CopyTyped /\ UpnpTyped
<1>1. Init => Typed
  <2> SUFFICES ASSUME Init PROVE Typed
    OBVIOUS
  <2>1. /\ DOMAIN mSambaDriveMap = {} /\ DOMAIN mSambaPathMap = {}
        /\ DOMAIN mSambaDrivePathMap = {} /\ DOMAIN mUpnpDriveMap = {}
        /\ DOMAIN mUpnpPathMap = {}
    BY DEF Init
  <2>2. /\ Range(mSambaDriveMap) = {} /\ Range(mSambaPathMap) = {}
        /\ Range(mSambaDrivePathMap) = {} /\ Range(mUpnpPathMap) = {}
    BY <2>1 DEF Range
  <2>3. checking \in [Checkers -> 0..sambaId]
    BY DEF Init, NoDrive
  <2> QED BY <2>1, <2>2, <2>3, BoundAssumption DEF Init, SambaTyped, CopyTyped, UpnpTyped
<1>2. IInv /\ ServersInv /\ Typed /\ [Next]_vars => Typed'
  <2> SUFFICES ASSUME IInv, ServersInv, Typed, [Next]_vars PROVE Typed'
    OBVIOUS
  <2>1. ASSUME NEW k \in Shares, Mount(k) PROVE Typed'
    <3>1. UNCHANGED upnpVars
      BY <2>1 DEF Mount, mountSambaServer, mountPointInUse, mountSambaServerRefuses
    <3> QED BY <2>1, <3>1, MountTyped DEF upnpVars, UpnpTyped
  <2>2. ASSUME NEW d \in DriveIds, Eject(d) PROVE Typed'
    <3>1. UNCHANGED upnpVars
      BY <2>2 DEF Eject, eject, ejectInvalidDrive, ejectUnmounted
    <3> QED BY <2>2, <3>1, EjectTyped DEF upnpVars, UpnpTyped
  <2>3. ASSUME NEW d \in DriveIds, setDriveDetails(d) PROVE Typed'
    BY <2>3, RefreshTyped DEF setDriveDetails, upnpVars, UpnpTyped
  <2>4. CASE setDriveDetailsReturns
    BY <2>4 DEF setDriveDetailsReturns, sambaVars, upnpVars, copyVars, SambaTyped,
                CopyTyped, UpnpTyped
  <2>5. CASE Discover \/ listStoragesMethod
    BY <2>5, DiscoverTyped, ListingTyped
  <2>6. CASE UNCHANGED vars
    BY <2>6 DEF vars, sambaVars, upnpVars, copyVars, SambaTyped, CopyTyped, UpnpTyped
  <2>7. ASSUME NEW t \in Checkers, Check(t) PROVE Typed'
    BY <2>7, CheckTyped DEF Check, findDrive, comparePath, upnpVars, UpnpTyped
  <2> QED BY <2>1, <2>2, <2>3, <2>4, <2>5, <2>6, <2>7 DEF Next
<1>3. Init => ServersInv
  BY InitServers
<1>4. Typed => TypeOK
  BY DEF SambaTyped, CopyTyped, UpnpTyped, TypeOK
<1> HIDE DEF Typed
<1> QED BY <1>1, <1>2, <1>3, <1>4, ServersKept, DrivesConsistent, PTL DEF Spec
=============================================================================
