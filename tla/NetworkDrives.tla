---------------------------- MODULE NetworkDrives ----------------------------
(***************************************************************************)
(* The drives of NetworkProvider: Samba shares it mounts and unmounts, and *)
(* the UPnP media servers it has discovered.                               *)
(*                                                                         *)
(* All the maps belong to the network dispatcher thread, except            *)
(* mSambaDrivePathMap: SAFUtilityOperation keeps that copy of the drive    *)
(* paths for validateSambaPath, by which the other dispatchers check the   *)
(* paths of their copies and moves.  There is no lock: the network thread  *)
(* clears and refills the copy between the find and the operator[] of a    *)
(* check, and that operator[] is a writer too.  The steps of all threads   *)
(* are cut where they can tell.  The session of every request is "root",   *)
(* so a session map is the set of its drive ids.                           *)
(***************************************************************************)
EXTENDS Naturals, FiniteSets, Functions

CONSTANTS Shares,     \* ip_userName_sharePath, the unique keys of shares
          HostOf,     \* [Shares -> hosts]
          Stamps,     \* time stamps of mount points: they repeat every day
          Servers,    \* description URLs of UPnP media servers
          PortOf,     \* [Servers -> ip_port, the unique key of a server]
          Checkers,   \* the dispatchers other than the network's
          MaxDrives,  \* bound: drive ids of each kind
          NoPath      \* the empty string

ASSUME HostAssumption == DOMAIN HostOf = Shares /\ DOMAIN PortOf = Servers
ASSUME BoundAssumption == MaxDrives \in Nat

VARIABLES
  pc,                  \* the network thread: idle, or inside which call
  mSambaDriveMap,      \* share -> drive id
  mSambaSessionData,   \* the drive ids validateSambaOperation accepts
  mSambaPathMap,       \* drive id -> mount point
  mntpathmap,          \* the mount points in use
  mSambaDrivePathMap,  \* SAFUtilityOperation's copy of mSambaPathMap
  checking,            \* the drive a check has found and not yet compared with
  overtaken,           \* history: drives being checked at the last clear
  mounts,              \* the kernel: shares mounted for the service
  sambaId,             \* the static counter of generateUniqueSambaDriveId
  mUpnpDriveMap, mUpnpSessionData, mUpnpPathMap, upnpId,
  scanned,             \* servers of a scan that are not registered yet
  reply                \* the answer to the last mount, eject or listing

sambaVars == <<mSambaDriveMap, mSambaSessionData, mSambaPathMap, mntpathmap,
               mounts, sambaId>>
upnpVars  == <<mUpnpDriveMap, mUpnpSessionData, mUpnpPathMap, upnpId, scanned>>
copyVars  == <<mSambaDrivePathMap, checking, overtaken>>
vars == <<pc, reply, copyVars, sambaVars, upnpVars>>

Hosts == {HostOf[k] : k \in Shares}
Paths == Hosts \X Stamps
Ports == {PortOf[u] : u \in Servers}
DriveIds == 1..MaxDrives
NoDrive == 0

ASSUME NoPathAssumption == NoPath \notin Paths \cup Servers

put(f, x, y) == [z \in DOMAIN f \cup {x} |-> IF z = x THEN y ELSE f[z]]
erase(f, x) == Restrict(f, DOMAIN f \ {x})
answer(op, what, ok) == [op |-> op, what |-> what, ok |-> ok]

-----------------------------------------------------------------------------
(* Samba.                                                                  *)

validateSambaOperation(d) == d \in mSambaSessionData

\* setDriveDetails begins.
clears ==
  /\ mSambaDrivePathMap' = <<>>
  /\ overtaken' = Range(checking) \ {NoDrive}
  /\ UNCHANGED checking

\* Mutant: the mount point is used without a look at mntpathmap.
mountSambaServer_NoPathCheck(k, path) ==
  /\ pc = "idle"
  /\ k \notin DOMAIN mSambaDriveMap
  /\ sambaId < MaxDrives
  /\ LET d == sambaId + 1 IN
       /\ sambaId' = d
       /\ mSambaDriveMap' = put(mSambaDriveMap, k, d)
       /\ mSambaSessionData' = mSambaSessionData \cup {d}
       /\ mSambaPathMap' = put(mSambaPathMap, d, path)
       /\ mntpathmap' = mntpathmap \cup {path}
       /\ mounts' = mounts \cup {[path |-> path, share |-> k]}
  /\ clears
  /\ reply' = answer("mount", k, TRUE)
  /\ pc' = "setDriveDetails"
  /\ UNCHANGED upnpVars

\* mount(2) succeeds.
mountSambaServer(k, path) ==
  /\ pc = "idle"
  /\ k \notin DOMAIN mSambaDriveMap
  /\ path \notin mntpathmap
  /\ sambaId < MaxDrives
  /\ LET d == sambaId + 1 IN
       /\ sambaId' = d
       /\ mSambaDriveMap' = put(mSambaDriveMap, k, d)
       /\ mSambaSessionData' = mSambaSessionData \cup {d}
       /\ mSambaPathMap' = put(mSambaPathMap, d, path)
       /\ mntpathmap' = mntpathmap \cup {path}
       /\ mounts' = mounts \cup {[path |-> path, share |-> k]}
  /\ clears
  /\ reply' = answer("mount", k, TRUE)
  /\ pc' = "setDriveDetails"
  /\ UNCHANGED upnpVars

\* The refusals: a parameter is missing, the share is already mounted, the
\* directory cannot be made, or mount(2) fails.
mountSambaServerRefuses(k) ==
  /\ pc = "idle"
  /\ reply' = answer("mount", k, FALSE)
  /\ UNCHANGED <<pc, copyVars, sambaVars, upnpVars>>

\* The mount point is in use: nothing is mounted and the answer is a success.
mountPointInUse(k, path) ==
  /\ pc = "idle"
  /\ k \notin DOMAIN mSambaDriveMap
  /\ path \in mntpathmap
  /\ reply' = answer("mount", k, TRUE)
  /\ UNCHANGED <<pc, copyVars, sambaVars, upnpVars>>

\* One entry of the loop, in any order: operator[] inserts an empty path if
\* there is no entry, and the path is assigned.  A check may have inserted it.
setDriveDetails(d) ==
  /\ pc = "setDriveDetails"
  /\ d \in DOMAIN mSambaPathMap
  /\ \/ /\ d \notin DOMAIN mSambaDrivePathMap
        /\ mSambaDrivePathMap' = put(mSambaDrivePathMap, d, NoPath)
     \/ /\ d \in DOMAIN mSambaDrivePathMap
        /\ mSambaDrivePathMap[d] # mSambaPathMap[d]
        /\ mSambaDrivePathMap' = put(mSambaDrivePathMap, d, mSambaPathMap[d])
  /\ UNCHANGED <<pc, checking, overtaken, reply, sambaVars, upnpVars>>

setDriveDetailsReturns ==
  /\ pc = "setDriveDetails"
  /\ \A d \in DOMAIN mSambaPathMap :
       d \in DOMAIN mSambaDrivePathMap /\ mSambaDrivePathMap[d] = mSambaPathMap[d]
  /\ pc' = "idle"
  /\ UNCHANGED <<copyVars, reply, sambaVars, upnpVars>>

\* validateSambaPath on another dispatcher: find.  A drive that is not there
\* is refused at once.
findDrive(t, d) ==
  /\ checking[t] = NoDrive
  /\ d \in DOMAIN mSambaDrivePathMap
  /\ checking' = [checking EXCEPT ![t] = d]
  /\ UNCHANGED <<pc, mSambaDrivePathMap, overtaken, reply, sambaVars, upnpVars>>

\* Then operator[], which inserts an empty path if the entry has gone.  Every
\* path begins with an empty one.
comparePath(t) ==
  /\ checking[t] # NoDrive
  /\ IF checking[t] \in DOMAIN mSambaDrivePathMap THEN UNCHANGED mSambaDrivePathMap
     ELSE mSambaDrivePathMap' = put(mSambaDrivePathMap, checking[t], NoPath)
  /\ checking' = [checking EXCEPT ![t] = NoDrive]
  /\ UNCHANGED <<pc, overtaken, reply, sambaVars, upnpVars>>

\* Mutant: the share's key is kept.
eject_KeepsKey(d) ==
  /\ pc = "idle"
  /\ validateSambaOperation(d)
  /\ \/ /\ d \in DOMAIN mSambaPathMap
        /\ mounts' = {m \in mounts : m.path # mSambaPathMap[d]}
        /\ pc' = "eject"
        /\ reply' = answer("eject", d, TRUE)
     \/ /\ reply' = answer("eject", d, FALSE)
        /\ UNCHANGED <<pc, mounts>>
  /\ UNCHANGED <<mSambaDriveMap, mSambaSessionData, mSambaPathMap, mntpathmap,
                 sambaId, copyVars, upnpVars>>

\* The share's key is freed first, then the kernel is asked.
eject(d) ==
  /\ pc = "idle"
  /\ validateSambaOperation(d)
  /\ mSambaDriveMap' =
       Restrict(mSambaDriveMap, {k \in DOMAIN mSambaDriveMap : mSambaDriveMap[k] # d})
  /\ \/ /\ d \in DOMAIN mSambaPathMap
        /\ mounts' = {m \in mounts : m.path # mSambaPathMap[d]}
        /\ pc' = "eject"
        /\ reply' = answer("eject", d, TRUE)
     \/ \* umount2 fails, or there is no mount point to hand to it
        /\ reply' = answer("eject", d, FALSE)
        /\ UNCHANGED <<pc, mounts>>
  /\ UNCHANGED <<mSambaSessionData, mSambaPathMap, mntpathmap, sambaId,
                 copyVars, upnpVars>>

ejectInvalidDrive(d) ==
  /\ pc = "idle"
  /\ ~validateSambaOperation(d)
  /\ reply' = answer("eject", d, FALSE)
  /\ UNCHANGED <<pc, copyVars, sambaVars, upnpVars>>

\* Mutant: the utility's copy is not refreshed.
ejectUnmounted_NoRefresh(d) ==
  /\ pc = "eject"
  /\ d = reply.what
  /\ mntpathmap' = mntpathmap \ {mSambaPathMap[d]}
  /\ mSambaSessionData' = mSambaSessionData \ {d}
  /\ mSambaPathMap' = erase(mSambaPathMap, d)
  /\ pc' = "idle"
  /\ UNCHANGED <<mSambaDriveMap, mounts, sambaId, copyVars, reply,
                 upnpVars>>

\* After umount2: the maps, and setDriveDetails again.
ejectUnmounted(d) ==
  /\ pc = "eject"
  /\ d = reply.what
  /\ mntpathmap' = mntpathmap \ {mSambaPathMap[d]}
  /\ mSambaSessionData' = mSambaSessionData \ {d}
  /\ mSambaPathMap' = erase(mSambaPathMap, d)
  /\ clears
  /\ pc' = "setDriveDetails"
  /\ UNCHANGED <<mSambaDriveMap, mounts, sambaId, reply, upnpVars>>

-----------------------------------------------------------------------------
(* UPnP.                                                                   *)

discoverUPnPMediaServer(found) ==
  /\ pc = "idle"
  /\ scanned' = found
  /\ pc' = "discover"
  /\ UNCHANGED <<copyVars, reply, sambaVars, mUpnpDriveMap,
                 mUpnpSessionData, mUpnpPathMap, upnpId>>

\* Mutant: every answer of a server makes a drive.
registerServer_Always(u) ==
  /\ pc = "discover"
  /\ u \in scanned
  /\ upnpId < MaxDrives
  /\ upnpId' = upnpId + 1
  /\ mUpnpDriveMap' = put(mUpnpDriveMap, PortOf[u], upnpId + 1)
  /\ mUpnpSessionData' = mUpnpSessionData \cup {upnpId + 1}
  /\ mUpnpPathMap' = put(mUpnpPathMap, upnpId + 1, u)
  /\ scanned' = scanned \ {u}
  /\ UNCHANGED <<pc, copyVars, reply, sambaVars>>

\* Mutant: the key of the server where its description URL is meant.
registerServer_Key(u) ==
  /\ pc = "discover"
  /\ u \in scanned
  /\ PortOf[u] \notin DOMAIN mUpnpDriveMap
  /\ upnpId < MaxDrives
  /\ upnpId' = upnpId + 1
  /\ mUpnpDriveMap' = put(mUpnpDriveMap, PortOf[u], upnpId + 1)
  /\ mUpnpSessionData' = mUpnpSessionData \cup {upnpId + 1}
  /\ mUpnpPathMap' = put(mUpnpPathMap, upnpId + 1, PortOf[u])
  /\ scanned' = scanned \ {u}
  /\ UNCHANGED <<pc, copyVars, reply, sambaVars>>

registerServer(u) ==
  /\ pc = "discover"
  /\ u \in scanned
  /\ scanned' = scanned \ {u}
  /\ \/ /\ PortOf[u] \notin DOMAIN mUpnpDriveMap
        /\ upnpId < MaxDrives
        /\ upnpId' = upnpId + 1
        /\ mUpnpDriveMap' = put(mUpnpDriveMap, PortOf[u], upnpId + 1)
        /\ mUpnpSessionData' = mUpnpSessionData \cup {upnpId + 1}
        /\ mUpnpPathMap' = put(mUpnpPathMap, upnpId + 1, u)
     \/ /\ PortOf[u] \in DOMAIN mUpnpDriveMap
        /\ UNCHANGED <<upnpId, mUpnpDriveMap, mUpnpSessionData, mUpnpPathMap>>
  /\ UNCHANGED <<pc, copyVars, reply, sambaVars>>

discoverReturns ==
  /\ pc = "discover"
  /\ scanned = {}
  /\ pc' = "idle"
  /\ UNCHANGED <<copyVars, reply, sambaVars, upnpVars>>

\* operator[] of the path maps adds an empty path for a drive they lack.
listStoragesMethod ==
  /\ pc = "idle"
  /\ mSambaPathMap' = [d \in DOMAIN mSambaPathMap \cup mSambaSessionData |->
                         IF d \in DOMAIN mSambaPathMap THEN mSambaPathMap[d]
                         ELSE NoPath]
  /\ mUpnpPathMap' = [d \in DOMAIN mUpnpPathMap \cup mUpnpSessionData |->
                        IF d \in DOMAIN mUpnpPathMap THEN mUpnpPathMap[d]
                        ELSE NoPath]
  /\ reply' = answer("list", Range(mSambaPathMap'), TRUE)
  /\ UNCHANGED <<pc, mSambaDriveMap, mSambaSessionData, mntpathmap, mounts,
                 sambaId, copyVars, mUpnpDriveMap, mUpnpSessionData,
                 upnpId, scanned>>

-----------------------------------------------------------------------------
Init ==
  /\ pc = "idle"
  /\ mSambaDriveMap = <<>> /\ mSambaSessionData = {} /\ mSambaPathMap = <<>>
  /\ mntpathmap = {} /\ mSambaDrivePathMap = <<>> /\ mounts = {}
  /\ checking = [t \in Checkers |-> NoDrive] /\ overtaken = {}
  /\ sambaId = 0 /\ upnpId = 0
  /\ mUpnpDriveMap = <<>> /\ mUpnpSessionData = {} /\ mUpnpPathMap = <<>>
  /\ scanned = {}
  /\ reply = answer("none", 0, FALSE)

Mount(k) == \/ \E stamp \in Stamps : LET path == <<HostOf[k], stamp>>
                                     IN  \/ mountSambaServer(k, path)
                                         \/ mountPointInUse(k, path)
            \/ mountSambaServerRefuses(k)

Eject(d) == eject(d) \/ ejectInvalidDrive(d) \/ ejectUnmounted(d)

Check(t) == (\E d \in DriveIds : findDrive(t, d)) \/ comparePath(t)

Discover == \/ \E found \in SUBSET Servers : discoverUPnPMediaServer(found)
            \/ \E u \in Servers : registerServer(u)
            \/ discoverReturns

Next ==
  \/ \E k \in Shares : Mount(k)
  \/ \E d \in DriveIds : Eject(d) \/ setDriveDetails(d)
  \/ setDriveDetailsReturns
  \/ \E t \in Checkers : Check(t)
  \/ Discover
  \/ listStoragesMethod

Spec == Init /\ [][Next]_vars
-----------------------------------------------------------------------------
(* Properties.                                                             *)

\* The types of the maps: partial functions between keys, drive ids and
\* mount points or URLs.
TypeOK ==
  /\ pc \in {"idle", "setDriveDetails", "eject", "discover"}
  /\ DOMAIN mSambaDriveMap \subseteq Shares
  /\ Range(mSambaDriveMap) \cup mSambaSessionData \cup DOMAIN mSambaPathMap
       \subseteq 1..sambaId
  /\ Range(mSambaPathMap) \subseteq Paths
  /\ Range(mSambaDrivePathMap) \subseteq Paths \cup {NoPath}
  /\ checking \in [Checkers -> 0..sambaId]
  /\ DOMAIN mSambaDrivePathMap \cup overtaken \subseteq 1..sambaId
  /\ mntpathmap \subseteq Paths
  /\ mounts \subseteq [path : Paths, share : Shares]
  /\ sambaId \in 0..MaxDrives /\ upnpId \in 0..MaxDrives
  /\ DOMAIN mUpnpDriveMap \subseteq Ports
  /\ Range(mUpnpPathMap) \subseteq Servers
  /\ scanned \subseteq Servers

mountPointOf(d) == mSambaPathMap[d]
isMounted(path) == \E m \in mounts : m.path = path
beingEjected == IF pc = "eject" THEN {reply.what} ELSE {}

\* Every share the kernel has mounted for the service belongs to exactly one
\* drive that eject still accepts, and every drive has its mount: no sequence
\* of mounts, refused mounts and failed ejects leaves a mount that no client
\* can get rid of, or a drive without one.
MountsHaveDrives ==
  /\ DOMAIN mSambaPathMap = mSambaSessionData
  /\ IsInjective(mSambaPathMap)
  /\ {m.path : m \in mounts} =
       {mountPointOf(d) : d \in mSambaSessionData \ beingEjected}
  /\ \A m, n \in mounts : m.path = n.path => m = n

\* The mount point that a check of the drive compares the path with.
comparesWithMount(d) ==
  d \in DOMAIN mSambaDrivePathMap /\ mSambaDrivePathMap[d] # NoPath

\* What a check of another dispatcher meets in mSambaDrivePathMap, at whatever
\* moment of a mount, an eject or another check: the empty path or the drive's
\* own mount point, never one of before or of another drive, and it is mounted
\* unless it is just being ejected.  While the network thread is not inside
\* setDriveDetails every drive has its mount point there, and an entry besides
\* is of a drive that was being checked when the copy was last cleared.
DestinationCheckSound ==
  /\ \A d \in DOMAIN mSambaDrivePathMap : comparesWithMount(d) =>
       /\ d \in DOMAIN mSambaPathMap
       /\ mSambaDrivePathMap[d] = mountPointOf(d)
       /\ d \notin beingEjected => isMounted(mSambaDrivePathMap[d])
  /\ pc # "setDriveDetails" =>
       /\ \A d \in mSambaSessionData : comparesWithMount(d)
       /\ DOMAIN mSambaDrivePathMap \subseteq mSambaSessionData \cup overtaken

\* A share that mountSambaServer refuses as already mounted is mounted, and a
\* drive the client can eject stands for it.
RefusedShareIsMounted ==
  \A k \in DOMAIN mSambaDriveMap :
    LET d == mSambaDriveMap[k]
    IN  /\ validateSambaOperation(d)
        /\ [path |-> mountPointOf(d), share |-> k] \in mounts

\* What eject answered is so.  After a success nothing is left of the drive in
\* the provider and no check knows its mount point; the utility's copy has the
\* id, with an empty path, only if it was being checked when it was cleared.
\* A drive whose eject failed still works everywhere.
EjectAnswerTrue ==
  pc = "idle" /\ reply.op = "eject" =>
    LET d == reply.what
    IN  IF reply.ok
        THEN /\ d \notin mSambaSessionData \cup DOMAIN mSambaPathMap
                           \cup Range(mSambaDriveMap)
             /\ ~comparesWithMount(d)
             /\ d \in DOMAIN mSambaDrivePathMap => d \in overtaken
        ELSE d \in mSambaSessionData =>
               /\ d \in DOMAIN mSambaDrivePathMap
               /\ mSambaDrivePathMap[d] = mountPointOf(d)
               /\ isMounted(mountPointOf(d))

\* A media server is one drive however often, and under however many
\* description URLs, scans report it, and each drive has one description.
ServersAreDrivesOnce ==
  /\ IsInjective(mUpnpDriveMap)
  /\ Range(mUpnpDriveMap) = mUpnpSessionData
  /\ DOMAIN mUpnpPathMap = mUpnpSessionData
  /\ \A s \in DOMAIN mUpnpDriveMap : PortOf[mUpnpPathMap[mUpnpDriveMap[s]]] = s

-----------------------------------------------------------------------------
(* What the code's own texts say and the code does not meet: violated when  *)
(* added to the configuration of a run.  README, section 3.                 *)

\* mountSambaServer answers "Already Mounted " for a share that is mounted:
\* no share is mounted at two mount points.
MountedOnce == \A m, n \in mounts : m.share = n.share => m = n

\* "No such file or directory at destination" is the answer of a check to a
\* path that is not on the drive: every entry is of a drive that is there, with
\* its mount point.  The empty path lets a check accept every path that exists.
ChecksAreOfDrives ==
  \A d \in DOMAIN mSambaDrivePathMap :
    d \in mSambaSessionData /\ mSambaDrivePathMap[d] = mountPointOf(d)

\* The same once an eject is answered: a check refuses the ejected drive.
EjectedDrivesAreRefused ==
  pc = "idle" /\ reply.op = "eject" /\ reply.ok =>
    reply.what \notin DOMAIN mSambaDrivePathMap
=============================================================================
