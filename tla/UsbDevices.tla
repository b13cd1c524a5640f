------------------------------ MODULE UsbDevices ------------------------------
(***************************************************************************)
(* The device table of USBStorageProvider.  The main loop rebuilds it from *)
(* every device list of PDM; the USB dispatcher looks drives up in it, two *)
(* to four times in one request.  No lock orders the two threads, so the   *)
(* rebuilding is cut into the states a lookup can see, and a lookup that   *)
(* meets a rebuilding may also read freed memory and end the process.      *)
(***************************************************************************)
EXTENDS Naturals, Sequences, FiniteSets, Functions

CONSTANTS Lists,     \* device lists PDM may publish: serial -> device
          DriveIds,  \* ids of clients: [serial, uuid], uuid possibly NoUuid
          NoUuid,    \* the id has no "-" part
          NoDrive,   \* the destination of a copy is not a USB drive
          Null       \* deviceInfo between reset() and make_shared

Serials == UNION {DOMAIN l : l \in Lists}
Empty == <<>>
Tables == Lists \cup {Empty}
Drives == UNION {UNION {Range(l[s].drives) : s \in DOMAIN l} : l \in Lists}

ASSUME ListsAssumption ==
  \A l \in Lists : \A s \in DOMAIN l :
    /\ l[s].num \in Nat \ {0}
    /\ Len(l[s].drives) \in Nat /\ DOMAIN l[s].drives = 1..Len(l[s].drives)
    /\ \A i \in DOMAIN l[s].drives : l[s].drives[i].mounted \in BOOLEAN
\* A null pointer is no table, however far the table has been filled.
ASSUME NullAssumption ==
  \A l \in Tables : \A D \in SUBSET DOMAIN l : Null # [s \in D |-> l[s]]

FileOps == {"list", "remove", "rename"}
TransferOps == {"copy", "move"}

VARIABLES
  deviceInfo,  \* Null, or the table: serial -> device
  received,    \* the list the main loop received last
  loop,        \* the main loop: idle, in cleanDeviceInfo or populating
  request,     \* the request the USB dispatcher handles: [op, id, dest]
  todo,        \* the lookups that are left of it
  answer,      \* what came of it
  seen,        \* the lists in force while its lookups ran
  quiet        \* has no rebuilding overlapped them?

mainVars == <<deviceInfo, received, loop>>
usbVars  == <<request, todo, answer, seen, quiet>>
vars     == <<mainVars, usbVars>>

NoRequest == [op |-> "none", id |-> NoDrive, dest |-> NoDrive]
NoAnswer  == [kind |-> "none", num |-> 0, name |-> ""]
saying(kind) == [NoAnswer EXCEPT !.kind = kind]

-----------------------------------------------------------------------------
(* The lookups.                                                            *)

\* The drive an id stands for: of a device with one drive the uuid may be
\* left out, and the first drive with the uuid counts.
drivesNamed(t, id) ==
  IF id.serial \notin DOMAIN t THEN {}
  ELSE LET ds == t[id.serial].drives
       IN  IF id.uuid = NoUuid
           THEN IF Len(ds) = 1 THEN {ds[1]} ELSE {}
           ELSE {ds[k] : k \in {i \in DOMAIN ds :
                   /\ ds[i].uuid = id.uuid
                   /\ \A j \in 1..(i - 1) : ds[j].uuid # id.uuid}}

isStorageIdExists(t, id) == drivesNamed(t, id) # {}

\* Mutant: the first drive of the device, whatever the uuid.
isStorageDriveMounted_First(t, id) ==
  /\ id.serial \in DOMAIN t
  /\ t[id.serial].drives # <<>>
  /\ t[id.serial].drives[1].mounted

isStorageDriveMounted(t, id) == \E d \in drivesNamed(t, id) : d.mounted

\* Mutant: any device when the serial is not in the table.
getStorageNumber_Any(t, id) ==
  IF DOMAIN t = {} THEN 0
  ELSE t[IF id.serial \in DOMAIN t THEN id.serial ELSE CHOOSE s \in DOMAIN t : TRUE].num

getStorageNumber(t, id) ==
  IF id.serial \in DOMAIN t THEN t[id.serial].num ELSE 0

getDriveName(t, id) ==
  IF id.serial \notin DOMAIN t \/ t[id.serial].drives = <<>> THEN ""
  ELSE IF id.uuid = NoUuid /\ Len(t[id.serial].drives) > 1 THEN "UUID"
  ELSE IF drivesNamed(t, id) = {} THEN "NO SUB"
  ELSE (CHOOSE d \in drivesNamed(t, id) : TRUE).name

-----------------------------------------------------------------------------
(* The handlers of the USB dispatcher: which lookups, in which order.      *)

lookup(what, id) == [what |-> what, id |-> id]

begin(op, id, dest, lookups) ==
  /\ todo = <<>>
  /\ request' = [op |-> op, id |-> id, dest |-> dest]
  /\ todo' = lookups
  /\ answer' = NoAnswer
  /\ seen' = {received}
  /\ quiet' = (loop = "idle")
  /\ UNCHANGED mainVars

ejectMethod(id) ==
  begin("eject", id, NoDrive,
        <<lookup("exists", id), lookup("mounted", id), lookup("number", id)>>)

getPropertiesMethod(id) ==
  begin("properties", id, NoDrive,
        <<lookup("exists", id), lookup("mounted", id), lookup("name", id)>>)

onOneDrive(op, id) ==
  begin(op, id, NoDrive, <<lookup("exists", id), lookup("mounted", id)>>)

listFolderContentsMethod(id) == onOneDrive("list", id)
removeMethod(id)             == onOneDrive("remove", id)
renameMethod(id)             == onOneDrive("rename", id)

transfer(op, id, dest) ==
  begin(op, id, dest,
        IF dest = NoDrive THEN <<lookup("exists", id), lookup("mounted", id)>>
        ELSE <<lookup("exists", id), lookup("exists", dest),
               lookup("mounted", id), lookup("mounted", dest)>>)

copyMethod(id, dest) == transfer("copy", id, dest)
moveMethod(id, dest) == transfer("move", id, dest)

-----------------------------------------------------------------------------
(* One lookup.  With a null deviceInfo there is only lookupCrashes.        *)

looksUp(what) ==
  /\ todo # <<>>
  /\ Head(todo).what = what
  /\ deviceInfo # Null
  /\ UNCHANGED <<mainVars, request, seen, quiet>>

refuse(kind) == todo' = <<>> /\ answer' = saying(kind)

\* The last lookup has passed: the file operation is carried out.
proceed ==
  /\ todo' = Tail(todo)
  /\ answer' = IF Len(todo) = 1 THEN saying("operated") ELSE answer

checkExists ==
  /\ looksUp("exists")
  /\ IF isStorageIdExists(deviceInfo, Head(todo).id) THEN proceed
     ELSE refuse("USB_STORAGE_NOT_EXISTS")

checkMounted ==
  /\ looksUp("mounted")
  /\ IF isStorageDriveMounted(deviceInfo, Head(todo).id) THEN proceed
     ELSE refuse(IF request.op = "eject" THEN "USB_DRIVE_ALREADY_EJECTED"
                 ELSE "DRIVE_NOT_MOUNTED")

\* The eject call to PDM.
sendEject ==
  /\ looksUp("number")
  /\ todo' = <<>>
  /\ answer' = [saying("ejecting")
                  EXCEPT !.num = getStorageNumber(deviceInfo, Head(todo).id)]

\* The properties of the drive, from PDM or, with a path, from the files.
askProperties ==
  /\ looksUp("name")
  /\ todo' = <<>>
  /\ LET name == getDriveName(deviceInfo, Head(todo).id)
     IN  answer' = CASE name = "UUID"   -> saying("MORE_PARTITIONS_IN_USB")
                     [] name = "NO SUB" -> saying("USB_SUB_STORAGE_NOT_EXISTS")
                     [] OTHER -> [saying("asking") EXCEPT !.name = name]

\* A lookup through a pointer that the main loop is replacing: the process
\* ends and is started anew, the request is lost with it.
lookupCrashes ==
  /\ todo # <<>>
  /\ loop # "idle"
  /\ deviceInfo' = Empty /\ received' = Empty /\ loop' = "idle"
  /\ request' = NoRequest /\ todo' = <<>> /\ answer' = NoAnswer
  /\ seen' = {Empty} /\ quiet' = TRUE

-----------------------------------------------------------------------------
(* onListStoragesMethodReply on the main loop.                             *)

\* For the properties: a list that arrives while a request is handled.
overtakes(l) == IF todo = <<>> THEN UNCHANGED <<seen, quiet>>
                ELSE seen' = seen \cup {l} /\ quiet' = FALSE

\* Mutant: the table is extended and never cleaned.
cleanDeviceInfo_Keeps(l) ==
  /\ loop = "idle"
  /\ received' = l
  /\ loop' = "populate"
  /\ overtakes(l)
  /\ UNCHANGED <<deviceInfo, request, todo, answer>>

\* deviceInfo.reset() frees the old table.
cleanDeviceInfo(l) ==
  /\ loop = "idle"
  /\ deviceInfo' = Null
  /\ received' = l
  /\ loop' = "clean"
  /\ overtakes(l)
  /\ UNCHANGED <<request, todo, answer>>

newDeviceInfo ==
  /\ loop = "clean"
  /\ deviceInfo' = Empty
  /\ loop' = "populate"
  /\ UNCHANGED <<received, usbVars>>

populateDeviceInfo(s) ==
  /\ loop = "populate"
  /\ s \in DOMAIN received \ DOMAIN deviceInfo
  /\ deviceInfo' = [x \in DOMAIN deviceInfo \cup {s} |->
                      IF x = s THEN received[s] ELSE deviceInfo[x]]
  /\ UNCHANGED <<received, loop, usbVars>>

populated ==
  /\ loop = "populate"
  /\ DOMAIN received \subseteq DOMAIN deviceInfo
  /\ loop' = "idle"
  /\ UNCHANGED <<deviceInfo, received, usbVars>>

-----------------------------------------------------------------------------
Init ==
  /\ deviceInfo = Empty /\ received = Empty /\ loop = "idle"
  /\ request = NoRequest /\ todo = <<>> /\ answer = NoAnswer
  /\ seen = {Empty} /\ quiet = TRUE

Request ==
  \E id \in DriveIds :
    \/ ejectMethod(id) \/ getPropertiesMethod(id)
    \/ listFolderContentsMethod(id) \/ removeMethod(id) \/ renameMethod(id)
    \/ \E dest \in DriveIds \cup {NoDrive} :
         copyMethod(id, dest) \/ moveMethod(id, dest)

Lookup == checkExists \/ checkMounted \/ sendEject \/ askProperties

Rebuild == \/ \E l \in Lists : cleanDeviceInfo(l)
           \/ newDeviceInfo
           \/ \E s \in Serials : populateDeviceInfo(s)
           \/ populated

Next == Request \/ Lookup \/ lookupCrashes \/ Rebuild

Spec == Init /\ [][Next]_vars
-----------------------------------------------------------------------------
(* Properties.                                                             *)

\* The table is null only inside cleanDeviceInfo, and otherwise holds devices
\* of the list received last, all of them once the main loop is done.
TypeOK ==
  /\ received \in Tables
  /\ loop \in {"idle", "clean", "populate"}
  /\ deviceInfo = Null <=> loop = "clean"
  /\ loop # "clean" =>
       /\ DOMAIN deviceInfo \subseteq DOMAIN received
       /\ \A s \in DOMAIN deviceInfo : deviceInfo[s] = received[s]
  /\ loop = "idle" => DOMAIN deviceInfo = DOMAIN received
  /\ seen \subseteq Tables
  /\ quiet \in BOOLEAN

drivesOf(r) == {r.id} \cup (IF r.dest = NoDrive THEN {} ELSE {r.dest})

\* Nothing is carried out on a drive that was not mounted: each drive of a
\* request that got past its lookups is mounted in a list that was in force
\* while the request was handled, however often the table was replaced in
\* between.
OperatesOnMounted ==
  answer.kind \in {"operated", "ejecting", "asking"} =>
    \A id \in drivesOf(request) :
      \E l \in seen : isStorageDriveMounted(l, id)

\* An eject reaches no other device: PDM is given the number that a list in
\* force during the request has for the client's device, or, when the third
\* lookup missed it, 0.
EjectsThatDevice ==
  answer.kind = "ejecting" =>
    \/ answer.num = 0
    \/ \E l \in seen :
         request.id.serial \in DOMAIN l /\ answer.num = l[request.id.serial].num

\* Of all drives of the device, the one and only drive or, of those with the
\* uuid of the id, the one PDM lists first.
isNamed(l, id, d) ==
  /\ id.serial \in DOMAIN l
  /\ \E i \in DOMAIN l[id.serial].drives :
       /\ d = l[id.serial].drives[i]
       /\ id.uuid \in {NoUuid, d.uuid}
       /\ \A j \in 1..(i - 1) : l[id.serial].drives[j].uuid # id.uuid
       /\ id.uuid = NoUuid => Len(l[id.serial].drives) = 1

exists(l, id) == \E d \in Drives : isNamed(l, id, d)
mounted(l, id) == \E d \in Drives : isNamed(l, id, d) /\ d.mounted

\* When no list arrives during a request, its lookups agree with each other
\* and with the list: a drive is refused as missing, or as not mounted, if
\* and only if it is, and PDM is asked about the client's own drive.
QuietAnswersExact ==
  quiet /\ answer.kind # "none" =>
    \A l \in seen :
      /\ (answer.kind = "USB_STORAGE_NOT_EXISTS")
           <=> (\E id \in drivesOf(request) : ~exists(l, id))
      /\ (answer.kind \in {"DRIVE_NOT_MOUNTED", "USB_DRIVE_ALREADY_EJECTED"})
           <=> /\ \A id \in drivesOf(request) : exists(l, id)
               /\ \E id \in drivesOf(request) : ~mounted(l, id)
      /\ answer.kind = "ejecting" => answer.num = l[request.id.serial].num
      /\ answer.kind = "asking" =>
           \E d \in Drives : isNamed(l, request.id, d) /\ d.name = answer.name

\* "No USB Storage Exists with ID given": a request that a new list overtook
\* hears it only of a drive that the old or the new list lacks.
NotExistsIsTrue ==
  answer.kind = "USB_STORAGE_NOT_EXISTS" /\ Cardinality(seen) > 1 =>
    \E id \in drivesOf(request), l \in seen : ~exists(l, id)

-----------------------------------------------------------------------------
(* What the code's own texts say and the code does not meet: violated when  *)
(* added to the configuration of a run.  README, section 3.                 *)

\* "USB Storage has more partitions" is what getProperties says of a device
\* with several partitions when the client names none of them.
MorePartitionsSaid ==
  quiet /\ answer.kind # "none" /\ request.op = "properties" =>
    \A l \in seen :
      /\ request.id.uuid = NoUuid
      /\ request.id.serial \in DOMAIN l
      /\ Len(l[request.id.serial].drives) > 1
      => answer.kind = "MORE_PARTITIONS_IN_USB"
=============================================================================
