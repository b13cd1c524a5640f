--------------------------- MODULE UsbDevicesProofs ---------------------------
(***************************************************************************)
(* Theorems about UsbDevices, for every set of device lists, every set of  *)
(* ids and any number of lists that arrive during one request: no drive is *)
(* worked on that was never mounted, an eject hands over its own device,   *)
(* and the answer of a request that no list overtakes is exact.            *)
(***************************************************************************)
EXTENDS UsbDevices, TLAPS

Lookups == [what : {"exists", "mounted", "number", "name"},
            id : DriveIds \cup {NoDrive}]

\* Between two requests nothing is left to look up, and the two lookups that
\* end a request come last and are about its own drive.
TodoInv ==
  /\ todo \in Seq(Lookups)
  /\ request.op = "none" => todo = <<>> /\ answer.kind = "none"
  /\ answer.kind # "none" => todo = <<>>
  /\ \A i \in DOMAIN todo :
       todo[i].what \in {"number", "name"} =>
         i = Len(todo) /\ todo[i].id = request.id

\* What a lookup meets is in force during its request.
SeenInv == todo # <<>> => received \in seen

\* A request that has not been refused has found each of its drives mounted
\* in a list in force during it, or is still to look.
awaited(id) == \E i \in DOMAIN todo : todo[i] = lookup("mounted", id)
found(id) == \E l \in seen : isStorageDriveMounted(l, id)

Going == {"none", "operated", "ejecting", "asking"}

DrivesChecked ==
  request.op # "none" /\ answer.kind \in Going =>
    \A id \in drivesOf(request) : awaited(id) \/ found(id)

IInv == /\ TypeOK /\ TodoInv /\ SeenInv /\ DrivesChecked
        /\ EjectsThatDevice

-----------------------------------------------------------------------------
(* The table.                                                              *)

LEMMA InitTyped == Init => TypeOK
<1> SUFFICES ASSUME Init PROVE TypeOK
  OBVIOUS
<1>1. Empty \in Tables /\ DOMAIN Empty = {}
  BY DEF Tables, Empty
<1>2. Null # [s \in {} |-> Empty[s]]
  BY <1>1, NullAssumption
<1>3. [s \in {} |-> Empty[s]] = Empty
  BY DEF Empty
<1> QED BY <1>1, <1>2, <1>3 DEF Init, TypeOK

\* A lookup leaves the table and the lists as they are.
LEMMA TypeKept ==
  ASSUME TypeOK, UNCHANGED mainVars, seen' \subseteq Tables, quiet' \in BOOLEAN
  PROVE  TypeOK'
BY DEF TypeOK, mainVars

\* The main loop's steps, with the requests still.
LEMMA RebuildTyped == ASSUME TypeOK, Rebuild PROVE TypeOK'
<1>1. ASSUME NEW l \in Lists, cleanDeviceInfo(l) PROVE TypeOK'
  BY <1>1 DEF cleanDeviceInfo, overtakes, TypeOK, Tables
<1>2. CASE newDeviceInfo
  <2>1. Empty \in Tables /\ DOMAIN Empty = {}
    BY DEF Tables, Empty
  <2>2. Empty # Null
    <3>1. Null # [s \in {} |-> Empty[s]]
      BY <2>1, NullAssumption
    <3>2. [s \in {} |-> Empty[s]] = Empty
      BY DEF Empty
    <3> QED BY <3>1, <3>2
  <2> QED BY <1>2, <2>1, <2>2 DEF newDeviceInfo, usbVars, TypeOK
<1>3. ASSUME NEW s \in Serials, populateDeviceInfo(s) PROVE TypeOK'
  <2> DEFINE D == DOMAIN deviceInfo \cup {s}
  <2>1. /\ received \in Tables /\ D \subseteq DOMAIN received
        /\ \A x \in DOMAIN deviceInfo : deviceInfo[x] = received[x]
        /\ loop = "populate" /\ loop' = loop
        /\ UNCHANGED <<received, seen, quiet>>
    BY <1>3 DEF populateDeviceInfo, usbVars, TypeOK
  <2>2. deviceInfo' = [x \in D |-> received[x]]
    BY <1>3, <2>1 DEF populateDeviceInfo
  <2>3. Null # deviceInfo'
    BY <2>1, <2>2, NullAssumption
  <2> QED BY <2>1, <2>2, <2>3 DEF TypeOK
<1>4. CASE populated
  BY <1>4 DEF populated, usbVars, TypeOK
<1> QED BY <1>1, <1>2, <1>3, <1>4 DEF Rebuild

\* A drive that is mounted in the table is mounted in the list it comes from.
LEMMA TableIsList ==
  ASSUME TypeOK, deviceInfo # Null, NEW id, isStorageDriveMounted(deviceInfo, id)
  PROVE  isStorageDriveMounted(received, id)
<1>1. /\ id.serial \in DOMAIN deviceInfo
      /\ id.serial \in DOMAIN received
      /\ deviceInfo[id.serial] = received[id.serial]
  BY DEF TypeOK, isStorageDriveMounted, drivesNamed
<1>2. drivesNamed(deviceInfo, id) = drivesNamed(received, id)
  BY <1>1 DEF drivesNamed
<1> QED BY <1>2 DEF isStorageDriveMounted

-----------------------------------------------------------------------------
(* The dispatcher.                                                         *)

\* A handler that takes a request up: its lookups are well formed, and each
\* of its drives is among those to be found mounted.
LEMMA BeginsWell ==
  ASSUME IInv, NEW op, op # "none", NEW id \in DriveIds,
         NEW dest \in DriveIds \cup {NoDrive}, NEW lookups \in Seq(Lookups),
         begin(op, id, dest, lookups),
         \A i \in DOMAIN lookups :
           lookups[i].what \in {"number", "name"} =>
             i = Len(lookups) /\ lookups[i].id = id,
         \A x \in {id} \cup (IF dest = NoDrive THEN {} ELSE {dest}) :
           \E i \in DOMAIN lookups : lookups[i] = lookup("mounted", x)
  PROVE  IInv'
<1>1. /\ request' = [op |-> op, id |-> id, dest |-> dest]
      /\ todo' = lookups /\ answer'.kind = "none"
      /\ seen' = {received} /\ received' = received
      /\ quiet' \in BOOLEAN /\ UNCHANGED mainVars
  BY DEF begin, NoAnswer, mainVars
<1>2. TypeOK'
  <2>1. seen' \subseteq Tables
    BY <1>1 DEF IInv, TypeOK
  <2> QED BY <1>1, <2>1, TypeKept DEF IInv
<1>3. TodoInv'
  BY <1>1 DEF TodoInv
<1>4. DrivesChecked'
  <2>1. drivesOf(request') = {id} \cup (IF dest = NoDrive THEN {} ELSE {dest})
    BY <1>1 DEF drivesOf
  <2> QED BY <1>1, <2>1 DEF DrivesChecked, awaited
<1>5. SeenInv' /\ EjectsThatDevice'
  BY <1>1 DEF SeenInv, EjectsThatDevice
<1> QED BY <1>2, <1>3, <1>4, <1>5 DEF IInv

LEMMA RequestBegins == ASSUME IInv, Request PROVE IInv'
<1>1. PICK id \in DriveIds :
        \/ ejectMethod(id) \/ getPropertiesMethod(id)
        \/ listFolderContentsMethod(id) \/ removeMethod(id) \/ renameMethod(id)
        \/ \E dest \in DriveIds \cup {NoDrive} :
             copyMethod(id, dest) \/ moveMethod(id, dest)
  BY DEF Request
<1>2. \A what \in {"exists", "mounted", "number", "name"} :
        \A x \in DriveIds \cup {NoDrive} :
          lookup(what, x) \in Lookups /\ lookup(what, x).what = what
          /\ lookup(what, x).id = x
  BY DEF lookup, Lookups
<1>3. ASSUME NEW op, op # "none", NEW last \in {"number", "name"},
             begin(op, id, NoDrive,
                   <<lookup("exists", id), lookup("mounted", id), lookup(last, id)>>)
      PROVE  IInv'
  <2> DEFINE ls == <<lookup("exists", id), lookup("mounted", id), lookup(last, id)>>
  <2>1. /\ ls \in Seq(Lookups) /\ Len(ls) = 3 /\ DOMAIN ls = 1..3
        /\ ls[1].what = "exists" /\ ls[2].what = "mounted" /\ ls[3].id = id
        /\ ls[2] = lookup("mounted", id)
    BY <1>2
  <2>2. begin(op, id, NoDrive, ls)
    BY <1>3
  <2> HIDE DEF ls
  <2> QED BY <1>3, <2>1, <2>2, BeginsWell
<1>4. ASSUME NEW op, op # "none",
             begin(op, id, NoDrive, <<lookup("exists", id), lookup("mounted", id)>>)
      PROVE  IInv'
  <2> DEFINE ls == <<lookup("exists", id), lookup("mounted", id)>>
  <2>1. /\ ls \in Seq(Lookups) /\ Len(ls) = 2 /\ DOMAIN ls = 1..2
        /\ ls[1].what = "exists" /\ ls[2].what = "mounted"
        /\ ls[2] = lookup("mounted", id)
    BY <1>2
  <2>2. begin(op, id, NoDrive, ls)
    BY <1>4
  <2> HIDE DEF ls
  <2> QED BY <1>4, <2>1, <2>2, BeginsWell
<1>5. ASSUME NEW op, op # "none", NEW dest \in DriveIds, dest # NoDrive,
             begin(op, id, dest,
                   <<lookup("exists", id), lookup("exists", dest),
                     lookup("mounted", id), lookup("mounted", dest)>>)
      PROVE  IInv'
  <2> DEFINE ls == <<lookup("exists", id), lookup("exists", dest),
                     lookup("mounted", id), lookup("mounted", dest)>>
  <2>1. /\ ls \in Seq(Lookups) /\ Len(ls) = 4 /\ DOMAIN ls = 1..4
        /\ ls[1].what = "exists" /\ ls[2].what = "exists"
        /\ ls[3].what = "mounted" /\ ls[4].what = "mounted"
        /\ ls[3] = lookup("mounted", id) /\ ls[4] = lookup("mounted", dest)
    BY <1>2
  <2>2. begin(op, id, dest, ls)
    BY <1>5
  <2> HIDE DEF ls
  <2> QED BY <1>5, <2>1, <2>2, BeginsWell
<1>6. CASE ejectMethod(id) \/ getPropertiesMethod(id)
  BY <1>3, <1>6 DEF ejectMethod, getPropertiesMethod
<1>7. CASE listFolderContentsMethod(id) \/ removeMethod(id) \/ renameMethod(id)
  BY <1>4, <1>7 DEF listFolderContentsMethod, removeMethod, renameMethod, onOneDrive
<1>8. ASSUME NEW dest \in DriveIds \cup {NoDrive},
             copyMethod(id, dest) \/ moveMethod(id, dest)
      PROVE  IInv'
  <2>1. CASE dest = NoDrive
    BY <1>4, <1>8, <2>1 DEF copyMethod, moveMethod, transfer
  <2>2. CASE dest # NoDrive
    BY <1>5, <1>8, <2>2 DEF copyMethod, moveMethod, transfer
  <2> QED BY <2>1, <2>2
<1> QED BY <1>1, <1>6, <1>7, <1>8

\* What a lookup that has passed leaves: one lookup less, and the drive found
\* if that was what it looked for.
LEMMA PassesOn ==
  ASSUME IInv, NEW what, looksUp(what), proceed,
         what = "mounted" => found(Head(todo).id),
         what \in {"exists", "mounted"}
  PROVE  IInv'
<1>1. /\ todo # <<>> /\ Head(todo).what = what /\ todo' = Tail(todo)
      /\ UNCHANGED <<mainVars, request, seen, quiet, received>>
  BY DEF looksUp, proceed, mainVars
<1>2. /\ todo \in Seq(Lookups) /\ todo' \in Seq(Lookups)
      /\ Len(todo') = Len(todo) - 1 /\ Len(todo) \in Nat \ {0}
      /\ DOMAIN todo = 1..Len(todo) /\ DOMAIN todo' = 1..Len(todo')
      /\ Head(todo) = todo[1]
      /\ \A i \in DOMAIN todo' : todo'[i] = todo[i + 1]
  BY <1>1 DEF IInv, TodoInv
<1>3. answer.kind = "none" /\ request.op # "none"
  BY <1>1 DEF IInv, TodoInv
<1>4. answer'.kind = IF Len(todo) = 1 THEN "operated" ELSE "none"
  BY <1>3 DEF proceed, saying, NoAnswer
<1>5. TypeOK'
  BY <1>1, TypeKept DEF IInv, TypeOK
<1>6. TodoInv'
  <2>1. answer'.kind # "none" => todo' = <<>>
    BY <1>2, <1>4
  <2>2. \A i \in DOMAIN todo' :
          todo'[i].what \in {"number", "name"} =>
            i = Len(todo') /\ todo'[i].id = request.id
    <3> SUFFICES ASSUME NEW i \in DOMAIN todo', todo'[i].what \in {"number", "name"}
                 PROVE  i = Len(todo') /\ todo'[i].id = request.id
      OBVIOUS
    <3>1. i + 1 \in DOMAIN todo /\ todo'[i] = todo[i + 1]
      BY <1>2
    <3>2. i + 1 = Len(todo) /\ todo[i + 1].id = request.id
      BY <3>1 DEF IInv, TodoInv
    <3> QED BY <1>2, <3>1, <3>2
  <2> QED BY <1>1, <1>2, <1>3, <2>1, <2>2 DEF TodoInv
<1>7. SeenInv' /\ EjectsThatDevice'
  BY <1>1, <1>4 DEF IInv, SeenInv, EjectsThatDevice
<1>8. DrivesChecked'
  <2> SUFFICES ASSUME NEW id \in drivesOf(request) PROVE awaited(id)' \/ found(id)'
    BY <1>1 DEF DrivesChecked
  <2>1. found(id)' <=> found(id)
    BY <1>1 DEF found
  <2>2. awaited(id) \/ found(id)
    BY <1>3 DEF IInv, DrivesChecked, Going
  <2>3. CASE awaited(id)
    <3>1. PICK i \in DOMAIN todo : todo[i] = lookup("mounted", id)
      BY <2>3 DEF awaited
    <3>2. CASE i = 1
      <4>1. what = "mounted" /\ Head(todo).id = id
        BY <1>1, <1>2, <3>1, <3>2 DEF lookup
      <4> QED BY <2>1, <4>1
    <3>3. CASE i # 1
      <4>1. i - 1 \in DOMAIN todo' /\ todo'[i - 1] = lookup("mounted", id)
        BY <1>2, <3>1, <3>3
      <4> QED BY <4>1 DEF awaited
    <3> QED BY <3>2, <3>3
  <2> QED BY <2>1, <2>2, <2>3
<1> QED BY <1>5, <1>6, <1>7, <1>8 DEF IInv

\* A refused request is over.
LEMMA Refused ==
  ASSUME IInv, NEW what, looksUp(what), NEW kind,
         kind \notin {"none", "operated", "ejecting", "asking"}, refuse(kind)
  PROVE  IInv'
<1>1. /\ todo' = <<>> /\ answer'.kind = kind
      /\ UNCHANGED <<mainVars, request, seen, quiet>>
      /\ request.op # "none"
  BY DEF looksUp, refuse, saying, NoAnswer, IInv, TodoInv
<1>2. TypeOK'
  BY <1>1, TypeKept DEF IInv, TypeOK
<1>3. TodoInv'
  BY <1>1 DEF TodoInv
<1>4. SeenInv' /\ DrivesChecked' /\ EjectsThatDevice'
  BY <1>1 DEF SeenInv, DrivesChecked, Going, EjectsThatDevice
<1> QED BY <1>2, <1>3, <1>4 DEF IInv

\* The call to PDM that ends a request: by then no lookup of a drive is left.
LEMMA AsksPdm ==
  ASSUME IInv, NEW what \in {"number", "name"}, looksUp(what), todo' = <<>>,
         answer'.kind \in {"ejecting", "asking"},
         answer'.kind = "ejecting" =>
           answer'.num = getStorageNumber(deviceInfo, Head(todo).id)
  PROVE  IInv'
<1>1. /\ todo # <<>> /\ Head(todo).what = what /\ deviceInfo # Null
      /\ UNCHANGED <<mainVars, request, seen, quiet>>
  BY DEF looksUp
<1>2. /\ todo \in Seq(Lookups) /\ DOMAIN todo = 1..Len(todo)
      /\ Len(todo) \in Nat \ {0} /\ Head(todo) = todo[1]
  BY <1>1 DEF IInv, TodoInv
<1>3. Len(todo) = 1 /\ Head(todo).id = request.id
  BY <1>1, <1>2 DEF IInv, TodoInv
<1>4. answer.kind = "none" /\ request.op # "none" /\ received \in seen
  BY <1>1 DEF IInv, TodoInv, SeenInv
<1>5. TypeOK'
  BY <1>1, TypeKept DEF IInv, TypeOK
<1>6. TodoInv' /\ SeenInv'
  BY <1>1, <1>4 DEF TodoInv, SeenInv
<1>7. DrivesChecked'
  <2> SUFFICES ASSUME NEW id \in drivesOf(request) PROVE found(id)'
    BY <1>1 DEF DrivesChecked
  <2>1. ~awaited(id)
    <3> SUFFICES ASSUME NEW i \in DOMAIN todo, todo[i] = lookup("mounted", id)
                 PROVE  FALSE
      BY DEF awaited
    <3>1. Head(todo).what = "mounted"
      BY <1>2, <1>3 DEF lookup
    <3> QED BY <1>1, <3>1
  <2>2. found(id)
    BY <1>4, <2>1 DEF IInv, DrivesChecked, Going
  <2> QED BY <1>1, <2>2 DEF found
<1>8. EjectsThatDevice'
  <2> SUFFICES ASSUME answer'.kind = "ejecting", answer'.num # 0
               PROVE  /\ request.id.serial \in DOMAIN received
                      /\ answer'.num = received[request.id.serial].num
    BY <1>1, <1>4 DEF EjectsThatDevice
  <2>1. /\ request.id.serial \in DOMAIN deviceInfo
        /\ answer'.num = deviceInfo[request.id.serial].num
    BY <1>3 DEF getStorageNumber
  <2> QED BY <1>1, <2>1 DEF IInv, TypeOK
<1> QED BY <1>5, <1>6, <1>7, <1>8 DEF IInv

LEMMA LookupKeeps == ASSUME IInv, Lookup PROVE IInv'
<1>1. CASE checkExists
  <2>1. looksUp("exists")
    BY <1>1 DEF checkExists
  <2>2. CASE proceed
    BY <2>1, <2>2, PassesOn
  <2>3. CASE refuse("USB_STORAGE_NOT_EXISTS")
    BY <2>1, <2>3, Refused
  <2> QED BY <1>1, <2>2, <2>3 DEF checkExists
<1>2. CASE checkMounted
  <2>1. looksUp("mounted") /\ deviceInfo # Null
    BY <1>2 DEF checkMounted, looksUp
  <2>2. CASE /\ proceed
             /\ isStorageDriveMounted(deviceInfo, Head(todo).id)
    <3>1. isStorageDriveMounted(received, Head(todo).id)
      BY <2>1, <2>2, TableIsList DEF IInv
    <3>2. received \in seen
      BY <2>1 DEF looksUp, IInv, SeenInv
    <3>3. found(Head(todo).id)
      BY <3>1, <3>2 DEF found
    <3> QED BY <2>1, <2>2, <3>3, PassesOn
  <2>3. CASE refuse("USB_DRIVE_ALREADY_EJECTED")
    BY <2>1, <2>3, Refused
  <2>4. CASE refuse("DRIVE_NOT_MOUNTED")
    BY <2>1, <2>4, Refused
  <2> QED BY <1>2, <2>2, <2>3, <2>4 DEF checkMounted
<1>3. CASE sendEject
  <2>1. /\ looksUp("number") /\ todo' = <<>> /\ answer'.kind = "ejecting"
        /\ answer'.num = getStorageNumber(deviceInfo, Head(todo).id)
    BY <1>3 DEF sendEject, saying, NoAnswer
  <2> QED BY <2>1, AsksPdm
<1>4. CASE askProperties
  <2> DEFINE name == getDriveName(deviceInfo, Head(todo).id)
  <2>1. looksUp("name") /\ todo' = <<>>
    BY <1>4 DEF askProperties
  <2>2. CASE answer' = saying("MORE_PARTITIONS_IN_USB")
    BY <2>1, <2>2, Refused DEF refuse
  <2>3. CASE answer' = saying("USB_SUB_STORAGE_NOT_EXISTS")
    BY <2>1, <2>3, Refused DEF refuse
  <2>4. CASE answer' = [saying("asking") EXCEPT !.name = name]
    <3>1. answer'.kind = "asking"
      BY <2>4 DEF saying, NoAnswer
    <3> QED BY <2>1, <3>1, AsksPdm
  <2>5. \/ answer' = saying("MORE_PARTITIONS_IN_USB")
        \/ answer' = saying("USB_SUB_STORAGE_NOT_EXISTS")
        \/ answer' = [saying("asking") EXCEPT !.name = name]
    BY <1>4 DEF askProperties
  <2> QED BY <2>2, <2>3, <2>4, <2>5
<1> QED BY <1>1, <1>2, <1>3, <1>4 DEF Lookup

-----------------------------------------------------------------------------
(* The main loop, and the theorem.                                         *)

\* A list that arrives meanwhile joins those in force; nothing else of a
\* request changes.
LEMMA RebuildKeeps == ASSUME IInv, Rebuild PROVE IInv'
<1>1. /\ UNCHANGED <<request, todo, answer>> /\ seen \subseteq seen'
      /\ todo # <<>> => received' \in seen'
  BY DEF Rebuild, cleanDeviceInfo, newDeviceInfo, populateDeviceInfo, populated,
         overtakes, usbVars, IInv, SeenInv
<1>2. TypeOK'
  BY RebuildTyped DEF IInv
<1>3. TodoInv' /\ SeenInv'
  BY <1>1 DEF IInv, TodoInv, SeenInv
<1>4. DrivesChecked'
  <2>1. \A id : awaited(id)' <=> awaited(id)
    BY <1>1 DEF awaited
  <2>2. \A id : found(id) => found(id)'
    BY <1>1 DEF found
  <2> QED BY <1>1, <2>1, <2>2 DEF IInv, DrivesChecked
<1>5. EjectsThatDevice'
  BY <1>1 DEF IInv, EjectsThatDevice
<1> QED BY <1>2, <1>3, <1>4, <1>5 DEF IInv

THEOREM InitInv == Init => IInv
<1> SUFFICES ASSUME Init PROVE IInv
  OBVIOUS
<1>1. TypeOK
  BY InitTyped
<1>2. todo = <<>> /\ request.op = "none" /\ answer.kind = "none"
  BY DEF Init, NoRequest, NoAnswer
<1> QED BY <1>1, <1>2 DEF IInv, TodoInv, SeenInv, DrivesChecked, EjectsThatDevice

\* A crash leaves the process as it starts.
LEMMA CrashRestarts == lookupCrashes => Init'
BY DEF lookupCrashes, Init

LEMMA NextInv == IInv /\ [Next]_vars => IInv'
<1>1. Init' => IInv'
  BY InitInv, PTL
<1>2. ASSUME IInv, UNCHANGED vars PROVE IInv'
  <2>1. TypeOK'
    BY <1>2 DEF vars, mainVars, usbVars, IInv, TypeOK
  <2>2. TodoInv' /\ SeenInv' /\ EjectsThatDevice'
    BY <1>2 DEF vars, mainVars, usbVars, IInv, TodoInv, SeenInv, EjectsThatDevice
  <2>3. DrivesChecked'
    BY <1>2 DEF vars, mainVars, usbVars, IInv, DrivesChecked, awaited, found
  <2> QED BY <2>1, <2>2, <2>3 DEF IInv
<1> QED BY <1>1, <1>2, CrashRestarts, RequestBegins, LookupKeeps, RebuildKeeps
        DEF Next

\* The table is null only while it is replaced, and else is as much of the
\* last list as has been filled in.
THEOREM TypeCorrect == Spec => []TypeOK
<1>1. IInv => TypeOK
  BY DEF IInv
<1> QED BY <1>1, InitInv, NextInv, PTL DEF Spec

\* However many lists replace the table between the lookups of one request,
\* no drive is worked on that was mounted in none of them.
THEOREM MountedOnly == Spec => []OperatesOnMounted
<1>1. IInv => OperatesOnMounted
  <2> SUFFICES ASSUME IInv, answer.kind \in {"operated", "ejecting", "asking"},
                      NEW id \in drivesOf(request)
               PROVE  found(id)
    BY DEF OperatesOnMounted, found
  <2>1. todo = <<>> /\ request.op # "none"
    BY DEF IInv, TodoInv
  <2>2. ~awaited(id)
    BY <2>1 DEF awaited
  <2> QED BY <2>1, <2>2 DEF IInv, DrivesChecked, Going
<1> QED BY <1>1, InitInv, NextInv, PTL DEF Spec

\* And no other device's number is handed to PDM for an eject.
THEOREM ThatDeviceOnly == Spec => []EjectsThatDevice
<1>1. IInv => EjectsThatDevice
  BY DEF IInv
<1> QED BY <1>1, InitInv, NextInv, PTL DEF Spec

-----------------------------------------------------------------------------
(* A request that no list overtook.                                        *)

asked(what, id) == \E i \in DOMAIN todo : todo[i] = lookup(what, id)

\* Its lookups meet one table, and that is complete.
QuietTable == quiet /\ todo # <<>> => loop = "idle" /\ seen = {received}

\* It looks for its drives before it looks whether they are mounted.
TodoOrder ==
  \A j \in DOMAIN todo :
    /\ todo[j].what = "exists" => \A i \in 1..(j - 1) : todo[i].what = "exists"
    /\ todo[j].what \in {"exists", "mounted"} => todo[j].id \in drivesOf(request)

\* What it does not ask any more, it has found.
QuietChecked ==
  quiet /\ todo # <<>> =>
    \A id \in drivesOf(request) :
      /\ asked("exists", id) \/ isStorageIdExists(received, id)
      /\ asked("mounted", id) \/ isStorageDriveMounted(received, id)

QuietInv == QuietTable /\ TodoOrder /\ QuietChecked /\ QuietAnswersExact

\* The drive a lookup finds is the one the id names.
LEMMA NamedIsFound ==
  ASSUME NEW l \in Tables, NEW id
  PROVE  /\ \A d : d \in drivesNamed(l, id) <=> d \in Drives /\ isNamed(l, id, d)
         /\ exists(l, id) <=> isStorageIdExists(l, id)
         /\ mounted(l, id) <=> isStorageDriveMounted(l, id)
<1>1. CASE id.serial \notin DOMAIN l
  BY <1>1 DEF drivesNamed, isNamed, exists, mounted, isStorageIdExists,
              isStorageDriveMounted
<1>2. CASE id.serial \in DOMAIN l
  <2> DEFINE ds == l[id.serial].drives
  <2>1. l \in Lists
    BY <1>2 DEF Tables, Empty
  <2>2. Len(ds) \in Nat /\ DOMAIN ds = 1..Len(ds)
    BY <1>2, <2>1, ListsAssumption
  <2>3. \A i \in DOMAIN ds : ds[i] \in Drives
    BY <1>2, <2>1 DEF Drives, Range
  <2>4. CASE id.uuid = NoUuid
    <3>1. drivesNamed(l, id) = IF Len(ds) = 1 THEN {ds[1]} ELSE {}
      BY <1>2, <2>4 DEF drivesNamed
    <3>2. \A d : isNamed(l, id, d) <=> Len(ds) = 1 /\ d = ds[1]
      BY <1>2, <2>2, <2>4 DEF isNamed
    <3>3. Len(ds) = 1 => ds[1] \in Drives
      BY <2>2, <2>3
    <3> HIDE DEF ds
    <3>4. \A d : d \in drivesNamed(l, id) <=> d \in Drives /\ isNamed(l, id, d)
      BY <3>1, <3>2, <3>3
    <3> QED BY <3>4 DEF exists, mounted, isStorageIdExists, isStorageDriveMounted
  <2>5. CASE id.uuid # NoUuid
    <3>1. drivesNamed(l, id) =
            {ds[k] : k \in {i \in DOMAIN ds :
                      /\ ds[i].uuid = id.uuid
                      /\ \A j \in 1..(i - 1) : ds[j].uuid # id.uuid}}
      BY <1>2, <2>5 DEF drivesNamed
    <3>2. \A d : isNamed(l, id, d) <=>
                  \E i \in DOMAIN ds : /\ d = ds[i] /\ ds[i].uuid = id.uuid
                                       /\ \A j \in 1..(i - 1) : ds[j].uuid # id.uuid
      BY <1>2, <2>5 DEF isNamed
    <3> HIDE DEF ds
    <3>3. \A d : d \in drivesNamed(l, id) <=> d \in Drives /\ isNamed(l, id, d)
      BY <2>3, <3>1, <3>2
    <3> QED BY <3>3 DEF exists, mounted, isStorageIdExists, isStorageDriveMounted
  <2> QED BY <2>4, <2>5
<1> QED BY <1>1, <1>2

\* The complete table is the list it was made of.
LEMMA CompleteTable ==
  ASSUME TypeOK, loop = "idle", NEW id
  PROVE  /\ drivesNamed(deviceInfo, id) = drivesNamed(received, id)
         /\ isStorageIdExists(deviceInfo, id) <=> isStorageIdExists(received, id)
         /\ isStorageDriveMounted(deviceInfo, id) <=> isStorageDriveMounted(received, id)
<1>1. /\ DOMAIN deviceInfo = DOMAIN received
      /\ \A s \in DOMAIN deviceInfo : deviceInfo[s] = received[s]
  BY DEF TypeOK
<1>2. drivesNamed(deviceInfo, id) = drivesNamed(received, id)
  <2>1. CASE id.serial \notin DOMAIN received
    BY <1>1, <2>1 DEF drivesNamed
  <2>2. CASE id.serial \in DOMAIN received
    <3>1. id.serial \in DOMAIN deviceInfo /\ deviceInfo[id.serial] = received[id.serial]
      BY <1>1, <2>2
    <3> QED BY <2>2, <3>1, Zenon DEF drivesNamed
  <2> QED BY <2>1, <2>2
<1> QED BY <1>2 DEF isStorageIdExists, isStorageDriveMounted

\* The right answer of a request that saw the list l, from the code's lookups.
AnswerFits(a, r, l) ==
  /\ a.kind = "USB_STORAGE_NOT_EXISTS"
       <=> \E id \in drivesOf(r) : ~isStorageIdExists(l, id)
  /\ a.kind \in {"DRIVE_NOT_MOUNTED", "USB_DRIVE_ALREADY_EJECTED"}
       <=> /\ \A id \in drivesOf(r) : isStorageIdExists(l, id)
           /\ \E id \in drivesOf(r) : ~isStorageDriveMounted(l, id)
  /\ a.kind = "ejecting" => a.num = l[r.id.serial].num
  /\ a.kind = "asking" => \E d \in drivesNamed(l, r.id) : d.name = a.name

LEMMA FittingAnswer ==
  ASSUME TypeOK, received' = received, request' = request, seen' = {received},
         AnswerFits(answer', request, received)
  PROVE  QuietAnswersExact'
<1>1. received \in Tables
  BY DEF TypeOK
<1>2. \A id : /\ exists(received, id) <=> isStorageIdExists(received, id)
              /\ mounted(received, id) <=> isStorageDriveMounted(received, id)
  BY <1>1, NamedIsFound
<1>3. \A id, d : d \in drivesNamed(received, id)
                   => d \in Drives /\ isNamed(received, id, d)
  BY <1>1, NamedIsFound
<1> QED BY <1>2, <1>3 DEF QuietAnswersExact, AnswerFits

\* A lookup that comes first, and what is left after it.
LEMMA HeadAndTail ==
  ASSUME TodoInv, todo # <<>>
  PROVE  /\ Len(todo) \in Nat \ {0} /\ DOMAIN todo = 1..Len(todo)
         /\ Head(todo) = todo[1] /\ Head(todo) \in Lookups
         /\ Head(todo) = lookup(Head(todo).what, Head(todo).id)
         /\ Tail(todo) \in Seq(Lookups) /\ Len(Tail(todo)) = Len(todo) - 1
         /\ DOMAIN Tail(todo) = 1..Len(Tail(todo))
         /\ \A i \in DOMAIN Tail(todo) : Tail(todo)[i] = todo[i + 1]
<1>1. todo \in Seq(Lookups)
  BY DEF TodoInv
<1>2. Len(todo) \in Nat \ {0} /\ DOMAIN todo = 1..Len(todo) /\ Head(todo) = todo[1]
  BY <1>1
<1>3. Head(todo) \in Lookups
  BY <1>1, <1>2
<1>4. Tail(todo) \in Seq(Lookups) /\ Len(Tail(todo)) = Len(todo) - 1
  BY <1>1
<1>5. DOMAIN Tail(todo) = 1..Len(Tail(todo))
  BY <1>4
<1>6. \A i \in DOMAIN Tail(todo) : Tail(todo)[i] = todo[i + 1]
  BY <1>1, <1>4, <1>5
<1>7. Head(todo) = lookup(Head(todo).what, Head(todo).id)
  BY <1>3 DEF Lookups, lookup
<1> QED BY <1>2, <1>3, <1>4, <1>5, <1>6, <1>7

\* A lookup that has passed while no list came in.
LEMMA QuietPass ==
  ASSUME IInv, QuietInv, NEW what \in {"exists", "mounted"}, looksUp(what), proceed,
         what = "exists" => isStorageIdExists(deviceInfo, Head(todo).id),
         what = "mounted" => isStorageDriveMounted(deviceInfo, Head(todo).id)
  PROVE  QuietInv'
<1>1. /\ todo # <<>> /\ Head(todo).what = what /\ todo' = Tail(todo)
      /\ UNCHANGED <<mainVars, request, seen, quiet, received, loop>>
  BY DEF looksUp, proceed, mainVars
<1>2. /\ Len(todo) \in Nat \ {0} /\ DOMAIN todo = 1..Len(todo)
      /\ Head(todo) = todo[1] /\ Head(todo) = lookup(what, Head(todo).id)
      /\ todo' \in Seq(Lookups) /\ Len(todo') = Len(todo) - 1
      /\ DOMAIN todo' = 1..Len(todo')
      /\ \A i \in DOMAIN todo' : todo'[i] = todo[i + 1]
  BY <1>1, HeadAndTail DEF IInv
<1>3. answer.kind = "none" /\ TypeOK
  BY <1>1 DEF IInv, TodoInv
<1>4. answer'.kind = IF Len(todo) = 1 THEN "operated" ELSE "none"
  BY <1>3 DEF proceed, saying, NoAnswer
<1>5. QuietTable'
  BY <1>1 DEF QuietInv, QuietTable
<1>6. TodoOrder'
  <2> SUFFICES ASSUME NEW j \in DOMAIN todo'
               PROVE  /\ todo'[j].what = "exists" =>
                           \A i \in 1..(j - 1) : todo'[i].what = "exists"
                      /\ todo'[j].what \in {"exists", "mounted"} =>
                           todo'[j].id \in drivesOf(request)
    BY <1>1 DEF TodoOrder
  <2>1. j + 1 \in DOMAIN todo /\ todo'[j] = todo[j + 1]
    BY <1>2
  <2>2. ASSUME todo'[j].what = "exists", NEW i \in 1..(j - 1)
        PROVE  todo'[i].what = "exists"
    <3>1. i \in DOMAIN todo' /\ i + 1 \in 1..(j + 1 - 1)
      BY <1>2, <2>2
    <3> DEFINE m == j + 1
    <3>2. m \in DOMAIN todo /\ todo[m].what = "exists" /\ i + 1 \in 1..(m - 1)
      <4>1. m \in DOMAIN todo /\ todo[m].what = "exists"
        BY <2>1, <2>2
      <4>2. j \in Nat /\ i \in 1..(j - 1)
        BY <1>2, <2>2
      <4>3. i + 1 \in 1..(m - 1)
        BY <4>2
      <4> QED BY <4>1, <4>3
    <3> HIDE DEF m
    <3>3. \A n \in 1..(m - 1) : todo[n].what = "exists"
      BY <3>2 DEF QuietInv, TodoOrder
    <3>4. todo[i + 1].what = "exists"
      BY <3>2, <3>3
    <3> QED BY <1>2, <3>1, <3>4
  <2> QED BY <2>1, <2>2 DEF QuietInv, TodoOrder
<1>7. ASSUME quiet, NEW id \in drivesOf(request)
      PROVE  /\ asked("exists", id)' \/ isStorageIdExists(received, id)
             /\ asked("mounted", id)' \/ isStorageDriveMounted(received, id)
  <2>1. loop = "idle"
    BY <1>1, <1>7 DEF QuietInv, QuietTable
  <2>2. ASSUME NEW k, asked(k, id)
        PROVE  asked(k, id)' \/ Head(todo) = lookup(k, id)
    <3>1. PICK i \in DOMAIN todo : todo[i] = lookup(k, id)
      BY <2>2 DEF asked
    <3>2. CASE i = 1
      BY <1>2, <3>1, <3>2
    <3>3. CASE i # 1
      <4>1. i - 1 \in DOMAIN todo' /\ todo'[i - 1] = lookup(k, id)
        BY <1>2, <3>1, <3>3
      <4> QED BY <4>1 DEF asked
    <3> QED BY <3>2, <3>3
  <2>3. ASSUME NEW k, Head(todo) = lookup(k, id)
        PROVE  k = what /\ Head(todo).id = id
    <3>1. lookup(k, id).what = k /\ lookup(k, id).id = id
      BY DEF lookup
    <3> QED BY <1>1, <2>3, <3>1
  <2>4. asked("exists", id) \/ isStorageIdExists(received, id)
    BY <1>1, <1>7 DEF QuietInv, QuietChecked
  <2>5. asked("mounted", id) \/ isStorageDriveMounted(received, id)
    BY <1>1, <1>7 DEF QuietInv, QuietChecked
  <2>6. asked("exists", id)' \/ isStorageIdExists(received, id)
    BY <1>3, <2>1, <2>2, <2>3, <2>4, CompleteTable
  <2>7. asked("mounted", id)' \/ isStorageDriveMounted(received, id)
    BY <1>3, <2>1, <2>2, <2>3, <2>5, CompleteTable
  <2> QED BY <2>6, <2>7
<1>8. QuietChecked'
  BY <1>1, <1>7 DEF QuietChecked
<1>9. QuietAnswersExact'
  <2>1. CASE Len(todo) = 1 /\ quiet
    <3>1. \A k, id : ~asked(k, id)'
      BY <1>2, <2>1 DEF asked
    <3>2. \A id \in drivesOf(request) : /\ isStorageIdExists(received, id)
                                        /\ isStorageDriveMounted(received, id)
      BY <1>7, <2>1, <3>1
    <3>3. AnswerFits(answer', request, received)
      BY <1>4, <2>1, <3>2 DEF AnswerFits
    <3>4. seen' = {received}
      BY <1>1, <2>1 DEF QuietInv, QuietTable
    <3> QED BY <1>1, <1>3, <3>3, <3>4, FittingAnswer
  <2>2. CASE Len(todo) # 1 \/ ~quiet
    BY <1>1, <1>4, <2>2 DEF QuietAnswersExact
  <2> QED BY <2>1, <2>2
<1> QED BY <1>5, <1>6, <1>8, <1>9 DEF QuietInv

\* A lookup that ends its request while no list came in.
LEMMA QuietEnd ==
  ASSUME IInv, QuietInv, NEW what, looksUp(what), todo' = <<>>,
         quiet => AnswerFits(answer', request, received)
  PROVE  QuietInv'
<1>1. /\ todo # <<>> /\ UNCHANGED <<mainVars, request, seen, quiet, received>>
  BY DEF looksUp, mainVars
<1>2. QuietTable' /\ TodoOrder' /\ QuietChecked'
  BY DEF QuietTable, TodoOrder, QuietChecked
<1>3. QuietAnswersExact'
  <2>1. CASE quiet
    <3>1. seen' = {received}
      BY <1>1, <2>1 DEF QuietInv, QuietTable
    <3> QED BY <1>1, <2>1, <3>1, FittingAnswer DEF IInv
  <2>2. CASE ~quiet
    BY <1>1, <2>2 DEF QuietAnswersExact
  <2> QED BY <2>1, <2>2
<1> QED BY <1>2, <1>3 DEF QuietInv

LEMMA QuietLookup == ASSUME IInv, QuietInv, Lookup PROVE QuietInv'
<1> DEFINE id == Head(todo).id
<1>1. TypeOK /\ TodoInv
  BY DEF IInv
\* The lookup is about a drive of the request, and everything before it passed.
<1>2. ASSUME NEW what, looksUp(what), quiet
      PROVE  /\ loop = "idle"
             /\ what \in {"exists", "mounted"} => id \in drivesOf(request)
             /\ what # "exists" =>
                  \A x \in drivesOf(request) : isStorageIdExists(received, x)
             /\ what \in {"number", "name"} =>
                  /\ id = request.id
                  /\ \A x \in drivesOf(request) : isStorageDriveMounted(received, x)
  <2>1. /\ todo # <<>> /\ Head(todo).what = what
        /\ Len(todo) \in Nat \ {0} /\ DOMAIN todo = 1..Len(todo)
        /\ Head(todo) = todo[1]
    BY <1>1, <1>2, HeadAndTail DEF looksUp
  <2>2. loop = "idle"
    BY <1>2, <2>1 DEF QuietInv, QuietTable
  <2>3. what \in {"exists", "mounted"} => id \in drivesOf(request)
    BY <2>1 DEF QuietInv, TodoOrder
  <2>4. ASSUME what # "exists", NEW x \in drivesOf(request)
        PROVE  isStorageIdExists(received, x)
    <3>1. ~asked("exists", x)
      <4> SUFFICES ASSUME NEW i \in DOMAIN todo, todo[i] = lookup("exists", x)
                   PROVE  FALSE
        BY DEF asked
      <4>1. todo[i].what = "exists"
        BY DEF lookup
      <4>2. i # 1
        BY <2>1, <2>4, <4>1
      <4>3. todo[1].what = "exists"
        BY <2>1, <4>1, <4>2 DEF QuietInv, TodoOrder
      <4> QED BY <2>1, <2>4, <4>3
    <3> QED BY <1>2, <2>1, <3>1 DEF QuietInv, QuietChecked
  <2>5. ASSUME what \in {"number", "name"}
        PROVE  /\ id = request.id
               /\ \A x \in drivesOf(request) : isStorageDriveMounted(received, x)
    <3>1. 1 = Len(todo) /\ id = request.id
      BY <1>1, <2>1, <2>5 DEF TodoInv
    <3>2. \A x : ~asked("mounted", x)
      <4> SUFFICES ASSUME NEW x, NEW i \in DOMAIN todo, todo[i] = lookup("mounted", x)
                   PROVE  FALSE
        BY DEF asked
      <4>1. todo[i].what = "mounted"
        BY DEF lookup
      <4>2. i \in 1..1
        BY <2>1, <3>1
      <4>3. i = 1
        BY <4>2
      <4>4. todo[1].what = what
        BY <2>1
      <4>5. todo[1].what = "mounted"
        BY <4>1, <4>3
      <4> QED BY <2>5, <4>4, <4>5
    <3> QED BY <1>2, <2>1, <3>1, <3>2 DEF QuietInv, QuietChecked
  <2> QED BY <2>2, <2>3, <2>4, <2>5
<1>3. ASSUME quiet, loop = "idle"
      PROVE  /\ isStorageIdExists(deviceInfo, id) <=> isStorageIdExists(received, id)
             /\ isStorageDriveMounted(deviceInfo, id)
                  <=> isStorageDriveMounted(received, id)
             /\ drivesNamed(deviceInfo, id) = drivesNamed(received, id)
  BY <1>1, <1>3, CompleteTable
<1>4. request.id \in drivesOf(request)
  BY DEF drivesOf
<1> HIDE DEF id
<1>5. CASE checkExists
  <2>1. looksUp("exists")
    BY <1>5 DEF checkExists
  <2>2. CASE proceed /\ isStorageIdExists(deviceInfo, id)
    BY <2>1, <2>2, QuietPass DEF id
  <2>3. CASE /\ refuse("USB_STORAGE_NOT_EXISTS")
             /\ ~isStorageIdExists(deviceInfo, id)
    <3>1. todo' = <<>> /\ answer'.kind = "USB_STORAGE_NOT_EXISTS"
      BY <2>3 DEF refuse, saying, NoAnswer
    <3>2. ASSUME quiet PROVE AnswerFits(answer', request, received)
      <4>1. id \in drivesOf(request) /\ ~isStorageIdExists(received, id)
        BY <1>2, <1>3, <2>1, <2>3, <3>2
      <4> QED BY <3>1, <4>1 DEF AnswerFits
    <3> QED BY <2>1, <3>1, <3>2, QuietEnd
  <2> QED BY <1>5, <2>2, <2>3 DEF checkExists, id
<1>6. CASE checkMounted
  <2>1. looksUp("mounted")
    BY <1>6 DEF checkMounted
  <2>2. CASE proceed /\ isStorageDriveMounted(deviceInfo, id)
    BY <2>1, <2>2, QuietPass DEF id
  <2>3. CASE /\ \/ refuse("USB_DRIVE_ALREADY_EJECTED")
                \/ refuse("DRIVE_NOT_MOUNTED")
             /\ ~isStorageDriveMounted(deviceInfo, id)
    <3>1. /\ todo' = <<>>
          /\ answer'.kind \in {"DRIVE_NOT_MOUNTED", "USB_DRIVE_ALREADY_EJECTED"}
      BY <2>3 DEF refuse, saying, NoAnswer
    <3>2. ASSUME quiet PROVE AnswerFits(answer', request, received)
      <4>1. /\ id \in drivesOf(request) /\ ~isStorageDriveMounted(received, id)
            /\ \A x \in drivesOf(request) : isStorageIdExists(received, x)
        BY <1>2, <1>3, <2>1, <2>3, <3>2
      <4> QED BY <3>1, <4>1 DEF AnswerFits
    <3> QED BY <2>1, <3>1, <3>2, QuietEnd
  <2> QED BY <1>6, <2>2, <2>3 DEF checkMounted, id
<1>7. CASE sendEject
  <2>1. /\ looksUp("number") /\ todo' = <<>> /\ answer'.kind = "ejecting"
        /\ answer'.num = getStorageNumber(deviceInfo, id)
    BY <1>7 DEF sendEject, saying, NoAnswer, id
  <2>2. ASSUME quiet PROVE AnswerFits(answer', request, received)
    <3>1. /\ loop = "idle" /\ id = request.id
          /\ \A x \in drivesOf(request) : /\ isStorageIdExists(received, x)
                                          /\ isStorageDriveMounted(received, x)
      BY <1>2, <2>1, <2>2
    <3>2. id.serial \in DOMAIN received
      BY <1>4, <3>1 DEF isStorageIdExists, drivesNamed
    <3>3. getStorageNumber(deviceInfo, id) = received[id.serial].num
      BY <1>1, <3>1, <3>2 DEF TypeOK, getStorageNumber
    <3> QED BY <2>1, <3>1, <3>3 DEF AnswerFits
  <2> QED BY <2>1, <2>2, QuietEnd
<1>8. CASE askProperties
  <2> DEFINE name == getDriveName(deviceInfo, id)
  <2>1. looksUp("name") /\ todo' = <<>>
    BY <1>8 DEF askProperties
  <2>2. \/ answer'.kind \in {"MORE_PARTITIONS_IN_USB", "USB_SUB_STORAGE_NOT_EXISTS"}
        \/ answer'.kind = "asking" /\ answer'.name = name
    <3>1. \/ answer' = saying("MORE_PARTITIONS_IN_USB")
          \/ answer' = saying("USB_SUB_STORAGE_NOT_EXISTS")
          \/ answer' = [saying("asking") EXCEPT !.name = name]
      BY <1>8 DEF askProperties, id
    <3> HIDE DEF name
    <3> QED BY <3>1 DEF saying, NoAnswer
  <2>3. ASSUME quiet PROVE AnswerFits(answer', request, received)
    <3>1. /\ loop = "idle" /\ id = request.id
          /\ \A x \in drivesOf(request) : /\ isStorageIdExists(received, x)
                                          /\ isStorageDriveMounted(received, x)
      BY <1>2, <2>1, <2>3
    <3>2. drivesNamed(deviceInfo, id) # {}
      BY <1>3, <1>4, <2>3, <3>1 DEF isStorageIdExists
    <3>3. \E d \in drivesNamed(deviceInfo, id) : d.name = name
      <4>1. id.serial \in DOMAIN deviceInfo
        BY <3>2 DEF drivesNamed
      <4>2. deviceInfo[id.serial].drives # <<>>
        <5>1. received \in Lists
          BY <1>1, <3>1, <4>1 DEF TypeOK, Tables, Empty
        <5>2. deviceInfo[id.serial] = received[id.serial] /\ id.serial \in DOMAIN received
          BY <1>1, <3>1, <4>1 DEF TypeOK
        <5>3. DOMAIN deviceInfo[id.serial].drives = 1..Len(deviceInfo[id.serial].drives)
          BY <5>1, <5>2, ListsAssumption
        <5>4. deviceInfo[id.serial].drives = <<>> => drivesNamed(deviceInfo, id) = {}
          BY <4>1 DEF drivesNamed
        <5> QED BY <3>2, <5>4
      <4>3. ~(id.uuid = NoUuid /\ Len(deviceInfo[id.serial].drives) > 1)
        <5> DEFINE ds == deviceInfo[id.serial].drives
        <5> SUFFICES ASSUME id.uuid = NoUuid PROVE ~(Len(ds) > 1)
          OBVIOUS
        <5>1. drivesNamed(deviceInfo, id) = IF Len(ds) = 1 THEN {ds[1]} ELSE {}
          BY <4>1 DEF drivesNamed
        <5>2. Len(ds) = 1
          BY <3>2, <5>1
        <5> QED BY <5>2
      <4>4. name = (CHOOSE d \in drivesNamed(deviceInfo, id) : TRUE).name
        BY <3>2, <4>1, <4>2, <4>3 DEF getDriveName
      <4>5. (CHOOSE d \in drivesNamed(deviceInfo, id) : TRUE)
              \in drivesNamed(deviceInfo, id)
        BY <3>2
      <4> QED BY <4>4, <4>5
    <3> HIDE DEF name
    <3>4. answer'.kind = "asking" => \E d \in drivesNamed(received, id) : d.name = answer'.name
      BY <1>3, <2>2, <2>3, <3>1, <3>3
    <3> QED BY <2>2, <3>1, <3>4 DEF AnswerFits
  <2> QED BY <2>1, <2>3, QuietEnd
<1> QED BY <1>5, <1>6, <1>7, <1>8 DEF Lookup

LEMMA QuietRequest == ASSUME IInv, QuietInv, Request PROVE QuietInv'
<1>1. PICK id \in DriveIds :
        \/ ejectMethod(id) \/ getPropertiesMethod(id)
        \/ listFolderContentsMethod(id) \/ removeMethod(id) \/ renameMethod(id)
        \/ \E dest \in DriveIds \cup {NoDrive} :
             copyMethod(id, dest) \/ moveMethod(id, dest)
  BY DEF Request
<1>2. \A what, x : lookup(what, x).what = what /\ lookup(what, x).id = x
  BY DEF lookup
\* Whatever the lookups: they ask for both of every drive, "exists" first.
<1>3. ASSUME NEW op, NEW dest, NEW ls, begin(op, id, dest, ls),
             \A j \in DOMAIN ls :
               /\ ls[j].what = "exists" => \A i \in 1..(j - 1) : ls[i].what = "exists"
               /\ ls[j].what \in {"exists", "mounted"} =>
                    ls[j].id \in {id} \cup (IF dest = NoDrive THEN {} ELSE {dest}),
             \A x \in {id} \cup (IF dest = NoDrive THEN {} ELSE {dest}) :
               /\ \E i \in DOMAIN ls : ls[i] = lookup("exists", x)
               /\ \E i \in DOMAIN ls : ls[i] = lookup("mounted", x)
      PROVE  QuietInv'
  <2>1. /\ todo' = ls /\ answer'.kind = "none" /\ seen' = {received}
        /\ quiet' = (loop = "idle") /\ loop' = loop /\ received' = received
        /\ request' = [op |-> op, id |-> id, dest |-> dest]
    BY <1>3 DEF begin, NoAnswer, mainVars
  <2>2. drivesOf(request') = {id} \cup (IF dest = NoDrive THEN {} ELSE {dest})
    BY <2>1 DEF drivesOf
  <2>3. QuietTable' /\ QuietAnswersExact'
    BY <2>1 DEF QuietTable, QuietAnswersExact
  <2>4. TodoOrder'
    BY <1>3, <2>1, <2>2 DEF TodoOrder
  <2>5. QuietChecked'
    BY <1>3, <2>1, <2>2 DEF QuietChecked, asked
  <2> QED BY <2>3, <2>4, <2>5 DEF QuietInv
<1>4. ASSUME NEW op, NEW last \in {"number", "name"},
             begin(op, id, NoDrive,
                   <<lookup("exists", id), lookup("mounted", id), lookup(last, id)>>)
      PROVE  QuietInv'
  <2> DEFINE ls == <<lookup("exists", id), lookup("mounted", id), lookup(last, id)>>
  <2>1. /\ DOMAIN ls = 1..3 /\ ls[1] = lookup("exists", id)
        /\ ls[2] = lookup("mounted", id) /\ ls[3] = lookup(last, id)
    OBVIOUS
  <2>2. begin(op, id, NoDrive, ls)
    BY <1>4
  <2> HIDE DEF ls
  <2>3. /\ \A j \in DOMAIN ls : ls[j].what = "exists" => j = 1
        /\ \A j \in DOMAIN ls : ls[j].id = id
    BY <1>2, <1>4, <2>1
  <2>4. \A j \in DOMAIN ls :
          ls[j].what = "exists" => \A i \in 1..(j - 1) : ls[i].what = "exists"
    BY <2>3
  <2> QED BY <1>3, <2>1, <2>2, <2>3, <2>4
<1>5. ASSUME NEW op,
             begin(op, id, NoDrive, <<lookup("exists", id), lookup("mounted", id)>>)
      PROVE  QuietInv'
  <2> DEFINE ls == <<lookup("exists", id), lookup("mounted", id)>>
  <2>1. /\ DOMAIN ls = 1..2 /\ ls[1] = lookup("exists", id)
        /\ ls[2] = lookup("mounted", id)
    OBVIOUS
  <2>2. begin(op, id, NoDrive, ls)
    BY <1>5
  <2> HIDE DEF ls
  <2>3. /\ \A j \in DOMAIN ls : ls[j].what = "exists" => j = 1
        /\ \A j \in DOMAIN ls : ls[j].id = id
    BY <1>2, <2>1
  <2>4. \A j \in DOMAIN ls :
          ls[j].what = "exists" => \A i \in 1..(j - 1) : ls[i].what = "exists"
    BY <2>3
  <2> QED BY <1>3, <2>1, <2>2, <2>3, <2>4
<1>6. ASSUME NEW op, NEW dest \in DriveIds, dest # NoDrive,
             begin(op, id, dest,
                   <<lookup("exists", id), lookup("exists", dest),
                     lookup("mounted", id), lookup("mounted", dest)>>)
      PROVE  QuietInv'
  <2> DEFINE ls == <<lookup("exists", id), lookup("exists", dest),
                     lookup("mounted", id), lookup("mounted", dest)>>
  <2>1. /\ DOMAIN ls = 1..4 /\ ls[1] = lookup("exists", id)
        /\ ls[2] = lookup("exists", dest) /\ ls[3] = lookup("mounted", id)
        /\ ls[4] = lookup("mounted", dest)
    OBVIOUS
  <2>2. begin(op, id, dest, ls)
    BY <1>6
  <2> HIDE DEF ls
  <2>3. /\ \A j \in DOMAIN ls : ls[j].what = "exists" => j = 1 \/ j = 2
        /\ \A j \in DOMAIN ls : ls[j].id \in {id, dest}
        /\ ls[1].what = "exists"
    BY <1>2, <2>1
  <2>4. \A j \in DOMAIN ls :
          ls[j].what = "exists" => \A i \in 1..(j - 1) : ls[i].what = "exists"
    BY <2>3
  <2>5. {id} \cup (IF dest = NoDrive THEN {} ELSE {dest}) = {id, dest}
    BY <1>6
  <2> QED BY <1>3, <2>1, <2>2, <2>3, <2>4, <2>5
<1>7. CASE ejectMethod(id) \/ getPropertiesMethod(id)
  BY <1>4, <1>7 DEF ejectMethod, getPropertiesMethod
<1>8. CASE listFolderContentsMethod(id) \/ removeMethod(id) \/ renameMethod(id)
  BY <1>5, <1>8 DEF listFolderContentsMethod, removeMethod, renameMethod, onOneDrive
<1>9. ASSUME NEW dest \in DriveIds \cup {NoDrive},
             copyMethod(id, dest) \/ moveMethod(id, dest)
      PROVE  QuietInv'
  <2>1. CASE dest = NoDrive
    BY <1>5, <1>9, <2>1 DEF copyMethod, moveMethod, transfer
  <2>2. CASE dest # NoDrive
    BY <1>6, <1>9, <2>2 DEF copyMethod, moveMethod, transfer
  <2> QED BY <2>1, <2>2
<1> QED BY <1>1, <1>7, <1>8, <1>9

LEMMA QuietRebuild == ASSUME IInv, QuietInv, Rebuild PROVE QuietInv'
<1>1. /\ UNCHANGED <<request, todo, answer>>
      /\ \/ todo = <<>> /\ UNCHANGED <<seen, quiet>>
         \/ ~quiet'
         \/ loop # "idle" /\ UNCHANGED <<seen, quiet>>
  BY DEF Rebuild, cleanDeviceInfo, newDeviceInfo, populateDeviceInfo, populated,
         overtakes, usbVars
<1>2. TodoOrder'
  BY <1>1 DEF QuietInv, TodoOrder
<1>3. QuietTable' /\ QuietChecked'
  BY <1>1 DEF QuietInv, QuietTable, QuietChecked
<1>4. QuietAnswersExact'
  BY <1>1 DEF QuietInv, QuietAnswersExact
<1> QED BY <1>2, <1>3, <1>4 DEF QuietInv

LEMMA QuietInit == Init => QuietInv
<1> SUFFICES ASSUME Init PROVE QuietInv
  OBVIOUS
<1>1. todo = <<>> /\ DOMAIN todo = {}
  BY DEF Init
<1>2. answer.kind = "none"
  BY DEF Init, NoAnswer
<1>3. TodoOrder
  BY <1>1 DEF TodoOrder
<1>4. QuietTable /\ QuietChecked
  BY <1>1 DEF QuietTable, QuietChecked
<1>5. QuietAnswersExact
  BY <1>2 DEF QuietAnswersExact
<1> QED BY <1>3, <1>4, <1>5 DEF QuietInv

\* A request during which no list arrives gets the answer that the list in
\* force calls for, whatever drives it has: missing, not mounted, or carried
\* out on the client's own.
THEOREM AnswersExact == Spec => []QuietAnswersExact
<1>1. Init => QuietInv
  BY QuietInit
<1>q. Init' => QuietInv'
  BY QuietInit, PTL
<1>2. IInv /\ QuietInv /\ [Next]_vars => QuietInv'
  <2> SUFFICES ASSUME IInv, QuietInv, [Next]_vars PROVE QuietInv'
    OBVIOUS
  <2>1. CASE Request
    BY <2>1, QuietRequest
  <2>2. CASE Lookup
    BY <2>2, QuietLookup
  <2>3. CASE lookupCrashes
    BY <2>3, <1>q, CrashRestarts
  <2>4. CASE Rebuild
    BY <2>4, QuietRebuild
  <2>5. CASE UNCHANGED vars
    BY <2>5 DEF vars, mainVars, usbVars, QuietInv, QuietTable, TodoOrder,
                QuietChecked, asked, QuietAnswersExact
  <2> QED BY <2>1, <2>2, <2>3, <2>4, <2>5 DEF Next
<1>3. QuietInv => QuietAnswersExact
  BY DEF QuietInv
<1> QED BY <1>1, <1>2, <1>3, InitInv, NextInv, PTL DEF Spec
=============================================================================
