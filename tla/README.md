# A verification of com.webos.service.storageaccess

The storage access service (SAF) gives webOS applications one Luna interface,
`com.webos.service.storageaccess`, to internal storage, USB drives, Google
Drive, Samba shares and UPnP media servers. These modules model its C++ code in
TLA+; TLC checks them on small instances and TLAPS proves the safety
properties for all instances. Paths below are relative to the repository;
`PROJECT.json` maps every definition to the lines it stands for.

## 1. The system

### Threads

| thread | code | what it runs |
|---|---|---|
| main loop | `src/src/main.cpp`, `luna/SAFLunaService.cpp` | Luna handlers, PDM replies, LS2 status callbacks, GLib timeouts, gssdp signals |
| four dispatchers | `dispatchHandler` of each provider | one request at a time: `handleRequests` starts it with `std::async` and drops the future, whose destructor waits |

There is a mutex per provider for its queue and no other lock. What the
dispatchers and the main loop share besides the queues (the USB device table,
`mSambaDrivePathMap`, the JSON object of a request, the file system, the result
of a UPnP scan) is unprotected.

### Inventory

| component | state | operations | talks to | what is hard |
|---|---|---|---|---|
| Luna front end (`SAFLunaService`) | one `RequestData` with JSON `params` per message | nine methods; reply callbacks; the chain of `listStorageProviders` | routing; providers call back | a chain over five threads through one JSON object; a PDM subscription that restarts it |
| Routing (`DocumentProviderManager`, `DocumentProviderFactory`) | the four providers | `addRequest` | queues | copies into the cloud go to another provider |
| Queues (each provider) | `mQueue`, `mMutex`, `mCondVar` | `addRequest`, `dispatchHandler` | main loop, dispatcher | notify after unlock, spurious wakeups, order |
| Internal provider | none of its own | list, getProperties, copy, move, remove, rename | file operations | client-chosen integers |
| USB provider | `deviceInfo`, rebuilt by the main loop | the same, eject; PDM exchanges of one or two calls | PDM, file operations | two to four unlocked lookups per request while the table is replaced |
| Google Drive provider | drive ids, tokens, credentials, cache of file ids | login, token, authenticate, file operations | Google Drive | exceptions at every call, a cache of a drive others change |
| Network provider, Samba | six maps, kernel mounts | mount, eject, file operations | kernel, `SAFUtilityOperation` | failures half-way; other threads read a copy of a map, and write it |
| Network provider, UPnP | drive maps, `UpnpDiscover`, `UpnpOperation` | discover, list, getProperties | gssdp, HTTP servers | a second main loop on the first one's context; multi-call walks over a changing tree; texts that become numbers |
| File operations (`SAFUtilityOperation`) | the file system, `mSambaDrivePathMap` | `InternalCopy`, `-Move`, `-Remove`, `-Rename`, `FolderContents` | three dispatchers | check-then-act, three threads on the same files |
| `ClientWatch` | LS2 cookie, GLib source, callback | watch, notify, destroy | LS2, GLib | destruction on another thread than the callbacks |
| PDM | external | | USB provider | garbled answers, notifications at any time |

Not modelled: the error tables, start-up (`main.cpp`, `SAFManager`), logging,
`StatusHandler` (nobody notifies it), `USBJsonParser` (reshapes PDM's JSON for
clients), XML and HTTP as formats, the vendored Google Drive, gssdp and gupnp
headers, and the service configuration. `mQuit` and the destructors of the
providers are left out: the providers are static objects. `InternalSpaceInfo`
is a handler that answers; its arithmetic adds up what the file system reports,
in 32 bits, and a property of it would restate the cut. `InternalCreateDir` is
called by nobody.

### What makes the parts correct

* Requests: each is queued, carried out and answered at most once, in the order
  of arrival, no wakeup is lost, and those that can be answered are.
* Drives: the maps of a provider agree with each other and with the kernel,
  whatever failed before, and a check of another thread never meets a mount
  point that is not its drive's.
* File operations: nothing is lost that no request gave up, and the answer says
  what happened.
* Caches and tables: what a request does is right for a state that was in force
  during the request.
* Listings: a page is what was asked for, pages tile the folder, and a path that
  cannot be walked does not become a listing of something else.

The hazards, each at its line, are in `PROJECT.json`.

## 2. The modules

`MC<module>` instantiates a module for TLC; `<module>Proofs` holds its theorems,
and `CallbackProofs` those of `UpnpScan` and `ClientWatch`. `Mailboxes` is the
abstract specification of the request path. The other modules share no
variables: a handler is one nondeterministic step in `SAFService` (when and how
often it answers) and is opened up in the module of its component.

| module | code | its state stands for | grain of a step |
|---|---|---|---|
| `SAFService` | Luna front end, routing, queues, PDM exchanges | `req`, `params` the message and its JSON object; `mQueue`, `pc`, `cur`, `wake` the threads; `pdmCall`, `subscribed`, `fresh`, `later` what PDM owes; `sent` the answers | one critical section, one callback, one Luna call |
| `Mailboxes` | what the request path promises | `box` the mailbox of a provider, `out` what PDM may report on, `answered` the answers | a request arrives, leaves its box, is reported on |
| `NetworkDrives` | mount, eject, `listStoragesMethod`, registration of servers | the maps under their own names, `mounts` the kernel's, `checking` the other dispatchers | cut where another thread uses `mSambaDrivePathMap` |
| `FileTransfers` | the four file operations | `files` the file system, a tree of paths; `pc`, `status` each worker, `todo` what its `fs::copy` has left | one `std::filesystem` call; one entry of `fs::copy` and `fs::remove_all` |
| `FolderPages` | `FolderContents` and the pages of list | `dir` the folder, `mContents` what was read, `pager` a client | one directory entry, one type lookup |
| `UsbDevices` | device table and every lookup | `deviceInfo`, `loop` the main thread, `todo` the lookups left | one lookup, one stage of the rebuilding |
| `CloudAccounts` | `GDriveProvider`, `GDriveOperation` | the account maps, `mFileIds`, `cloud` | one call to the drive |
| `UpnpScan` | `UpnpDiscover` | `running` the second loop, `timers`, `callback` the main thread | one GLib or gssdp call |
| `UpnpBrowse` | `UpnpOperation`, list and getProperties of UPnP | `tree` the servers, `mDirPathNames`, `contId` the walk | one HTTP call |
| `ClientWatch` | `LSUtils::ClientWatch` | its members, `source` GLib's timeouts | one callback, one statement of the destructor |

### The request path and its mailboxes

`Mailboxes` has no threads, locks or JSON: a box per provider whose head alone
is worked on, and leaves by being answered, by going to the end of another box
or by being handed to PDM, which may report back. `SAFService` maps to it as
follows, and `ServesInOrder` (`Mail!Spec`) says that every step of the one is a
step of the other or leaves it alone:

| `Mailboxes` | in `SAFService` |
|---|---|
| `known` | the messages that were received |
| `box[p]` | the call the dispatcher of `p` is at, before what is in `mQueue[p]` |
| `out` | calls PDM owes an answer, or has a subscription for |
| `answered` | the calls in `sent`, in order |

The refinement rules out that a handler's request is overtaken inside a
provider, taken twice, dropped on the way between two queues of the
`listStorageProviders` chain, or revived by a late callback after it left.

### Decisions

Variables that are not in the code record what a property compares with:
`arrivals`, `sent`, `before`, `alone`, `seen`, `quiet`, `touched`, `heard`,
`failed`, `answered`, `reply`, `overtaken`, `met`. No guard of the code's control
reads them, except where a bound counts (`changes`, `scans`, `later`); the length
of `met` is how many names the walk has done.

Modelling decisions a reader should know:

* Accesses to one pbnjson object are atomic; the order in which threads write it
  is free.
* `LSCall` that fails locally is taken to deliver an error reply, as LS2 does.
* `MULTI_SESSION_SUPPORT` is not defined in `CMakeLists.txt`, so every session
  is `"root"` and session maps are sets of drive ids.
* `onGetPropertiesReply` looks the storage type up on the main loop, where the
  table is rebuilt: no race, hence no step in `UsbDevices`.
* `FileTransfers` has files and directories and no links (`fs::copy` is told to
  skip them). Paths are at most `Depth` names long, which is how a path becomes
  too long for the file system: that ends the copy of a directory into itself.
  `fs::copy` and `fs::remove_all` take the entries of a directory in any order,
  and may fail at each. Copying a file onto itself throws in `fs::copy`, inside
  the task.
* A handler may check a path itself before it makes the operation object; the
  error codes of both checks (`INVALID_PATH` of a removal among them) are
  `INVALID_SOURCE_PATH` and `INVALID_DEST_PATH`.
* The timeout a `ClientWatch` adds clears a field and returns: `mCallback` is
  called nowhere, so the module has no report to a client's owner.
* A race on `deviceInfo` may also end the process (a null or freed pointer);
  systemd restarts it with an empty table (`lookupCrashes`).
* In `NetworkDrives` a check of another dispatcher (`validateSambaPath`) is two
  steps, `find` and `operator[]`. If `setDriveDetails` has cleared the map in
  between, `operator[]` inserts an empty path, with which every path begins, and
  the entry stays until the next clear: `overtaken` has the drives this can
  happen to. Refilling is an insertion and an assignment per drive, so a reader
  sees every intermediate map. Two operations of `std::map` that overlap are
  undefined behaviour and not modelled. The checks by which the network provider
  guards its own requests run on the thread that fills the map, after
  `validateSambaOperation` has looked the drive up elsewhere.
* In `CloudAccounts` each call may throw before or after it took effect. Moves
  and copies compare MIME types; that refusal may happen or not.
* In `UpnpScan` the two seconds do not pass between arming the timer and
  `g_main_loop_run`, and whether GLib keeps a timer whose callback is the void
  `g_main_loop_quit` is free.
* In `UpnpBrowse` a path is the words after its first slash, some of them empty
  (`//`), and `Shortened` says what a word is without its first character: that
  is what the split of `getContainerId` makes of the word behind an empty one.
* Object ids of a UPnP server are texts, of which the code keeps the number they
  begin with (`std::stoi`) and asks for that. `Number` gives it for each object;
  an id that is just a number is that number, and a server knows no other
  number, so what it says to one is nothing. `Unreadable` has the objects with
  an id, a `restricted` or a `childCount` that `stoi` throws on: it does when
  they are among the children fetched, in the walk or in the final listing.
  Servers do not reuse object ids, and none begins with a minus sign.
* `GDriveOperation` joins titles with slashes and searches the paths it has
  cached as texts. Paths and titles are sequences of words, the texts between
  the slashes: a title may have several, and so look like a path, and several
  files of a folder may have one title, or bear one path, of which the cache
  keeps the last. The pairs of words of which one begins with the other are a
  constant (`Extends`), so a match may end inside a word. Titles do not begin or
  end with a slash and hold no two in a row.
* A listing of a drive is its whole file map; the window of `offset` and `limit`
  is that of `FolderPages`. `totalCount` counts the page only, and no property
  speaks of it.

## 3. The runs

All names are in `PROJECT.json`, with one mutant of the code per property that
the run refutes.

### Runs that pass

| run | instance | shows |
|---|---|---|
| `saf_requests` | 2 calls; every method, provider, refusal, rerouted copy and PDM exchange, answers that do not parse, a device change between rounds; fair | wakeups, counting and order, complete listings, an answer for every call that is owed one, and the refinement of `Mailboxes` |
| `network_drives` | 3 shares on 2 hosts, 2 time stamps, 3 server URLs on 2 ports | the maps, mounts and answers of drives, and what two other dispatchers meet in the copy they check paths by |
| `watch` | 2 watches, destroyed on the main loop or on a handler's thread | notifications and the watch's life |
| `usb_table` | 4 device lists replacing each other, 7 ids | lookups against a changing table |
| `cloud` | an account, a folder and a file, a local file of the same name, titles with and without a slash, 1 foreign change | credentials, truth of the cache, moves and loads with failures at every call, listings |
| `transfers` | 2 requests of 2 workers, 6 trees, paths of 3 names; fair | all interleavings of file operations on trees, their failures, and that they end |
| `folder_pages` | 4 slots, ints of 4 bits, extreme offsets and limits, 1 change | bounds, content and tiling of pages |
| `upnp_scan` | 3 scans, 4 announcements | freshness and end of a scan |
| `upnp_browse` | 2 servers, one with every tree of 3 objects and one with ids that are cut down or unreadable, 8 paths with and without empty words, 1 change | walks with failing calls, the split of paths, what becomes of ids |

Why these bounds suffice:

* Two calls are enough for a lost wakeup or a swapped order, since each is about
  one queue and two requests. `WakeupNeverLost` and `TypeCorrect` are proved for
  any number of calls.
* In `saf_requests` (`PdmWaits`) PDM reports device changes when no round of the
  listing is under way. A change in the middle of a round is not promised
  anything: the two rounds overwrite each other's `storageType` in the shared
  JSON object, sections come out twice or not at all, and an adversarial
  schedule lets the rounds restart each other for ever.
* Two shares of one host make mount points collide; the third, on another host,
  shows that a failed eject does not disturb its neighbour. A fourth drive id
  repeats what three show. `MaxDrives` caps the static id counters. Two other
  dispatchers check paths, so that one may find what another has just inserted.
* The four USB lists hold a stick and a disk; one drive is unplugged, one
  unmounted, one comes back under the other's number, which is every way two
  lists disagree on a drive. A request has at most four lookups, and
  `usb_table` lets the table change before each of them.
* Accounts share no state but the map of drive ids, so one account shows what
  can happen to its cache; that accounts do not get into each other's
  credentials is proved for any number (`CredentialsSound`). A folder,
  its file and a local file of the same name can be moved, copied and renamed
  onto each other. `MaxFiles` caps the ids
  of a drive, so a copy needs one to be free. One of the three titles looks like
  the path of a file in the folder; a rename gives a file that one or a plain
  one (`NewTitles`), and clients name the paths that look like titles (`Asked`).
* Two workers suffice for a check-then-act race on one path. The six trees have
  a directory or a file as the source, and as the destination a directory that
  is empty, holds a tree to merge with or something of the other kind, or a
  file; the jobs copy and move one into the other, into itself and back, and
  remove and rename what is read and written. Paths of three names make a copy
  of a directory into itself go down once and then become too long. A third
  request would start from a tree that an earlier two have left; `FilesAreSafe`
  is proved for any number of workers, requests, names and any depth.
* The drive of `cloud` has a folder whose title begins with the title of its
  file, which is every way `Extends` can make a listing find more than it
  should.
* With `MaxInt` 7 and up to four entries the sums that overflow in 32 bits
  overflow here too; `PagesInBounds` and `PagesAsAsked` are proved for every
  width. `Slots`, `MaxChanges` cap the folder and its changes.
* Three objects make a path of two names with a sibling; one change in a walk
  is enough to use an id that is stale. The eight paths are every way the split
  can go: plain, a character lost that leaves a name or nothing, two slashes
  lost, an exception at the end, no name at all, and the URL that stands in for
  a missing path. The second server has a folder in a folder, with the ids "1"
  and "1$2", and an object with unreadable numbers at any place.
* Three scans let a quit timer of the first end the second and outlive it.
* `MaxChanges` caps foreign changes, `MaxLater` device notifications after the
  first, `MaxScans` and `MaxHeard` scans and announcements.

Symmetry is used only where the values are interchangeable (names of
`folder_pages`; the shares and servers of one host, the time stamps and the
other dispatchers of `network_drives`), and in no run with a liveness property.
Deadlock is checked except in `saf_requests`, which stops when every call has been made and
answered, and in `upnp_scan`, where a scan without a client hangs the network
thread for ever.

### Where the code disagrees with what it says

Three runs exhibit a disagreement:

| run | statement | what the code does |
|---|---|---|
| `watch_late` | "Don't send any pending notifications" | on a handler's thread a timeout may be added after the check and outlive the watch |
| `usb_not_exists` | "No USB Storage Exists with ID given" | said of a drive that both the old and the new list contain |
| `transfers_onto_file` | "Internal File Already Exists" (`ExistingFileReported`) | a copy or move without overwrite onto a regular file looks for a target below that file, finds none, leaves the file alone and answers success; the move then removes its source |

Others are stated at the end of their modules. TLC refutes each when it is added
to the configuration named here:

| definition | configuration | statement | what the code does |
|---|---|---|---|
| `MountedOnce` | `network_drives` | "Already Mounted " | after an `umount2` that failed, the share can be mounted a second time |
| `ChecksAreOfDrives` | `network_drives` | "No such file or directory at destination" | a check that a clear has overtaken compares with an empty path and accepts every path that exists |
| `EjectedDrivesAreRefused` | `network_drives` | the same | the entry such a check leaves behind lets later ones pass too, for a drive that is ejected |
| `MorePartitionsSaid` | `usb_table` | "USB Storage has more partitions" | never said |
| `AlreadyAuthenticatedTrue` | `cloud` | "Already Authenticated" | said of an account that never was |
| `CopyLandsThere` | `cloud` | "setting parent object to folder id" | an uncached destination puts the copy into the root and answers success |
| `ListShowsNothingElse` | `cloud` | "listFolderContents : Folder Path" | a listing also shows files of which the folder's path is a text further inside, and folders with a longer name |
| `ListShowsEveryFile` | `cloud` | the same | a file whose title has a slash is left out, and of the files that bear one path all but one |
| `ListsPlainPaths` | `upnp_browse` | "Invalid Path" | an id "2$8" is cut down to 2, and the content of container 2 is answered, which may be the parent of the one the path names |
| `ListsItsFullPath` | `upnp_browse` | "Invalid Path", and `fullPath` in the reply | a path with two slashes in a row is listed without the first character of the word behind them |
| `LateFileReported` | `transfers` | "Internal File Already Exists" | a target that appears after the check is skipped, and the answer is success |
| `RefusedMoveKeepsFile` | `transfers` | "Internal File Permission Denied" | the refused move has deleted its file |

### Fairness

* `SAFService!FairSpec`: weak fairness of every dispatcher and handler (the
  kernel schedules runnable threads; a handler is one step that ends), of the
  callbacks in progress, and of the replies PDM owes: one per call and one per
  subscription. Clients, spurious wakeups and later device changes owe nothing.
  `EveryCallAnswered` excludes what the code really loses: handlers that throw,
  methods a provider has no case for, and requests behind a scan that hangs.
* `FileTransfers!FairSpec`: weak fairness of the calls of every worker. A
  dispatcher inside a handler is a runnable thread that holds no lock, and each
  call into the file system returns. `TransfersEnd` is not obvious for it: the
  copy of a directory reads what it has just written when the destination lies
  below the source, and ends only because paths do.
* `UpnpScan!Spec`: the main loop runs a due timer, and the network thread
  returns from a loop that was quit. Announcements owe nothing, nor does
  whether the gssdp client can be created.

The other modules have safety properties only.

## 4. The proofs

Eight modules, all leaves checked by `tlapm`. Constants are constrained only by
the named assumptions of the modules, which TLC evaluates in the runs. Every
safety property of a run that passes is a theorem.

Some arguments are inductions over data: what exists in a tree lies in
directories up to the root, every place of a page is that of some slot, and
`namesIn` and the walk of a server go along a path. The induction theorems of the
library take an operator as a parameter, which the provers cannot instantiate.
Instead the counterexamples are a set of natural numbers, and `NatLeast`, a lemma
on `WFMin`, gives the least of them.

### The request path

**`SAFServiceProofs`**, for any calls, requests and number of device changes.

`Admission`, `TypeCorrect`, `WakeupNeverLost`: `TypeOK` is not inductive, since
that a dispatcher finds a provider's case for its request needs to know that
only requests which passed the checks get that far. `IInv` adds
`QueuesAdmitted`, `ThreadsAdmitted` (a thread's state agrees with the call it
holds) and `PdmAdmitted`, one conjunct for each place a call may be in.
`NoLostWakeup` needs `IInv` and the one fact that whoever appends to a queue
goes on to notify it. There is a lemma per action and one that composes them.

`AnswersKeepArrivalOrder`: `AnsweredInOrder` speaks of the answers only;
`OrderInv` carries the order through the queue. `AtHome` says that a request
which is to be answered in turn lies with the provider it is routed to,
`QueueInOrder` that the queue is in the order of arrival behind the request at
work, and `AnsweredFirst` that all that was answered arrived before all that is
left. `OutOfTurn` keeps PDM's answers apart. A step is one of a few kinds
(nothing moves, a request is pushed, one is taken up, the one at work is
answered) with a lemma each, and every action is shown to be of a kind.

`ImplementsMailboxes`: `Spec` implements `Mailboxes` under the mapping of
section 2. There is a lemma for each group of actions that names the abstract
step it maps to (a handler that answers is `Serve`, a stage of
`listStorageProviders` is `PassOn`, notifying and waking map to nothing).
Besides `IInv` it needs `HoldersKnown`: a thread inside a handler holds a call,
and the main loop is in a stage callback only for a call that PDM has a
subscription for, since otherwise `Report` would not be enabled.

`NoDuplicates` and `ListsComplete`: `NothingDuplicated` counts a request over
the queues, the threads, PDM's calls and the answers. `CountInv` says that what
there is of a message, pending or answered, is paid for by its arrival and the
device changes PDM has reported; the lemmas before it say how `push`, `pop` and
an answer change a number. `RoundInv` follows the JSON object of a listing
through its round: the provider that has the request is the one the object
names, and the sections of the storages before it are there, each once.

### Drives

**`NetworkDrivesProofs`**: `TypeCorrect`, `DrivesConsistent`, and from it
`NoOrphanMounts`, `DestinationCheckIsSound` and `RefusalIsTrue`, for any shares,
hosts and time stamps. `IInv` has five parts:
`DrivesDistinct` (the maps are injective and their ids below the counter),
`MountsMatch` (mounts are the mount points of the drives, but for the one being
ejected), `ChecksNoted`, `RefusedShareIsMounted` and `DestinationCheckSound`.
The hard cases are `eject`, which erases the share's key, unmounts, and only
then clears the rest, and the `operator[]` of a check, which writes into the
copy at any moment. `ChecksNoted` says that what a check has found is still
there or was noted by the last clear (`overtaken`), and so are the entries of no
drive.
`EjectAnswersAreTrue` adds `EjectedIsGone`: after an eject that succeeded the
provider has nothing of the drive until the next answer, and the utility's copy
has it only if a check that the clear overtook put it there.
`ServersRegisterOnce` adds to
`ServersAreDrivesOnce` that the ids given lie between one and the counter, so
that the next one is new.

**`UsbDevicesProofs`**: `TypeCorrect`, `MountedOnly`, `ThatDeviceOnly` and
`AnswersExact`, for any device lists, any ids, and any number of lists that
arrive between two lookups. `OperatesOnMounted` speaks of the end of a request;
`DrivesChecked` says before it that each drive has been found mounted or its
lookup is still to come, `TodoInv` that the lookups that end a request come
last, and `SeenInv` that the list in force is among those seen. `TypeOK` carries
the step from the table, which may be half filled, to the list: what it holds is
what the list holds. `AnswersExact` is about requests that no list overtakes:
then the table is the list (`QuietTable`), the lookups come in the order of the
request (`TodoOrder`), and those that are over found what the list says
(`QuietChecked`). Several drives of a list may have one uuid: every lookup takes
the first of them.

### Files

**`FileTransfersProofs`**, for any names, depth, workers and requests.

`TypeCorrect` and `FilesAreSafe`: `TypeOK` is inductive because it says that the
file system is a tree, ties a worker's next call to its job, and keeps what
`fs::copy` has left to do below its source and its destination; `TreeWith`,
`TreeWithout`, `TreeDirectories` and `TreeRenamed` show that each way to change
the file system leaves it a tree. `NothingClobbered` follows, since a call then
changes only paths that the job licenses.

`RefusalsRight`: a request with nobody else at work is refused exactly for the
reason its reply gives. `QuietInv` says what each stage of such a request knows
of the file system, which is still the one it found.

`SuccessesExact`: a request that succeeds with nobody else at work leaves
exactly the files it should. `ExactInv` says for each stage what is done and
what is not: `fs::copy` has made what is not in its `todo`, and what it has
still to do is below its source; a copy that is over has made the whole of the
source below the destination, and a removal that is over has left nothing, since
the deepest of what is left could have been removed (`LeafBelow`). Three
exceptions are part of the property: the destination is a file (section 3), a
file of the source meets a directory, and the source lies below its own target,
where an overwriting copy replaces entries that it has yet to read. The last
needs deeper trees than `transfers` has; TLC finds it when `Depth` is raised.

**`FolderPagesProofs`**: `TypeCorrect`, `PagesInBounds`, `PagesAsAsked` and
`FolderTiled`, for every width of `int`, folder, offset and limit. `IInv` adds
`ContentsFit`: what was read is no longer than the slots passed, hence fits an
`int` (`SlotsAssumption`). The arithmetic is in `BoundsOfPage` and
`PageIsExact`, which show that the clamping makes up for a sum that wrapped when
the request is a sensible one. For `FolderTiled`, that a client which pages
through a folder nobody changes gets each visible file once, `TileInv` gives
each visible place a `rank`, the number of visible places up to it. What was
read is the files in the order of their ranks (`ReadSoFar`), and a pager has got
those whose rank is below its next offset (`GotSoFar`).

### Cloud

**`CloudAccountsProofs`**, for any finite set of clients, any drives and files
and any calls that throw.

`CredentialsSound`: `CredentialBehindToken` alone is not inductive, because a
login could hand out an id that is taken; `IInv` adds `DriveIdsCounted`, the ids
in use lie between one and the number of accounts.

`CacheIsTrue`: `CacheInv` adds to `CacheTruthful` that the files a load has
still to visit are there under the path it has for them (`PendingIn`) and that
only folders hold files, in the root (`Shape`). A step reloads the cache of a
drive, lets the drive grow under it, or makes a change the cache is not
answerable for, with a lemma each.

`ListingsShowFolder`: a load that nobody interferes with ends with the path of
every file of the drive in the cache. `LoadInv` says on the way that each file's
path is in the cache, or the file waits to be visited, or lies in a folder that
does. `FolderFound` shows that the search finds a path which is the folder's and
one more word, and `CacheInv` that what the cache has there bears that path.

`MovesAreSafe`: the last call of a move removes its source, and `MoveInv` says
that before it the drive has the content in a file which that removal spares
(`SafeCopy`), although each call may throw before or after it took effect.

`TypeCorrect`: `TypeInv` adds to `TypeOK` what the files of drives and of the
local disk are made of, that the cache maps paths to file ids, and when an
account is at work, a listing under way or a move to be finished.

### Media servers

**`UpnpBrowseProofs`**, for any servers, trees, paths and failures.

`WholePathOnly` and `FailuresAreSaid`: `WalkInv` says that a walk has the names
and the server of its own request, that `met` has the objects these names led
to, and that whoever arrives has walked all of them and has the number of the
last; `FailInv` that a failed call leaves the walk nowhere, so that nothing can
be listed after it.

`TypeCorrect`: `NamesEquation` and `NamesTyped` show what `namesIn`, a recursive
function, makes of any path: words, of which only the last may be empty, and
then the split throws before there is a walk.

`SettledAnswers`: a listing of a server that does not change is what a container
at the path holds, when the ids on the way are just numbers (`exactIds`);
`ExactBrowse` shows that such a container is asked for by its own id.
`reach(t, p)` has the objects that the first names of a path
lead to; `SettledInv` (`OnTheWay`) says that the walk is at one of them, at the
only one where titles are unique, and that a walk which ended nowhere without a
failure has shown that there is none.

**`CallbackProofs`**: the components whose callbacks the main loop runs.
`ScanTyped` and `ScansAreFresh` are about `UpnpScan`, for any servers and any
number of scans and announcements: the timers attached are no more than the
scans asked for, and what is pushed, even after the second loop returned, was
announced since its scan began (`ScanInv`). `NotificationsMirrored` and
`MainLoopIsSafe` are about `ClientWatch` (whose specification is `WatchSpec`), for any watches: `WatchInv` adds that
the status callback is registered only for a watch that exists, and that a
destructor on the main loop has removed the source before anything else.

### Only model-checked

`EveryCallAnswered`, `TransfersEnd` and `ScanEnds`: liveness under fairness is
outside the prover. The definitions that runs refute
(section 3) are false of the code.

## 5. The plan

The order of work was: the request path (everything passes through it), the
state that threads share without a lock (`NetworkDrives`, `UsbDevices`,
`FileTransfers`, `ClientWatch`), failures half-way (`CloudAccounts`), then
listings and UPnP, then the abstract request path, directory trees and the
listing of a drive by text search, then the proofs. Left, in order:

1. An abstract drive table (share to mounted or not) and a refinement from
   `NetworkDrives`.
2. More of the system: the temporary directory of uploads and downloads, which two
   copies of files with one name share; the window of a listing in
   `CloudAccounts`, whose files are fetched one by one.

## 6. Running it

`tlc -workers 2 -config <run>.cfg MC<module>` for a run, the longest of which
takes about two minutes on two cores; `tlapm <module>Proofs.tla` for the proofs. Of
the community modules only `Functions` is used; the proofs cite
`SequenceTheorems`, `FiniteSetTheorems`, `FunctionTheorems` and
`WellFoundedInduction`.
