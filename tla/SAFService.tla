------------------------------ MODULE SAFService ------------------------------
(***************************************************************************)
(* The request path of the storage access service, end to end:             *)
(*                                                                         *)
(*   SAFLunaService          Luna method handlers and reply callbacks      *)
(*   DocumentProviderManager routing of a request to a provider            *)
(*   {Internal,USB,GDrive,Network}Provider                                 *)
(*                           a request queue guarded by a mutex and a      *)
(*                           condition variable, drained by one detached   *)
(*                           dispatcher thread                             *)
(*   PDM (external)          the service that answers for USB devices      *)
(*                                                                         *)
(* Threads are the main loop (MAIN) and one dispatcher per provider.       *)
(* handleRequests drops the future of std::async, whose destructor waits,  *)
(* so a dispatcher is inside at most one handler at a time.  What a        *)
(* handler does to files and drives is the subject of other modules: here  *)
(* it is reduced to when, and how often, it answers.                       *)
(***************************************************************************)
EXTENDS Naturals, Sequences, FiniteSets

CONSTANTS Calls,      \* Luna messages that clients may send
          Requests,   \* the request contents they may carry
          None,       \* "no request", "no call", "no provider"
          MaxLater,   \* bound: PDM notifications after the first answer
          PdmWaits    \* do device changes keep clear of a listing under way?

Providers == {"INTERNAL", "USB", "GDRIVE", "NETWORK"}
Main == "MAIN"
Threads == Providers \cup {Main}

Methods == {"LIST", "GET_PROP", "LIST_STORAGES", "COPY", "MOVE", "REMOVE",
            "EJECT", "RENAME", "EXTRA"}
StorageNames == {"internal", "usb", "cloud", "network"}

\* What the handlers tell apart in a request.  storage is storageType, or
\* srcStorageType for copy and move; dest is destStorageType; upnp says that
\* a drive id holds "UPNP" or, for EXTRA, that the operation is
\* discoverUPnPMediaServer; path that the optional path is present; fault
\* that the schema rejects the payload or that a parameter is out of range.
RequestType == [method  : Methods,
                storage : StorageNames \cup {"other"},
                dest    : StorageNames \cup {"other", "none"},
                upnp    : BOOLEAN,
                path    : BOOLEAN,
                fault   : {"none", "schema", "param"}]

ASSUME RequestsAssumption == Requests \subseteq RequestType
ASSUME NoneAssumption ==
  None \notin Calls /\ None \notin Requests /\ None \notin Providers
ASSUME MaxLaterAssumption == MaxLater \in Nat
ASSUME PdmAssumption == PdmWaits \in BOOLEAN

VARIABLES
  req,         \* [Calls -> request]: the payload of each message received
  arrivals,    \* the messages, in the order the main loop received them
  mQueue,      \* [Providers -> Seq(Calls)]: pending RequestData
  pc,          \* what each thread is doing
  cur,         \* the call whose RequestData a thread is handling
  wake,        \* the provider a thread pushed to and has not notified yet
  params,      \* the JSON object all stages of a listStorageProviders share
  pdmCall,     \* the one-shot PDM call a message waits for; "lost" when its
               \* answer, or that of a subscription, could not be read
  fresh,       \* PDM device subscriptions still waiting for a first answer
  subscribed,  \* has the message an answered device subscription?
  later,       \* notifications received beyond the first answers
  sent         \* replies posted to clients, in order

queueVars == <<mQueue, wake>>
pdmVars   == <<pdmCall, fresh, subscribed, later>>
vars      == <<req, arrivals, mQueue, pc, cur, wake, params, pdmCall, fresh,
               subscribed, later, sent>>

-----------------------------------------------------------------------------
(* Where a message is: what the counting property and PdmWaits speak of.   *)

answersTo(c) == Cardinality({i \in DOMAIN sent : sent[i].call = c})
queuedTimes(c) ==
  Cardinality(UNION {{<<p, i>> : i \in {j \in DOMAIN mQueue[p] : mQueue[p][j] = c}}
                       : p \in Providers})
\* A thread that has pushed the next request keeps cur until it notified.
handledTimes(c) ==
  Cardinality({t \in Threads : cur[t] = c /\ pc[t] # "notifying"})
pendingTimes(c) ==
  queuedTimes(c) + handledTimes(c) + fresh[c]
    + (IF pdmCall[c] \in {"none", "lost"} THEN 0 ELSE 1)

-----------------------------------------------------------------------------
(* Routing.                                                                *)

getStorageDeviceType(name) ==
  CASE name = "internal" -> "INTERNAL"
    [] name = "usb"      -> "USB"
    [] name = "cloud"    -> "GDRIVE"
    [] name = "network"  -> "NETWORK"
    [] OTHER             -> "INVALID"

\* The provider DocumentProviderManager::addRequest hands a request to: a
\* copy or move into the cloud is the cloud provider's, whatever its source.
routeOf(r) ==
  IF /\ r.method \in {"COPY", "MOVE"}
     /\ getStorageDeviceType(r.storage) # "GDRIVE"
     /\ r.dest = "cloud"
  THEN "GDRIVE"
  ELSE getStorageDeviceType(r.storage)

\* The error a method handler answers with by itself, or "none".
\* handleExtraCommand checks no parameter; listStorageProviders takes none.
rejectionOf(r) ==
  IF r.fault = "schema" THEN "INVALID_JSON_FORMAT"
  ELSE IF r.method = "LIST_STORAGES" THEN "none"
  ELSE IF r.fault = "param" /\ r.method # "EXTRA" THEN "INVALID_PARAM"
  ELSE IF \/ getStorageDeviceType(r.storage) = "INVALID"
          \/ /\ r.method \in {"COPY", "MOVE"}
             /\ getStorageDeviceType(r.dest) = "INVALID"
       THEN "STORAGE_TYPE_NOT_SUPPORTED"
  ELSE "none"

postToClient(c, kind, sections) ==
  sent' = Append(sent, [call |-> c, kind |-> kind, sections |-> sections])

\* Mutant: a request goes to the front of the queue.
addRequest_Front(t, p, c) ==
  /\ mQueue' = [mQueue EXCEPT ![p] = <<c>> \o @]
  /\ wake' = [wake EXCEPT ![t] = p]
  /\ pc' = [pc EXCEPT ![t] = "notifying"]

\* addRequest of every provider: push_back under the mutex; the notify_one
\* that follows the unlock is a step of its own (notify_one below).
addRequest(t, p, c) ==
  /\ mQueue' = [mQueue EXCEPT ![p] = Append(@, c)]
  /\ wake' = [wake EXCEPT ![t] = p]
  /\ pc' = [pc EXCEPT ![t] = "notifying"]

-----------------------------------------------------------------------------
(* Luna method handlers, run by the main loop one at a time.               *)

receive(c, r) ==
  /\ pc[Main] = "ready"
  /\ req[c] = None
  /\ req' = [req EXCEPT ![c] = r]
  /\ arrivals' = Append(arrivals, c)
  /\ UNCHANGED <<cur, pdmVars>>

\* The shape shared by the device methods: refuse, or build the RequestData
\* and hand it to the manager.
deviceMethod(c, m) ==
  \E r \in Requests :
    /\ r.method = m
    /\ receive(c, r)
    /\ \/ /\ rejectionOf(r) # "none"
          /\ postToClient(c, rejectionOf(r), <<>>)
          /\ UNCHANGED <<queueVars, pc>>
       \/ /\ rejectionOf(r) = "none"
          /\ addRequest(Main, routeOf(r), c)
          /\ UNCHANGED sent
    /\ UNCHANGED params

handleExtraCommand(c) == deviceMethod(c, "EXTRA")
list(c)               == deviceMethod(c, "LIST")
getProperties(c)      == deviceMethod(c, "GET_PROP")
copy(c)               == deviceMethod(c, "COPY")
move(c)               == deviceMethod(c, "MOVE")
remove(c)             == deviceMethod(c, "REMOVE")
eject(c)              == deviceMethod(c, "EJECT")
rename(c)             == deviceMethod(c, "RENAME")

listStorageProviders(c) ==
  \E r \in Requests :
    /\ r.method = "LIST_STORAGES"
    /\ receive(c, r)
    /\ \/ /\ rejectionOf(r) # "none"
          /\ postToClient(c, rejectionOf(r), <<>>)
          /\ UNCHANGED <<queueVars, pc, params>>
       \/ /\ rejectionOf(r) = "none"
          /\ params' = [params EXCEPT ![c].storageType = "usb"]
          /\ addRequest(Main, "USB", c)
          /\ UNCHANGED sent

-----------------------------------------------------------------------------
(* The dispatcher thread of a provider.                                    *)

\* Mutant: the notification is forgotten.
notify_one_Nobody(t) ==
  /\ pc[t] = "notifying"
  /\ pc' = [pc EXCEPT ![t] = "ready"]
  /\ wake' = [wake EXCEPT ![t] = None]
  /\ cur' = [cur EXCEPT ![t] = None]
  /\ UNCHANGED <<req, arrivals, mQueue, params, pdmVars, sent>>

\* mCondVar.notify_one(): wakes the dispatcher if it is blocked, and is lost
\* otherwise.  The notifying thread then leaves its handler or callback.
notify_one(t) ==
  /\ pc[t] = "notifying"
  /\ pc' = [s \in Threads |->
              IF s = t \/ (s = wake[t] /\ pc[s] = "blocked") THEN "ready"
              ELSE pc[s]]
  /\ wake' = [wake EXCEPT ![t] = None]
  /\ cur' = [cur EXCEPT ![t] = None]
  /\ UNCHANGED <<req, arrivals, mQueue, params, pdmVars, sent>>

\* Mutant: mCondVar.wait without its predicate.
waitForRequest_NoPredicate(p) ==
  /\ pc[p] = "ready"
  /\ pc' = [pc EXCEPT ![p] = "blocked"]
  /\ UNCHANGED <<req, arrivals, queueVars, cur, params, pdmVars, sent>>

\* mCondVar.wait: the predicate is evaluated, and the thread blocked, with
\* the mutex held, so no push falls between the two.
waitForRequest(p) ==
  /\ pc[p] = "ready"
  /\ mQueue[p] = <<>>
  /\ pc' = [pc EXCEPT ![p] = "blocked"]
  /\ UNCHANGED <<req, arrivals, queueVars, cur, params, pdmVars, sent>>

spuriousWakeup(p) ==
  /\ pc[p] = "blocked"
  /\ pc' = [pc EXCEPT ![p] = "ready"]
  /\ UNCHANGED <<req, arrivals, queueVars, cur, params, pdmVars, sent>>

\* Mutant: the newest request is taken instead of the oldest.
dispatchHandler_Newest(p) ==
  /\ pc[p] = "ready"
  /\ mQueue[p] # <<>>
  /\ cur' = [cur EXCEPT ![p] = mQueue[p][Len(mQueue[p])]]
  /\ mQueue' = [mQueue EXCEPT ![p] = SubSeq(@, 1, Len(@) - 1)]
  /\ pc' = [pc EXCEPT ![p] = "running"]
  /\ UNCHANGED <<req, arrivals, wake, params, pdmVars, sent>>

\* Mutant: the request is read and not erased.
dispatchHandler_NoErase(p) ==
  /\ pc[p] = "ready"
  /\ mQueue[p] # <<>>
  /\ cur' = [cur EXCEPT ![p] = Head(mQueue[p])]
  /\ pc' = [pc EXCEPT ![p] = "running"]
  /\ UNCHANGED <<req, arrivals, queueVars, params, pdmVars, sent>>

dispatchHandler(p) ==
  /\ pc[p] = "ready"
  /\ mQueue[p] # <<>>
  /\ cur' = [cur EXCEPT ![p] = Head(mQueue[p])]
  /\ mQueue' = [mQueue EXCEPT ![p] = Tail(@)]
  /\ pc' = [pc EXCEPT ![p] = "running"]
  /\ UNCHANGED <<req, arrivals, wake, params, pdmVars, sent>>

-----------------------------------------------------------------------------
(* handleRequests of each provider: which methods have a case.             *)

internalMethods == Methods \ {"EXTRA"}
usbMethods      == Methods \ {"EXTRA"}
gdriveMethods   == Methods
networkMethods  == Methods

methodsOf(p) == CASE p = "INTERNAL" -> internalMethods
                  [] p = "USB"      -> usbMethods
                  [] p = "GDRIVE"   -> gdriveMethods
                  [] p = "NETWORK"  -> networkMethods

\* validateInterProviderOperation answers "Operation not Permitted" for a
\* UPnP destination and goes on to the Samba path check, which such a drive
\* id fails as well: two answers.
answeredTwice(r) ==
  r.method \in {"COPY", "MOVE"} /\ r.dest = "network" /\ r.upnp

\* How often a handler calls reqData->cb before it returns.
\*  - The internal and USB handlers look at the source drive first (one
\*    answer) and validate the destination after that.
\*  - The Google Drive library throws on an HTTP error; the exception ends in
\*    the dropped future and nobody answers.  Only eject never talks to the
\*    server.  A destination on a UPnP server is refused before that.
\*  - std::stoi throws on the ids of a UPnP directory listing.
internalAnswers(r) == IF answeredTwice(r) THEN {1, 2} ELSE {1}
usbAnswers(r) == IF answeredTwice(r) THEN {1, 2} ELSE {1}
gdriveAnswers(r) ==
  IF answeredTwice(r) THEN {2}
  ELSE IF r.method = "EJECT" THEN {1} ELSE {0, 1}
networkAnswers(r) ==
  IF answeredTwice(r) THEN {2}
  ELSE IF r.method \in {"LIST", "GET_PROP"} /\ r.upnp THEN {0, 1} ELSE {1}

answersOf(p, r) == CASE p = "INTERNAL" -> internalAnswers(r)
                     [] p = "USB"      -> usbAnswers(r)
                     [] p = "GDRIVE"   -> gdriveAnswers(r)
                     [] p = "NETWORK"  -> networkAnswers(r)

inHandler(p, methods) ==
  /\ pc[p] = "running"
  /\ req[cur[p]].method \in methods

leaveHandler(p) ==
  /\ pc' = [pc EXCEPT ![p] = "ready"]
  /\ cur' = [cur EXCEPT ![p] = None]

\* The default case of handleRequests: the request is forgotten.
handleUnknown(p) ==
  /\ inHandler(p, Methods \ methodsOf(p))
  /\ leaveHandler(p)
  /\ UNCHANGED <<req, arrivals, queueVars, params, pdmVars, sent>>

\* A handler that answers from the dispatcher thread before it returns.
handleRequests(p) ==
  /\ inHandler(p, methodsOf(p) \ {"LIST_STORAGES"})
  /\ \E n \in answersOf(p, req[cur[p]]) :
       LET answer == [call |-> cur[p], kind |-> "answer", sections |-> <<>>]
       IN  sent' = sent \o [i \in 1..n |-> answer]
  /\ leaveHandler(p)
  /\ UNCHANGED <<req, arrivals, queueVars, params, pdmVars>>

\* A failed scan leaves UpnpDiscover::mScanCompFlag set, and
\* getScannedDevices waits for it to be cleared.
scanHangs ==
  /\ inHandler("NETWORK", {"EXTRA"})
  /\ req[cur["NETWORK"]].upnp
  /\ pc' = [pc EXCEPT !["NETWORK"] = "hung"]
  /\ UNCHANGED <<req, arrivals, queueVars, cur, params, pdmVars, sent>>

\* USB getProperties without a path, and USB eject, hand over to PDM.
getPropertiesMethod ==
  /\ inHandler("USB", {"GET_PROP"})
  /\ ~req[cur["USB"]].path
  /\ pdmCall' = [pdmCall EXCEPT ![cur["USB"]] = "writable"]
  /\ leaveHandler("USB")
  /\ UNCHANGED <<req, arrivals, queueVars, params, fresh, subscribed, later,
                 sent>>

ejectMethod ==
  /\ inHandler("USB", {"EJECT"})
  /\ pdmCall' = [pdmCall EXCEPT ![cur["USB"]] = "eject"]
  /\ leaveHandler("USB")
  /\ UNCHANGED <<req, arrivals, queueVars, params, fresh, subscribed, later,
                 sent>>

\* The USB stage of listStorageProviders subscribes to PDM and returns.
usbListStorages ==
  /\ inHandler("USB", {"LIST_STORAGES"})
  /\ fresh' = [fresh EXCEPT ![cur["USB"]] = @ + 1]
  /\ leaveHandler("USB")
  /\ UNCHANGED <<req, arrivals, queueVars, params, pdmCall, subscribed, later,
                 sent>>

\* The other stages put their section into the shared object and call back.
listStoragesStage(p, section) ==
  /\ inHandler(p, {"LIST_STORAGES"})
  /\ params' = [params EXCEPT ![cur[p]].response = section]
  /\ pc' = [pc EXCEPT ![p] = "replying"]
  /\ UNCHANGED <<req, arrivals, queueVars, cur, pdmVars, sent>>

internalListStorages == listStoragesStage("INTERNAL", "internal")
gdriveListStorages   == listStoragesStage("GDRIVE", "cloud")
networkListStorages  == listStoragesStage("NETWORK", "network")

-----------------------------------------------------------------------------
(* Answers of PDM, delivered by the main loop.                             *)

\* The answer to isWritableDrive: ask for the space next.
onGetPropertiesReply(c) ==
  /\ pc[Main] = "ready"
  /\ pdmCall[c] = "writable"
  /\ pdmCall' = [pdmCall EXCEPT ![c] = "space"]
  /\ UNCHANGED <<req, arrivals, queueVars, pc, cur, params, fresh, subscribed,
                 later, sent>>

onReply(c) ==
  /\ pc[Main] = "ready"
  /\ pdmCall[c] \in {"space", "eject"}
  /\ pdmCall' = [pdmCall EXCEPT ![c] = "none"]
  /\ postToClient(c, "answer", <<>>)
  /\ UNCHANGED <<req, arrivals, queueVars, pc, cur, params, fresh, subscribed,
                 later>>

\* The subscription is never cancelled: every notification calls back.
onListStoragesMethodReply(c) ==
  /\ pc[Main] = "ready"
  /\ \/ /\ fresh[c] > 0
        /\ fresh' = [fresh EXCEPT ![c] = @ - 1]
        /\ subscribed' = [subscribed EXCEPT ![c] = TRUE]
        /\ UNCHANGED later
     \/ /\ subscribed[c]
        /\ later[c] < MaxLater
        /\ PdmWaits => pendingTimes(c) = 0
        /\ later' = [later EXCEPT ![c] = @ + 1]
        /\ UNCHANGED <<fresh, subscribed>>
  /\ params' = [params EXCEPT ![c].response = "usb", ![c].storageType = "usb"]
  /\ pc' = [pc EXCEPT ![Main] = "replying"]
  /\ cur' = [cur EXCEPT ![Main] = c]
  /\ UNCHANGED <<req, arrivals, queueVars, pdmCall, sent>>

\* A payload that does not parse: every PDM callback returns silently.
unparsableAnswer(c) ==
  /\ pc[Main] = "ready"
  /\ \/ /\ pdmCall[c] \notin {"none", "lost"}
        /\ UNCHANGED <<fresh, subscribed>>
     \/ /\ fresh[c] > 0
        /\ fresh' = [fresh EXCEPT ![c] = @ - 1]
        /\ subscribed' = [subscribed EXCEPT ![c] = TRUE]
  /\ pdmCall' = [pdmCall EXCEPT ![c] = "lost"]
  /\ UNCHANGED <<req, arrivals, queueVars, pc, cur, params, later, sent>>

-----------------------------------------------------------------------------
(* onListOfStoragesReply, on the thread of the stage that called back.  It *)
(* takes the stage from the shared object, not from the stage itself.      *)

\* Mutant: the provider's name where its storage type is meant.
nextStage_Gdrive(storage) == IF storage = "usb" THEN "internal"
                             ELSE IF storage = "internal" THEN "gdrive"
                             ELSE "network"

nextStage(storage) == CASE storage = "usb"      -> "internal"
                        [] storage = "internal" -> "cloud"
                        [] storage = "cloud"    -> "network"

\* Mutant: the USB stage adds to the sections of the round before.
onListOfStoragesReply_Appends(t) ==
  LET c == cur[t]
      P == params[c]
  IN  /\ pc[t] = "replying"
      /\ P.storageType # "network"
      /\ params' = [params EXCEPT
            ![c].storageType = nextStage(P.storageType),
            ![c].listStorageResponse = Append(@, P.response)]
      /\ pc' = [pc EXCEPT ![t] = "building"]
      /\ UNCHANGED <<req, arrivals, queueVars, cur, pdmVars, sent>>

\* Record the section and name the next storage.
onListOfStoragesReply(t) ==
  LET c == cur[t]
      P == params[c]
  IN  /\ pc[t] = "replying"
      /\ P.storageType # "network"
      /\ params' = [params EXCEPT
            ![c].storageType = nextStage(P.storageType),
            ![c].listStorageResponse =
               IF P.storageType = "usb" THEN <<P.response>>
               ELSE Append(@, P.response)]
      /\ pc' = [pc EXCEPT ![t] = "building"]
      /\ UNCHANGED <<req, arrivals, queueVars, cur, pdmVars, sent>>

\* REQUEST_BUILDER reads the storage type back from the shared object.
buildNextRequest(t) ==
  LET c == cur[t]
  IN  /\ pc[t] = "building"
      /\ addRequest(t, getStorageDeviceType(params[c].storageType), c)
      /\ UNCHANGED <<req, arrivals, cur, params, pdmVars, sent>>

\* The last stage answers.
answerListOfStorages(t) ==
  LET c == cur[t]
      sections == Append(params[c].listStorageResponse, params[c].response)
  IN  /\ pc[t] = "replying"
      /\ params[c].storageType = "network"
      /\ params' = [params EXCEPT ![c].listStorageResponse = sections]
      /\ postToClient(c, "answer", sections)
      /\ pc' = [pc EXCEPT ![t] = "ready"]
      /\ cur' = [cur EXCEPT ![t] = None]
      /\ UNCHANGED <<req, arrivals, queueVars, pdmVars>>

-----------------------------------------------------------------------------
Init ==
  /\ req = [c \in Calls |-> None]
  /\ arrivals = <<>>
  /\ mQueue = [p \in Providers |-> <<>>]
  /\ pc = [t \in Threads |-> "ready"]
  /\ cur = [t \in Threads |-> None]
  /\ wake = [t \in Threads |-> None]
  /\ params = [c \in Calls |-> [storageType |-> "none", response |-> "none",
                                listStorageResponse |-> <<>>]]
  /\ pdmCall = [c \in Calls |-> "none"]
  /\ fresh = [c \in Calls |-> 0]
  /\ subscribed = [c \in Calls |-> FALSE]
  /\ later = [c \in Calls |-> 0]
  /\ sent = <<>>

LunaStep(c) ==
  \/ handleExtraCommand(c) \/ list(c) \/ getProperties(c) \/ copy(c) \/ move(c)
  \/ remove(c) \/ eject(c) \/ rename(c) \/ listStorageProviders(c)

PdmStep(c) == onGetPropertiesReply(c) \/ onReply(c)
              \/ onListStoragesMethodReply(c) \/ unparsableAnswer(c)

HandlerStep(p) == handleUnknown(p) \/ handleRequests(p)

UsbStep == getPropertiesMethod \/ ejectMethod \/ usbListStorages

StageStep == internalListStorages \/ gdriveListStorages \/ networkListStorages

CallbackStep(t) == onListOfStoragesReply(t) \/ buildNextRequest(t)
                   \/ answerListOfStorages(t) \/ notify_one(t)

QueueStep(p) == waitForRequest(p) \/ dispatchHandler(p) \/ spuriousWakeup(p)

Next ==
  \/ \E c \in Calls : LunaStep(c) \/ PdmStep(c)
  \/ \E p \in Providers : QueueStep(p) \/ HandlerStep(p)
  \/ \E t \in Threads : CallbackStep(t)
  \/ UsbStep
  \/ StageStep
  \/ scanHangs

Spec == Init /\ [][Next]_vars

\* The C++ runtime and the kernel schedule every runnable thread, the main
\* loop delivers what PDM answers, and PDM answers each call and each
\* subscription once.  Clients and later notifications owe nothing.
Fairness ==
  /\ \A p \in Providers : WF_vars(dispatchHandler(p)) /\ WF_vars(HandlerStep(p))
  /\ \A t \in Threads : WF_vars(CallbackStep(t))
  /\ WF_vars(usbListStorages)
  /\ WF_vars(internalListStorages)
  /\ WF_vars(gdriveListStorages)
  /\ WF_vars(networkListStorages)
  /\ \A c \in Calls :
       /\ WF_vars(onGetPropertiesReply(c))
       /\ WF_vars(onReply(c))
       /\ WF_vars(fresh[c] > 0 /\ onListStoragesMethodReply(c))

FairSpec == Spec /\ Fairness

-----------------------------------------------------------------------------
(* The mailboxes behind the threads.  A dispatcher inside a handler or a   *)
(* callback still has the request; one that notifies has given it away.    *)

Working == {"running", "replying", "building", "hung"}

atWork(p) == IF pc[p] \in Working THEN <<cur[p]>> ELSE <<>>

mailKnown == {c \in Calls : req[c] # None}
mailBox == [p \in Providers |-> atWork(p) \o mQueue[p]]
mailOut == {c \in Calls : \/ pdmCall[c] \notin {"none", "lost"}
                          \/ fresh[c] > 0
                          \/ subscribed[c]}
mailAnswered == [i \in DOMAIN sent |-> sent[i].call]

Mail == INSTANCE Mailboxes WITH
  Outside    <- {"USB"},
  MaxAnswers <- 2,
  known      <- mailKnown,
  box        <- mailBox,
  out        <- mailOut,
  answered   <- mailAnswered

-----------------------------------------------------------------------------
(* Properties.                                                             *)

ThreadStates == {"ready", "blocked", "running", "replying", "building",
                 "notifying", "hung"}
Sections == {"usb", "internal", "cloud", "network"}
SectionLists == Seq(Sections \cup {"none"})
ParamsType == [storageType : StorageNames \cup {"none"},
               response : Sections \cup {"none"},
               listStorageResponse : SectionLists]
ReplyKinds == {"INVALID_JSON_FORMAT", "INVALID_PARAM",
               "STORAGE_TYPE_NOT_SUPPORTED", "answer"}
ReplyType == [call : Calls, kind : ReplyKinds, sections : SectionLists]

\* The shape of the state: every queue holds calls, a thread inside a handler
\* or a callback has a call, and only list calls are in a stage callback.
TypeOK ==
  /\ req \in [Calls -> Requests \cup {None}]
  /\ arrivals \in Seq(Calls)
  /\ mQueue \in [Providers -> Seq(Calls)]
  /\ pc \in [Threads -> ThreadStates]
  /\ cur \in [Threads -> Calls \cup {None}]
  /\ wake \in [Threads -> Providers \cup {None}]
  /\ params \in [Calls -> ParamsType]
  /\ pdmCall \in [Calls -> {"none", "writable", "space", "eject", "lost"}]
  /\ fresh \in [Calls -> Nat]
  /\ subscribed \in [Calls -> BOOLEAN]
  /\ later \in [Calls -> Nat]
  /\ sent \in Seq(ReplyType)

\* No lost wakeup.  addRequest notifies after it has released the mutex: a
\* dispatcher that is blocked in mCondVar.wait although its queue holds a
\* request has its notification still on the way.
NoLostWakeup ==
  \A p \in Providers :
    pc[p] = "blocked" /\ mQueue[p] # <<>> =>
      \E t \in Threads : pc[t] = "notifying" /\ wake[t] = p

\* A request is in one place at a time, over all queues, threads and PDM
\* calls, and an answered request is nowhere any more: nothing is carried out
\* twice and no answer comes before the work is over.  Each notification of
\* the device list pays for one further round of a listStorageProviders, and
\* a UPnP destination for the second answer of validateInterProviderOperation.
NothingDuplicated ==
  \A c \in Calls :
    pendingTimes(c) + answersTo(c) <=
      1 + later[c] + (IF req[c] # None /\ answeredTwice(req[c]) THEN 1 ELSE 0)

arrivedBefore(c, d) ==
  \E i, j \in DOMAIN arrivals : i < j /\ arrivals[i] = c /\ arrivals[j] = d

\* Answered by the dispatcher of its provider, not by PDM or by the handler.
answeredInTurn(r) ==
  /\ rejectionOf(r) = "none"
  /\ r.method # "LIST_STORAGES"
  /\ ~(routeOf(r) = "USB" /\ (r.method = "EJECT"
                               \/ (r.method = "GET_PROP" /\ ~r.path)))

\* Requests to one provider are answered in the order the clients sent them,
\* however the main loop and the dispatchers interleave.
AnsweredInOrder ==
  \A i, j \in DOMAIN sent :
    LET c == sent[i].call
        d == sent[j].call
    IN  /\ i < j /\ c # d
        /\ answeredInTurn(req[c]) /\ answeredInTurn(req[d])
        /\ routeOf(req[c]) = routeOf(req[d])
        => arrivedBefore(c, d)

\* The queues, the mutexes and condition variables, the five threads and the
\* callbacks of PDM implement one mailbox for each provider: whatever the
\* interleaving, only the oldest request of a provider is worked on, and it
\* leaves by being answered, passed to the end of the next queue or handed to
\* PDM, and comes back only when PDM reports on it.
ServesInOrder == Mail!Spec

\* listStorageProviders is answered with the sections of all four providers,
\* in the order of the chain, once for each device list of PDM, although the
\* stages and the rounds all write the same JSON object.  That rests on PDM:
\* a device change while a round is under way (PdmWaits = FALSE) mixes two
\* rounds in the object, and the statement is then about the first answer to
\* a message that has seen no such change.
ListIsComplete ==
  \A i \in DOMAIN sent :
    LET c == sent[i].call
    IN  /\ sent[i].kind = "answer"
        /\ req[c].method = "LIST_STORAGES"
        /\ PdmWaits \/ later[c] = 0
        => sent[i].sections = <<"usb", "internal", "cloud", "network">>

mustAnswer(r) ==
  \/ rejectionOf(r) # "none"
  \/ r.method = "LIST_STORAGES"
  \/ r.method \in methodsOf(routeOf(r)) /\ 0 \notin answersOf(routeOf(r), r)

waitsForNetwork(r) ==
  /\ r # None
  /\ rejectionOf(r) = "none"
  /\ r.method = "LIST_STORAGES" \/ routeOf(r) = "NETWORK"

\* Every request is answered in the end, unless the handler of its provider
\* threw or has no case for it, or PDM's answer could not be read.  A UPnP
\* scan that hangs the network dispatcher delays nobody but the requests that
\* have to pass through it.
EveryCallAnswered ==
  \A c \in Calls :
    (req[c] # None /\ mustAnswer(req[c])) ~>
      \/ answersTo(c) > 0
      \/ pdmCall[c] = "lost"
      \/ pc["NETWORK"] = "hung" /\ waitsForNetwork(req[c])
=============================================================================
