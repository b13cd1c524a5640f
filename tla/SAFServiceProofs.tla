-------------------------- MODULE SAFServiceProofs --------------------------
(***************************************************************************)
(* Theorems about SAFService, for every set of calls and of requests: who  *)
(* is admitted, that no wakeup is lost, the order of the answers, that the *)
(* threads and queues implement Mailboxes, how often a request is anywhere *)
(* and what follows for the JSON object that the stages of a               *)
(* listStorageProviders share.                                             *)
(***************************************************************************)
EXTENDS SAFService, SequenceTheorems, FiniteSetTheorems, FunctionTheorems, TLAPS

\* The messages some thread may work on: they passed their method handler,
\* and a listStorageProviders has a storage type in its JSON object.
Admitted == {c \in Calls :
               /\ req[c] \in Requests
               /\ rejectionOf(req[c]) = "none"
               /\ req[c].method = "LIST_STORAGES" =>
                    params[c].storageType \in StorageNames}

\* The listings among them.
Listings == {c \in Admitted : req[c].method = "LIST_STORAGES"}

\* What the queues hold, what the threads handle and what PDM owes an answer
\* to was admitted; only listings are in the stage callback.
QueuesAdmitted == mQueue \in [Providers -> Seq(Admitted)]

ThreadsAdmitted ==
  \A t \in Threads :
    /\ cur[t] \in Admitted \cup {None}
    /\ pc[t] = "running" => cur[t] \in Admitted
    /\ pc[t] \in {"replying", "building"} => cur[t] \in Listings
    /\ pc[t] = "notifying" <=> wake[t] # None

PdmAdmitted ==
  \A c \in Calls : fresh[c] > 0 \/ subscribed[c] => c \in Listings

\* The inductive invariant.
IInv == TypeOK /\ QueuesAdmitted /\ ThreadsAdmitted /\ PdmAdmitted

-----------------------------------------------------------------------------
(* The operators the actions are built from.                               *)

\* A request the method handlers accept is for one of the four providers.
LEMMA RouteIsProvider ==
  ASSUME NEW r \in RequestType, rejectionOf(r) = "none",
         r.method # "LIST_STORAGES"
  PROVE  routeOf(r) \in Providers
BY DEF rejectionOf, routeOf, getStorageDeviceType, Providers, RequestType,
       StorageNames, Methods

\* The storage type of a listing names a provider, and so does the next one.
LEMMA StageIsProvider ==
  ASSUME NEW s \in StorageNames
  PROVE  getStorageDeviceType(s) \in Providers
BY DEF getStorageDeviceType, Providers, StorageNames

LEMMA NextStageType ==
  ASSUME NEW s \in StorageNames, s # "network"
  PROVE  nextStage(s) \in StorageNames
BY DEF nextStage, StorageNames

\* A handler refuses with an error the clients know.
LEMMA RejectionType ==
  ASSUME NEW r \in RequestType
  PROVE  rejectionOf(r) \in ReplyKinds \cup {"none"}
BY DEF rejectionOf, ReplyKinds

\* A stage starts or continues the list of sections.
LEMMA AddSection ==
  ASSUME NEW r \in Sections \cup {"none"}, NEW l \in SectionLists
  PROVE  <<r>> \in SectionLists /\ Append(l, r) \in SectionLists
<1> DEFINE S == Sections \cup {"none"}
<1> HIDE DEF S
<1>1. l \in Seq(S) /\ r \in S
  BY DEF S, SectionLists
<1>2. <<r>> \in Seq(S) /\ Append(l, r) \in Seq(S)
  BY <1>1
<1> QED BY <1>2 DEF S, SectionLists

\* A positive counter of a message can be decremented.
LEMMA CountDown ==
  ASSUME NEW f \in [Calls -> Nat], NEW c \in Calls, f[c] > 0
  PROVE  [f EXCEPT ![c] = @ - 1] \in [Calls -> Nat]
<1>1. f[c] - 1 \in Nat
  OBVIOUS
<1> QED BY <1>1

\* Sequences over a set are sequences over a larger one.
LEMMA SeqMonotone ==
  ASSUME NEW S, NEW T, S \subseteq T, NEW s \in Seq(S)
  PROVE  s \in Seq(T)
OBVIOUS

LEMMA AdmittedAreCalls == Admitted \subseteq Calls /\ Listings \subseteq Admitted
BY DEF Admitted, Listings

\* A step keeps the admitted messages admitted when it touches neither their
\* payload nor, beyond choosing another storage, their storage type.
LEMMA AdmittedStable ==
  ASSUME \A c \in Admitted : /\ req'[c] = req[c]
                             /\ \/ params'[c] = params[c]
                                \/ params'[c].storageType \in StorageNames
  PROVE  Admitted \subseteq Admitted' /\ Listings \subseteq Listings'
BY DEF Admitted, Listings

\* Initially nothing is queued, handled or owed.
LEMMA InitIInv == Init => IInv
<1> SUFFICES ASSUME Init PROVE IInv
  OBVIOUS
<1>1. TypeOK
  BY DEF Init, TypeOK, ThreadStates, ParamsType, SectionLists
<1>2. QueuesAdmitted /\ ThreadsAdmitted /\ PdmAdmitted
  BY DEF Init, QueuesAdmitted, ThreadsAdmitted, PdmAdmitted
<1> QED BY <1>1, <1>2 DEF IInv

-----------------------------------------------------------------------------
(* Every action preserves IInv.                                            *)

LEMMA NotifyPreserves ==
  ASSUME IInv, NEW t \in Threads, notify_one(t)
  PROVE  IInv'
<1> USE DEF notify_one, pdmVars
<1>1. TypeOK'
  BY DEF IInv, TypeOK, ThreadStates
<1>2. Admitted \subseteq Admitted' /\ Listings \subseteq Listings'
  BY AdmittedStable
<1>3. QueuesAdmitted'
  BY <1>2, SeqMonotone DEF IInv, QueuesAdmitted
<1>4. ThreadsAdmitted'
  BY <1>2 DEF IInv, TypeOK, ThreadsAdmitted
<1>5. PdmAdmitted'
  BY <1>2 DEF IInv, PdmAdmitted
<1> QED BY <1>1, <1>3, <1>4, <1>5 DEF IInv

LEMMA WaitPreserves ==
  ASSUME IInv, NEW p \in Providers, waitForRequest(p) \/ spuriousWakeup(p)
  PROVE  IInv'
<1> USE DEF waitForRequest, spuriousWakeup, queueVars, pdmVars
<1>1. TypeOK'
  BY DEF IInv, TypeOK, ThreadStates
<1>2. Admitted \subseteq Admitted' /\ Listings \subseteq Listings'
  BY AdmittedStable
<1>3. QueuesAdmitted'
  BY <1>2, SeqMonotone DEF IInv, QueuesAdmitted
<1>4. ThreadsAdmitted'
  BY <1>2 DEF IInv, TypeOK, ThreadsAdmitted, Threads
<1>5. PdmAdmitted'
  BY <1>2 DEF IInv, PdmAdmitted
<1> QED BY <1>1, <1>3, <1>4, <1>5 DEF IInv

LEMMA DispatchPreserves ==
  ASSUME IInv, NEW p \in Providers, dispatchHandler(p)
  PROVE  IInv'
<1> USE DEF dispatchHandler, pdmVars
<1>1. mQueue[p] \in Seq(Calls) /\ mQueue[p] \in Seq(Admitted)
  BY DEF IInv, TypeOK, QueuesAdmitted
<1>2. TypeOK'
  BY <1>1 DEF IInv, TypeOK, ThreadStates, Threads
<1>3. Admitted \subseteq Admitted' /\ Listings \subseteq Listings'
  BY AdmittedStable
<1>4. QueuesAdmitted'
  BY <1>1, <1>3, SeqMonotone DEF IInv, QueuesAdmitted
<1>5. ThreadsAdmitted'
  BY <1>1, <1>3 DEF IInv, TypeOK, ThreadsAdmitted, Threads
<1>6. PdmAdmitted'
  BY <1>3 DEF IInv, PdmAdmitted
<1> QED BY <1>2, <1>4, <1>5, <1>6 DEF IInv

LEMMA HandlerPreserves ==
  ASSUME IInv, NEW p \in Providers, handleUnknown(p) \/ handleRequests(p)
  PROVE  IInv'
<1> USE DEF inHandler, leaveHandler, queueVars, pdmVars
<1>1. p \in Threads /\ cur[p] \in Calls /\ UNCHANGED <<req, params, mQueue, wake>>
  BY DEF IInv, ThreadsAdmitted, Threads, Admitted, handleUnknown,
         handleRequests
<1>2. sent' \in Seq(ReplyType)
  <2>1. CASE handleUnknown(p)
    BY <2>1 DEF handleUnknown, IInv, TypeOK
  <2>2. CASE handleRequests(p)
    <3> DEFINE answer == [call |-> cur[p], kind |-> "answer", sections |-> <<>>]
    <3>1. answer \in ReplyType
      BY <1>1 DEF ReplyType, ReplyKinds, SectionLists
    <3>2. PICK n \in answersOf(p, req[cur[p]]) :
            sent' = sent \o [i \in 1..n |-> answer]
      BY <2>2 DEF handleRequests
    <3>3. n \in Nat
      <4>1. p \in {"INTERNAL", "USB", "GDRIVE", "NETWORK"}
        BY DEF Providers
      <4>2. answersOf(p, req[cur[p]]) \subseteq {0, 1, 2}
        BY <4>1 DEF answersOf, internalAnswers, usbAnswers, gdriveAnswers,
                    networkAnswers
      <4> QED BY <4>2
    <3>4. [i \in 1..n |-> answer] \in Seq(ReplyType)
      BY <3>1, <3>3
    <3> HIDE DEF answer
    <3> QED BY <3>2, <3>4 DEF IInv, TypeOK
  <2> QED BY <2>1, <2>2
<1>3. TypeOK'
  BY <1>1, <1>2 DEF IInv, TypeOK, ThreadStates, handleUnknown, handleRequests
<1>4. Admitted \subseteq Admitted' /\ Listings \subseteq Listings'
  BY <1>1, AdmittedStable
<1>5. QueuesAdmitted'
  BY <1>1, <1>4, SeqMonotone DEF IInv, QueuesAdmitted
<1>6. ThreadsAdmitted'
  BY <1>1, <1>4 DEF IInv, TypeOK, ThreadsAdmitted, handleUnknown, handleRequests
<1>7. PdmAdmitted'
  BY <1>4 DEF IInv, PdmAdmitted, handleUnknown, handleRequests
<1> QED BY <1>3, <1>5, <1>6, <1>7 DEF IInv

LEMMA UsbPreserves ==
  ASSUME IInv, getPropertiesMethod \/ ejectMethod \/ usbListStorages
  PROVE  IInv'
<1> USE DEF getPropertiesMethod, ejectMethod, usbListStorages, inHandler,
            leaveHandler, queueVars
<1>1. "USB" \in Threads /\ "USB" \in Providers /\ cur["USB"] \in Admitted
  BY DEF IInv, ThreadsAdmitted, Threads, Providers
<1>2. cur["USB"] \in Calls
  BY <1>1, AdmittedAreCalls
<1>3. TypeOK'
  <2>1. CASE getPropertiesMethod
    BY <1>1, <1>2, <2>1 DEF IInv, TypeOK, ThreadStates
  <2>2. CASE ejectMethod
    BY <1>1, <1>2, <2>2 DEF IInv, TypeOK, ThreadStates
  <2>3. CASE usbListStorages
    BY <1>1, <1>2, <2>3 DEF IInv, TypeOK, ThreadStates
  <2> QED BY <2>1, <2>2, <2>3
<1>4. Admitted \subseteq Admitted' /\ Listings \subseteq Listings'
  BY AdmittedStable
<1>5. QueuesAdmitted'
  BY <1>4, SeqMonotone DEF IInv, QueuesAdmitted
<1>6. ThreadsAdmitted'
  BY <1>1, <1>4 DEF IInv, TypeOK, ThreadsAdmitted
<1>7. PdmAdmitted'
  <2>1. ~usbListStorages => UNCHANGED <<fresh, subscribed>>
    OBVIOUS
  <2>2. usbListStorages => cur["USB"] \in Listings
    BY <1>1 DEF Listings
  <2> QED BY <1>2, <1>4, <2>1, <2>2 DEF IInv, PdmAdmitted, TypeOK
<1> QED BY <1>3, <1>5, <1>6, <1>7 DEF IInv

LEMMA StagePreserves ==
  ASSUME IInv, NEW p \in Providers, NEW section \in Sections,
         listStoragesStage(p, section)
  PROVE  IInv'
<1> USE DEF listStoragesStage, inHandler, queueVars, pdmVars
<1>1. p \in Threads /\ cur[p] \in Listings
  BY DEF IInv, ThreadsAdmitted, Threads, Listings
<1>2. cur[p] \in Calls
  BY <1>1, AdmittedAreCalls
<1>3. \A c \in Calls : params'[c].storageType = params[c].storageType
  BY <1>2 DEF IInv, TypeOK, ParamsType
<1>4. params' \in [Calls -> ParamsType]
  BY <1>2 DEF IInv, TypeOK, ParamsType
<1>5. TypeOK'
  BY <1>1, <1>4 DEF IInv, TypeOK, ThreadStates
<1>6. Admitted \subseteq Admitted' /\ Listings \subseteq Listings'
  BY <1>3 DEF Admitted, Listings
<1>7. QueuesAdmitted'
  BY <1>6, SeqMonotone DEF IInv, QueuesAdmitted
<1>8. ThreadsAdmitted'
  BY <1>1, <1>6 DEF IInv, TypeOK, ThreadsAdmitted
<1>9. PdmAdmitted'
  BY <1>6 DEF IInv, PdmAdmitted
<1> QED BY <1>5, <1>7, <1>8, <1>9 DEF IInv

LEMMA ScanHangsPreserves ==
  ASSUME IInv, scanHangs
  PROVE  IInv'
<1> USE DEF scanHangs, queueVars, pdmVars
<1>1. TypeOK'
  BY DEF IInv, TypeOK, ThreadStates
<1>2. Admitted \subseteq Admitted' /\ Listings \subseteq Listings'
  BY AdmittedStable
<1>3. QueuesAdmitted'
  BY <1>2, SeqMonotone DEF IInv, QueuesAdmitted
<1>4. ThreadsAdmitted'
  BY <1>2 DEF IInv, TypeOK, ThreadsAdmitted, inHandler
<1>5. PdmAdmitted'
  BY <1>2 DEF IInv, PdmAdmitted
<1> QED BY <1>1, <1>3, <1>4, <1>5 DEF IInv

LEMMA PdmReplyPreserves ==
  ASSUME IInv, NEW c \in Calls, onGetPropertiesReply(c) \/ onReply(c)
  PROVE  IInv'
<1> USE DEF onGetPropertiesReply, onReply, queueVars
<1>1. sent' \in Seq(ReplyType)
  <2>1. CASE onGetPropertiesReply(c)
    BY <2>1 DEF IInv, TypeOK
  <2>2. CASE onReply(c)
    <3>1. [call |-> c, kind |-> "answer", sections |-> <<>>] \in ReplyType
      BY DEF ReplyType, ReplyKinds, SectionLists
    <3> QED BY <2>2, <3>1 DEF IInv, TypeOK, postToClient
  <2> QED BY <2>1, <2>2
<1>2. TypeOK'
  BY <1>1 DEF IInv, TypeOK
<1>3. Admitted \subseteq Admitted' /\ Listings \subseteq Listings'
  BY AdmittedStable
<1>4. QueuesAdmitted'
  BY <1>3, SeqMonotone DEF IInv, QueuesAdmitted
<1>5. ThreadsAdmitted'
  BY <1>3 DEF IInv, TypeOK, ThreadsAdmitted
<1>6. PdmAdmitted'
  BY <1>3 DEF IInv, PdmAdmitted
<1> QED BY <1>2, <1>4, <1>5, <1>6 DEF IInv

LEMMA UnparsablePreserves ==
  ASSUME IInv, NEW c \in Calls, unparsableAnswer(c)
  PROVE  IInv'
<1> USE DEF unparsableAnswer, queueVars
<1>1. pdmCall' \in [Calls -> {"none", "writable", "space", "eject", "lost"}]
  BY DEF IInv, TypeOK
<1>2. fresh' \in [Calls -> Nat]
  <2>1. CASE fresh' = fresh
    BY <2>1 DEF IInv, TypeOK
  <2>2. CASE fresh[c] > 0 /\ fresh' = [fresh EXCEPT ![c] = @ - 1]
    BY <2>2, CountDown DEF IInv, TypeOK
  <2> QED BY <2>1, <2>2
<1>3. TypeOK'
  <2>1. subscribed' \in [Calls -> BOOLEAN]
    BY DEF IInv, TypeOK
  <2> QED BY <1>1, <1>2, <2>1 DEF IInv, TypeOK
<1>4. Admitted \subseteq Admitted' /\ Listings \subseteq Listings'
  BY AdmittedStable
<1>5. QueuesAdmitted'
  BY <1>4, SeqMonotone DEF IInv, QueuesAdmitted
<1>6. ThreadsAdmitted'
  BY <1>4 DEF IInv, TypeOK, ThreadsAdmitted
<1>7. PdmAdmitted'
  BY <1>4 DEF IInv, PdmAdmitted, TypeOK
<1> QED BY <1>3, <1>5, <1>6, <1>7 DEF IInv

LEMMA DeviceListPreserves ==
  ASSUME IInv, NEW c \in Calls, onListStoragesMethodReply(c)
  PROVE  IInv'
<1> USE DEF onListStoragesMethodReply, queueVars
<1>1. Main \in Threads /\ c \in Listings
  BY DEF IInv, PdmAdmitted, Threads
<1>2. fresh' \in [Calls -> Nat] /\ later' \in [Calls -> Nat]
  <2>1. CASE fresh' = fresh /\ later' = [later EXCEPT ![c] = @ + 1]
    BY <2>1 DEF IInv, TypeOK
  <2>2. CASE /\ fresh[c] > 0 /\ fresh' = [fresh EXCEPT ![c] = @ - 1]
             /\ later' = later
    BY <2>2, CountDown DEF IInv, TypeOK
  <2> QED BY <2>1, <2>2
<1>3. subscribed' \in [Calls -> BOOLEAN]
  BY DEF IInv, TypeOK
<1>4. params' \in [Calls -> ParamsType]
  <2>1. "usb" \in StorageNames /\ "usb" \in Sections
    BY DEF StorageNames, Sections
  <2>2. [params[c] EXCEPT !.response = "usb", !.storageType = "usb"]
          \in ParamsType
    <3>1. params[c] \in ParamsType
      BY DEF IInv, TypeOK
    <3>2. \A P \in ParamsType :
            [P EXCEPT !.response = "usb", !.storageType = "usb"] \in ParamsType
      BY <2>1 DEF ParamsType
    <3> QED BY <3>1, <3>2
  <2>3. params' = [params EXCEPT ![c] =
                     [params[c] EXCEPT !.response = "usb", !.storageType = "usb"]]
    BY DEF IInv, TypeOK
  <2> QED BY <2>2, <2>3 DEF IInv, TypeOK
<1>5. TypeOK'
  BY <1>1, <1>2, <1>3, <1>4 DEF IInv, TypeOK, ThreadStates
<1>6. Admitted \subseteq Admitted' /\ Listings \subseteq Listings'
  <2> SUFFICES ASSUME NEW d \in Admitted
               PROVE  \/ params'[d] = params[d]
                      \/ params'[d].storageType \in StorageNames
    BY AdmittedStable
  <2>1. d \in Calls
    BY AdmittedAreCalls
  <2> QED BY <2>1 DEF IInv, TypeOK, ParamsType, StorageNames
<1>7. QueuesAdmitted'
  BY <1>6, SeqMonotone DEF IInv, QueuesAdmitted
<1>8. ThreadsAdmitted'
  BY <1>1, <1>6, AdmittedAreCalls DEF IInv, TypeOK, ThreadsAdmitted
<1>9. PdmAdmitted'
  BY <1>1, <1>6 DEF IInv, PdmAdmitted, TypeOK
<1> QED BY <1>5, <1>7, <1>8, <1>9 DEF IInv

LEMMA StageReplyPreserves ==
  ASSUME IInv, NEW t \in Threads, onListOfStoragesReply(t)
  PROVE  IInv'
<1> USE DEF onListOfStoragesReply, queueVars, pdmVars
<1>1. cur[t] \in Listings /\ cur[t] \in Calls
  BY AdmittedAreCalls DEF IInv, ThreadsAdmitted
<1>2. params[cur[t]] \in ParamsType /\ params[cur[t]].storageType \in StorageNames
  BY <1>1 DEF IInv, TypeOK, Admitted, Listings
<1> DEFINE P == params[cur[t]]
           next == nextStage(P.storageType)
           list1 == IF P.storageType = "usb" THEN <<P.response>>
                    ELSE Append(P.listStorageResponse, P.response)
<1>3. next \in StorageNames
  BY <1>2, NextStageType
<1>4. list1 \in SectionLists
  <2>1. P.response \in Sections \cup {"none"} /\ P.listStorageResponse \in SectionLists
    BY <1>2 DEF ParamsType
  <2> QED BY <2>1, AddSection
<1>5. params' = [params EXCEPT ![cur[t]].storageType = next,
                               ![cur[t]].listStorageResponse = list1]
  BY <1>1 DEF IInv, TypeOK, ParamsType
<1> HIDE DEF next, list1
<1>6. params' \in [Calls -> ParamsType]
  <2>1. [P EXCEPT !.storageType = next, !.listStorageResponse = list1] \in ParamsType
    BY <1>2, <1>3, <1>4 DEF ParamsType
  <2>2. params' = [params EXCEPT ![cur[t]] =
                     [P EXCEPT !.storageType = next, !.listStorageResponse = list1]]
    BY <1>1, <1>5 DEF IInv, TypeOK
  <2> QED BY <2>1, <2>2 DEF IInv, TypeOK
<1>7. TypeOK'
  BY <1>6 DEF IInv, TypeOK, ThreadStates
<1>8. Admitted \subseteq Admitted' /\ Listings \subseteq Listings'
  <2> SUFFICES ASSUME NEW d \in Admitted
               PROVE  \/ params'[d] = params[d]
                      \/ params'[d].storageType \in StorageNames
    BY AdmittedStable
  <2>1. d \in Calls
    BY AdmittedAreCalls
  <2> QED BY <1>1, <1>3, <1>5, <2>1 DEF IInv, TypeOK, ParamsType
<1>9. QueuesAdmitted'
  BY <1>8, SeqMonotone DEF IInv, QueuesAdmitted
<1>10. ThreadsAdmitted'
  BY <1>1, <1>8 DEF IInv, TypeOK, ThreadsAdmitted
<1>11. PdmAdmitted'
  BY <1>8 DEF IInv, PdmAdmitted
<1> QED BY <1>7, <1>9, <1>10, <1>11 DEF IInv

LEMMA ListAnswerPreserves ==
  ASSUME IInv, NEW t \in Threads, answerListOfStorages(t)
  PROVE  IInv'
<1> USE DEF answerListOfStorages, queueVars, pdmVars
<1> DEFINE P == params[cur[t]]
           all == Append(P.listStorageResponse, P.response)
<1>1. cur[t] \in Calls /\ P \in ParamsType
  BY AdmittedAreCalls DEF IInv, ThreadsAdmitted, TypeOK
<1>2. all \in SectionLists
  BY <1>1, AddSection DEF ParamsType
<1>3. params' = [params EXCEPT ![cur[t]] =
                   [P EXCEPT !.listStorageResponse = all]]
  BY <1>1 DEF IInv, TypeOK
<1>4. sent' = Append(sent, [call |-> cur[t], kind |-> "answer",
                            sections |-> all])
  BY DEF postToClient
<1> HIDE DEF all
<1>5. sent' \in Seq(ReplyType)
  <2>1. [call |-> cur[t], kind |-> "answer", sections |-> all] \in ReplyType
    BY <1>1, <1>2 DEF ReplyType, ReplyKinds
  <2> QED BY <1>4, <2>1 DEF IInv, TypeOK
<1>6. params' \in [Calls -> ParamsType]
  <2>1. [P EXCEPT !.listStorageResponse = all] \in ParamsType
    BY <1>1, <1>2 DEF ParamsType
  <2> QED BY <1>3, <2>1 DEF IInv, TypeOK
<1>7. TypeOK'
  BY <1>5, <1>6 DEF IInv, TypeOK, ThreadStates
<1>8. Admitted \subseteq Admitted' /\ Listings \subseteq Listings'
  <2>1. \A d \in Calls : params'[d].storageType = params[d].storageType
    BY <1>1, <1>3 DEF IInv, TypeOK, ParamsType
  <2> QED BY <2>1 DEF Admitted, Listings
<1>9. QueuesAdmitted'
  BY <1>8, SeqMonotone DEF IInv, QueuesAdmitted
<1>10. ThreadsAdmitted'
  BY <1>1, <1>8 DEF IInv, TypeOK, ThreadsAdmitted
<1>11. PdmAdmitted'
  BY <1>8 DEF IInv, PdmAdmitted
<1> QED BY <1>7, <1>9, <1>10, <1>11 DEF IInv

\* addRequest on behalf of a thread, for a message that is admitted after the
\* step: the part of the next three lemmas they have in common.
LEMMA AddRequestPreserves ==
  ASSUME IInv, NEW t \in Threads, NEW p \in Providers, NEW c \in Admitted',
         addRequest(t, p, c), pc[t] # "notifying",
         Admitted \subseteq Admitted', Listings \subseteq Listings',
         UNCHANGED <<cur, pdmVars>>
  PROVE  /\ mQueue' \in [Providers -> Seq(Calls)]
         /\ pc' \in [Threads -> ThreadStates]
         /\ wake' \in [Threads -> Providers \cup {None}]
         /\ QueuesAdmitted' /\ ThreadsAdmitted' /\ PdmAdmitted'
<1> USE DEF addRequest, pdmVars
<1>1. c \in Calls
  BY DEF Admitted
<1>2. mQueue' \in [Providers -> Seq(Calls)]
  BY <1>1 DEF IInv, TypeOK
<1>3. QueuesAdmitted'
  <2>1. \A q \in Providers : mQueue[q] \in Seq(Admitted')
    BY SeqMonotone DEF IInv, QueuesAdmitted
  <2>2. Append(mQueue[p], c) \in Seq(Admitted')
    BY <2>1
  <2> QED BY <2>1, <2>2 DEF IInv, QueuesAdmitted
<1>4. /\ pc' \in [Threads -> ThreadStates]
      /\ wake' \in [Threads -> Providers \cup {None}]
  BY DEF IInv, TypeOK, ThreadStates
<1>5. ThreadsAdmitted'
  BY NoneAssumption DEF IInv, TypeOK, ThreadsAdmitted
<1>6. PdmAdmitted'
  BY DEF IInv, PdmAdmitted
<1> QED BY <1>2, <1>3, <1>4, <1>5, <1>6

LEMMA BuildPreserves ==
  ASSUME IInv, NEW t \in Threads, buildNextRequest(t)
  PROVE  IInv'
<1> USE DEF buildNextRequest, pdmVars
<1>1. cur[t] \in Listings /\ cur[t] \in Admitted
  BY AdmittedAreCalls DEF IInv, ThreadsAdmitted
<1> DEFINE p == getStorageDeviceType(params[cur[t]].storageType)
<1>2. p \in Providers
  BY <1>1, StageIsProvider DEF Listings, Admitted
<1>3. Admitted \subseteq Admitted' /\ Listings \subseteq Listings'
  BY AdmittedStable
<1>4. addRequest(t, p, cur[t]) /\ pc[t] # "notifying" /\ cur[t] \in Admitted'
  BY <1>1, <1>3
<1> HIDE DEF p
<1>5. /\ mQueue' \in [Providers -> Seq(Calls)]
      /\ pc' \in [Threads -> ThreadStates]
      /\ wake' \in [Threads -> Providers \cup {None}]
      /\ QueuesAdmitted' /\ ThreadsAdmitted' /\ PdmAdmitted'
  BY <1>2, <1>3, <1>4, AddRequestPreserves
<1>6. TypeOK'
  BY <1>5 DEF IInv, TypeOK
<1> QED BY <1>5, <1>6 DEF IInv

\* A method handler that takes a new message c with a storage type only if it
\* sets one: the messages admitted before are other ones.
LEMMA ReceivePreserves ==
  ASSUME IInv, NEW c \in Calls, NEW r \in Requests, receive(c, r),
         params' \in [Calls -> ParamsType],
         \A d \in Calls \ {c} : params'[d] = params[d]
  PROVE  /\ req' \in [Calls -> Requests \cup {None}] /\ req'[c] = r
         /\ arrivals' \in Seq(Calls)
         /\ Admitted \subseteq Admitted' /\ Listings \subseteq Listings'
<1> USE DEF receive
<1>1. req' \in [Calls -> Requests \cup {None}] /\ req'[c] = r
  BY DEF IInv, TypeOK
<1>2. arrivals' \in Seq(Calls)
  BY DEF IInv, TypeOK
<1>3. c \notin Admitted
  BY NoneAssumption DEF Admitted
<1>4. \A d \in Admitted : req'[d] = req[d] /\ params'[d] = params[d]
  BY <1>3, AdmittedAreCalls DEF IInv, TypeOK
<1>5. Admitted \subseteq Admitted' /\ Listings \subseteq Listings'
  BY <1>4, AdmittedStable
<1> QED BY <1>1, <1>2, <1>5

\* The refusal of a method handler.
LEMMA RefusalPreserves ==
  ASSUME IInv, NEW c \in Calls, NEW r \in Requests, receive(c, r),
         rejectionOf(r) # "none", postToClient(c, rejectionOf(r), <<>>),
         UNCHANGED <<queueVars, pc, params>>
  PROVE  IInv'
<1> USE DEF queueVars, pdmVars
<1>1. UNCHANGED <<cur, pdmVars, mQueue, wake>>
  BY DEF receive
<1>2. /\ req' \in [Calls -> Requests \cup {None}]
      /\ arrivals' \in Seq(Calls)
      /\ Admitted \subseteq Admitted' /\ Listings \subseteq Listings'
  BY ReceivePreserves DEF IInv, TypeOK
<1>3. sent' \in Seq(ReplyType)
  <2>1. r \in RequestType
    BY RequestsAssumption
  <2>2. rejectionOf(r) \in ReplyKinds
    BY <2>1, RejectionType
  <2>3. <<>> \in SectionLists
    BY DEF SectionLists
  <2>4. [call |-> c, kind |-> rejectionOf(r), sections |-> <<>>] \in ReplyType
    BY <2>2, <2>3 DEF ReplyType
  <2> QED BY <2>4 DEF postToClient, IInv, TypeOK
<1>4. TypeOK'
  BY <1>1, <1>2, <1>3 DEF IInv, TypeOK
<1>5. QueuesAdmitted'
  BY <1>1, <1>2, SeqMonotone DEF IInv, QueuesAdmitted
<1>6. ThreadsAdmitted'
  BY <1>1, <1>2 DEF IInv, TypeOK, ThreadsAdmitted
<1>7. PdmAdmitted'
  BY <1>1, <1>2 DEF IInv, PdmAdmitted
<1> QED BY <1>4, <1>5, <1>6, <1>7 DEF IInv

\* A method handler that queues the message it received.
LEMMA AcceptancePreserves ==
  ASSUME IInv, NEW c \in Calls, NEW r \in Requests, receive(c, r),
         rejectionOf(r) = "none", NEW p \in Providers, addRequest(Main, p, c),
         params' \in [Calls -> ParamsType],
         \A d \in Calls \ {c} : params'[d] = params[d],
         r.method = "LIST_STORAGES" => params'[c].storageType \in StorageNames,
         UNCHANGED sent
  PROVE  IInv'
<1>1. /\ req' \in [Calls -> Requests \cup {None}] /\ req'[c] = r
      /\ arrivals' \in Seq(Calls)
      /\ Admitted \subseteq Admitted' /\ Listings \subseteq Listings'
  BY ReceivePreserves
<1>2. c \in Admitted'
  BY <1>1 DEF Admitted
<1>3. Main \in Threads /\ pc[Main] # "notifying" /\ UNCHANGED <<cur, pdmVars>>
  BY DEF receive, Threads
<1>4. /\ mQueue' \in [Providers -> Seq(Calls)]
      /\ pc' \in [Threads -> ThreadStates]
      /\ wake' \in [Threads -> Providers \cup {None}]
      /\ QueuesAdmitted' /\ ThreadsAdmitted' /\ PdmAdmitted'
  BY <1>1, <1>2, <1>3, AddRequestPreserves
<1>5. TypeOK'
  BY <1>1, <1>3, <1>4 DEF IInv, TypeOK, pdmVars
<1> QED BY <1>4, <1>5 DEF IInv

LEMMA DeviceMethodPreserves ==
  ASSUME IInv, NEW c \in Calls, NEW m, m # "LIST_STORAGES", deviceMethod(c, m)
  PROVE  IInv'
<1>1. PICK r \in Requests :
        /\ r.method = m
        /\ receive(c, r)
        /\ \/ /\ rejectionOf(r) # "none"
              /\ postToClient(c, rejectionOf(r), <<>>)
              /\ UNCHANGED <<queueVars, pc>>
           \/ /\ rejectionOf(r) = "none"
              /\ addRequest(Main, routeOf(r), c)
              /\ UNCHANGED sent
        /\ UNCHANGED params
  BY DEF deviceMethod
<1>2. CASE rejectionOf(r) # "none"
  BY <1>1, <1>2, RefusalPreserves
<1>3. CASE rejectionOf(r) = "none"
  <2>1. routeOf(r) \in Providers
    BY <1>1, <1>3, RequestsAssumption, RouteIsProvider
  <2>2. params' \in [Calls -> ParamsType]
    BY <1>1 DEF IInv, TypeOK
  <2> QED BY <1>1, <1>3, <2>1, <2>2, AcceptancePreserves
<1> QED BY <1>2, <1>3

LEMMA ListStorageProvidersPreserves ==
  ASSUME IInv, NEW c \in Calls, listStorageProviders(c)
  PROVE  IInv'
<1>1. PICK r \in Requests :
        /\ r.method = "LIST_STORAGES"
        /\ receive(c, r)
        /\ \/ /\ rejectionOf(r) # "none"
              /\ postToClient(c, rejectionOf(r), <<>>)
              /\ UNCHANGED <<queueVars, pc, params>>
           \/ /\ rejectionOf(r) = "none"
              /\ params' = [params EXCEPT ![c].storageType = "usb"]
              /\ addRequest(Main, "USB", c)
              /\ UNCHANGED sent
  BY DEF listStorageProviders
<1>2. CASE rejectionOf(r) # "none"
  BY <1>1, <1>2, RefusalPreserves
<1>3. CASE rejectionOf(r) = "none"
  <2>1. "USB" \in Providers /\ "usb" \in StorageNames
    BY DEF Providers, StorageNames
  <2>2. params[c] \in ParamsType
    BY DEF IInv, TypeOK
  <2>3. [params[c] EXCEPT !.storageType = "usb"] \in ParamsType
    BY <2>1, <2>2 DEF ParamsType
  <2>4. params' = [params EXCEPT ![c] = [params[c] EXCEPT !.storageType = "usb"]]
    BY <1>1, <1>3
  <2>5. /\ params' \in [Calls -> ParamsType]
        /\ \A d \in Calls \ {c} : params'[d] = params[d]
    BY <2>3, <2>4 DEF IInv, TypeOK
  <2>6. params'[c].storageType \in StorageNames
    BY <2>1, <2>2, <2>4 DEF IInv, TypeOK, ParamsType
  <2> QED BY <1>1, <1>3, <2>1, <2>5, <2>6, AcceptancePreserves
<1> QED BY <1>2, <1>3

LEMMA NextPreserves ==
  ASSUME IInv, [Next]_vars
  PROVE  IInv'
<1>1. ASSUME NEW c \in Calls, LunaStep(c) PROVE IInv'
  BY <1>1, DeviceMethodPreserves, ListStorageProvidersPreserves
     DEF LunaStep, handleExtraCommand, list, getProperties, copy, move, remove,
         eject, rename
<1>2. ASSUME NEW c \in Calls, PdmStep(c) PROVE IInv'
  BY <1>2, PdmReplyPreserves, DeviceListPreserves, UnparsablePreserves
     DEF PdmStep
<1>3. ASSUME NEW p \in Providers, QueueStep(p) PROVE IInv'
  BY <1>3, WaitPreserves, DispatchPreserves DEF QueueStep
<1>4. ASSUME NEW p \in Providers, HandlerStep(p) PROVE IInv'
  BY <1>4, HandlerPreserves DEF HandlerStep
<1>5. ASSUME NEW t \in Threads, CallbackStep(t) PROVE IInv'
  BY <1>5, StageReplyPreserves, BuildPreserves, ListAnswerPreserves,
     NotifyPreserves DEF CallbackStep
<1>6. CASE UsbStep
  BY <1>6, UsbPreserves DEF UsbStep
<1>7. CASE StageStep
  <2>1. {"INTERNAL", "GDRIVE", "NETWORK"} \subseteq Providers
    BY DEF Providers
  <2>2. {"internal", "cloud", "network"} \subseteq Sections
    BY DEF Sections
  <2> QED BY <1>7, <2>1, <2>2, StagePreserves
          DEF StageStep, internalListStorages, gdriveListStorages,
              networkListStorages
<1>8. CASE scanHangs
  BY <1>8, ScanHangsPreserves
<1>9. CASE UNCHANGED vars
  <2>1. Admitted' = Admitted /\ Listings' = Listings
    BY <1>9 DEF vars, Admitted, Listings
  <2>2. TypeOK'
    BY <1>9 DEF vars, IInv, TypeOK
  <2> QED BY <1>9, <2>1, <2>2
          DEF vars, IInv, QueuesAdmitted, ThreadsAdmitted, PdmAdmitted
<1> QED
  BY <1>1, <1>2, <1>3, <1>4, <1>5, <1>6, <1>7, <1>8, <1>9 DEF Next

\* What the queues, the threads and PDM refer to is always a message that a
\* method handler accepted: no dispatcher works on a refused request, and no
\* stage callback runs for anything but a listStorageProviders.
THEOREM Admission == Spec => []IInv
<1>1. Init => IInv
  BY InitIInv
<1>2. IInv /\ [Next]_vars => IInv'
  BY NextPreserves
<1> QED BY <1>1, <1>2, PTL DEF Spec

\* The types of the state hold throughout.
THEOREM TypeCorrect == Spec => []TypeOK
<1>1. IInv => TypeOK
  BY DEF IInv
<1> QED BY <1>1, Admission, PTL

-----------------------------------------------------------------------------
(* No lost wakeup.                                                         *)

\* A step either leaves a blocked dispatcher's queue and its notifier alone,
\* or pushes and becomes the notifier, or is the notification.
LEMMA WakeupPreserved ==
  ASSUME IInv, NoLostWakeup, [Next]_vars
  PROVE  NoLostWakeup'
<1> SUFFICES ASSUME NEW p \in Providers, pc'[p] = "blocked", mQueue'[p] # <<>>
             PROVE  \E t \in Threads : pc'[t] = "notifying" /\ wake'[t] = p
  BY DEF NoLostWakeup
<1> DEFINE Kept ==
      /\ pc[p] = "blocked" /\ mQueue[p] # <<>>
      /\ \A t \in Threads :
           pc[t] = "notifying" /\ wake[t] = p =>
             pc'[t] = "notifying" /\ wake'[t] = p
<1> DEFINE Pushed(t) == pc'[t] = "notifying" /\ wake'[t] = p
<1> p \in Threads
  BY DEF Threads
<1>0. Kept => \E t \in Threads : Pushed(t)
  BY DEF NoLostWakeup
<1>1. ASSUME NEW t \in Threads, NEW q \in Providers, NEW c,
             addRequest(t, q, c), pc[t] # "notifying"
      PROVE  \E s \in Threads : Pushed(s)
  <2>1. CASE q = p
    BY <1>1, <2>1 DEF addRequest, IInv, TypeOK
  <2>2. CASE q # p
    <3>1. Kept
      BY <1>1, <2>2 DEF addRequest, IInv, TypeOK, ThreadStates
    <3> QED BY <3>1, <1>0
  <2> QED BY <2>1, <2>2
<1> HIDE DEF Kept
<1>2. ASSUME NEW c \in Calls, LunaStep(c) PROVE \E s \in Threads : Pushed(s)
  <2>1. PICK r \in Requests :
          /\ receive(c, r)
          /\ \/ UNCHANGED <<queueVars, pc>>
             \/ /\ rejectionOf(r) = "none"
                /\ \/ r.method # "LIST_STORAGES" /\ addRequest(Main, routeOf(r), c)
                   \/ addRequest(Main, "USB", c)
    BY <1>2 DEF LunaStep, handleExtraCommand, list, getProperties, copy, move,
                remove, eject, rename, deviceMethod, listStorageProviders
  <2>2. CASE UNCHANGED <<queueVars, pc>>
    BY <1>0, <2>2 DEF Kept, queueVars
  <2>3. CASE rejectionOf(r) = "none" /\ r.method # "LIST_STORAGES"
             /\ addRequest(Main, routeOf(r), c)
    <3>1. routeOf(r) \in Providers
      BY <2>3, RequestsAssumption, RouteIsProvider
    <3>2. Main \in Threads /\ pc[Main] # "notifying"
      BY <2>1 DEF receive, Threads
    <3> QED BY <1>1, <2>3, <3>1, <3>2
  <2>4. CASE addRequest(Main, "USB", c)
    <3>1. Main \in Threads /\ pc[Main] # "notifying" /\ "USB" \in Providers
      BY <2>1 DEF receive, Threads, Providers
    <3> QED BY <1>1, <2>4, <3>1
  <2> QED BY <2>1, <2>2, <2>3, <2>4
<1>3. ASSUME NEW c \in Calls, PdmStep(c) PROVE Kept
  BY <1>3 DEF PdmStep, onGetPropertiesReply, onReply, onListStoragesMethodReply,
              unparsableAnswer, queueVars, Kept, IInv, TypeOK, Threads
<1>4. ASSUME NEW q \in Providers, QueueStep(q) PROVE Kept
  <2>1. q \in Threads
    BY DEF Threads
  <2> QED BY <1>4, <2>1 DEF QueueStep, waitForRequest, spuriousWakeup,
              dispatchHandler, queueVars, Kept, IInv, TypeOK
<1>5. ASSUME NEW q \in Providers, HandlerStep(q) PROVE Kept
  <2>1. q \in Threads
    BY DEF Threads
  <2> QED BY <1>5, <2>1 DEF HandlerStep, handleUnknown, handleRequests,
              inHandler, leaveHandler, queueVars, Kept, IInv, TypeOK
<1>6. ASSUME NEW t \in Threads, CallbackStep(t) PROVE \E s \in Threads : Pushed(s)
  <2>1. CASE onListOfStoragesReply(t) \/ answerListOfStorages(t)
    <3>1. Kept
      BY <2>1 DEF onListOfStoragesReply, answerListOfStorages, queueVars, Kept,
                  IInv, TypeOK
    <3> QED BY <3>1, <1>0
  <2>2. CASE buildNextRequest(t)
    <3>1. cur[t] \in Listings
      BY <2>2 DEF buildNextRequest, IInv, ThreadsAdmitted
    <3>2. getStorageDeviceType(params[cur[t]].storageType) \in Providers
      BY <3>1, StageIsProvider DEF Listings, Admitted
    <3> QED BY <2>2, <3>2, <1>1 DEF buildNextRequest
  <2>3. CASE notify_one(t)
    <3>1. Kept
      BY <2>3 DEF notify_one, Kept, IInv, TypeOK, ThreadStates
    <3> QED BY <3>1, <1>0
  <2> QED BY <1>6, <2>1, <2>2, <2>3 DEF CallbackStep
<1>7. CASE UsbStep
  <2>1. "USB" \in Threads
    BY DEF Threads, Providers
  <2>2. Kept
    BY <1>7, <2>1 DEF UsbStep, getPropertiesMethod, ejectMethod,
        usbListStorages, inHandler, leaveHandler, queueVars, Kept, IInv, TypeOK
  <2> QED BY <2>2, <1>0
<1>8. CASE StageStep
  <2>1. {"INTERNAL", "GDRIVE", "NETWORK"} \subseteq Threads
    BY DEF Threads, Providers
  <2>2. Kept
    BY <1>8, <2>1 DEF StageStep, internalListStorages, gdriveListStorages,
        networkListStorages, listStoragesStage, inHandler, queueVars, Kept,
        IInv, TypeOK
  <2> QED BY <2>2, <1>0
<1>9. CASE scanHangs
  <2>1. Kept
    BY <1>9 DEF scanHangs, inHandler, queueVars, Kept, IInv, TypeOK
  <2> QED BY <2>1, <1>0
<1>10. CASE UNCHANGED vars
  BY <1>0, <1>10 DEF vars, Kept
<1> QED
  BY <1>0, <1>2, <1>3, <1>4, <1>5, <1>6, <1>7, <1>8, <1>9, <1>10 DEF Next

\* addRequest notifies outside the mutex, and still no dispatcher sleeps on a
\* request: for any number of clients and any requests.
THEOREM WakeupNeverLost == Spec => []NoLostWakeup
<1>1. Init => NoLostWakeup
  BY DEF Init, NoLostWakeup, Threads
<1>2. IInv /\ NoLostWakeup /\ [Next]_vars => NoLostWakeup'
  BY WakeupPreserved
<1> QED BY <1>1, <1>2, Admission, PTL DEF Spec

-----------------------------------------------------------------------------
(* The order of the answers: requests to one provider are answered in the  *)
(* order of arrival.                                                       *)

\* The messages that are to be answered in turn.
Turns == {c \in Calls : req[c] # None /\ answeredInTurn(req[c])}

\* A message lies in the queue of a provider, or its dispatcher has it.
Queued(p, d) == \E j \in DOMAIN mQueue[p] : mQueue[p][j] = d
Handled(p, d) == pc[p] \in Working /\ cur[p] = d

\* Whatever was received has a place in the order of arrival.
Recorded == \A c \in Calls : req[c] # None => \E i \in DOMAIN arrivals : arrivals[i] = c

\* A provider gets its own requests, and listings.
AtHome ==
  \A p \in Providers : \A d \in Turns :
    Queued(p, d) \/ Handled(p, d) => routeOf(req[d]) = p

\* A queue is in the order of arrival, behind the request that is handled.
QueueInOrder ==
  \A p \in Providers :
    /\ \A i, j \in DOMAIN mQueue[p] :
         i < j /\ mQueue[p][i] \in Turns /\ mQueue[p][j] \in Turns =>
           arrivedBefore(mQueue[p][i], mQueue[p][j])
    /\ \A c, d \in Turns : Handled(p, c) /\ Queued(p, d) => arrivedBefore(c, d)

\* What has been answered arrived before what its provider still has.
AnsweredFirst ==
  \A i \in DOMAIN sent : \A d \in Turns :
    /\ sent[i].call \in Turns
    /\ LET p == routeOf(req[sent[i].call]) IN Queued(p, d) \/ Handled(p, d)
    => arrivedBefore(sent[i].call, d)

\* PDM answers only requests that have no turn, and only known messages are
\* answered.
OutOfTurn ==
  /\ \A c \in Calls : pdmCall[c] \notin {"none", "lost"} => req[c] # None /\ c \notin Turns
  /\ \A i \in DOMAIN sent : req[sent[i].call] # None

OrderInv == /\ Recorded /\ AtHome /\ QueueInOrder /\ AnsweredFirst
            /\ OutOfTurn /\ AnsweredInOrder

-----------------------------------------------------------------------------
(* The parts of the state.                                                 *)

\* What the invariant of the request path says of the queues.
LEMMA QueueFacts ==
  ASSUME IInv, NEW p \in Providers
  PROVE  /\ mQueue[p] \in Seq(Calls) /\ DOMAIN mQueue[p] = 1..Len(mQueue[p])
         /\ Len(mQueue[p]) \in Nat
         /\ \A d : Queued(p, d) => d \in Admitted /\ d \in Calls /\ req[d] # None
<1>1. mQueue[p] \in Seq(Admitted) /\ mQueue[p] \in Seq(Calls)
  BY DEF IInv, QueuesAdmitted, TypeOK
<1>2. \A d \in Admitted : d \in Calls /\ req[d] # None
  BY NoneAssumption DEF Admitted
<1>3. \A j \in DOMAIN mQueue[p] : mQueue[p][j] \in Admitted
  BY <1>1
<1> QED BY <1>1, <1>2, <1>3 DEF Queued

\* And of the threads.
LEMMA WorkFacts ==
  ASSUME IInv, NEW p \in Providers, NEW d \in Turns, Handled(p, d)
  PROVE  pc[p] \in {"running", "hung"} /\ cur[p] = d /\ d \in Calls
<1>1. p \in Threads
  BY DEF Threads
<1>2. pc[p] \in {"replying", "building"} => cur[p] \in Listings
  BY <1>1 DEF IInv, ThreadsAdmitted
<1>3. d \notin Listings
  BY DEF Listings, Turns, answeredInTurn
<1> QED BY <1>2, <1>3 DEF Handled, Working, Turns

LEMMA SameTurns == req' = req => Turns' = Turns
BY DEF Turns

\* A message that has a turn is for one of the four providers.
LEMMA TurnsHaveRoutes ==
  ASSUME IInv, NEW a \in Turns
  PROVE  routeOf(req[a]) \in Providers
<1>1. a \in Calls /\ req[a] \in Requests
  BY DEF Turns, IInv, TypeOK
<1>2. rejectionOf(req[a]) = "none" /\ req[a].method # "LIST_STORAGES"
  BY DEF Turns, answeredInTurn
<1> QED BY <1>1, <1>2, RouteIsProvider, RequestsAssumption

LEMMA SameOrder ==
  arrivals' = arrivals => \A c, d : arrivedBefore(c, d)' <=> arrivedBefore(c, d)
BY DEF arrivedBefore

-----------------------------------------------------------------------------
(* The ways a step changes what OrderInv speaks of.                        *)

\* No dispatcher takes a request up.
NothingTaken ==
  \A p \in Providers :
    pc'[p] \in Working => pc[p] \in Working /\ cur'[p] = cur[p]

\* No call to PDM for a request that has a turn.
PdmKept ==
  \A c \in Calls :
    pdmCall'[c] \notin {"none", "lost"} =>
      pdmCall[c] \notin {"none", "lost"} \/ (req[c] # None /\ c \notin Turns)

\* Answers, all to c, have been added.
Extended(c) ==
  /\ DOMAIN sent \subseteq DOMAIN sent'
  /\ \A i \in DOMAIN sent : sent'[i] = sent[i]
  /\ \A i \in DOMAIN sent' \ DOMAIN sent :
       sent'[i].call = c /\ \A k \in DOMAIN sent : k < i

\* Answers to a request that has no turn, or that a dispatcher is done with.
LEMMA AnswersKeepOrder ==
  ASSUME IInv, OrderInv, TypeOK', UNCHANGED <<req, arrivals, mQueue>>,
         NothingTaken, PdmKept,
         NEW c \in Calls, req[c] # None, Extended(c),
         c \in Turns =>
           \E p \in Providers : Handled(p, c) /\ pc'[p] \notin Working
  PROVE  OrderInv'
<1>1. Turns' = Turns /\ \A a, b : arrivedBefore(a, b)' <=> arrivedBefore(a, b)
  BY SameTurns, SameOrder
<1>2. \A p \in Providers : \A d :
        (Queued(p, d)' <=> Queued(p, d)) /\ (Handled(p, d)' => Handled(p, d))
  BY DEF Queued, Handled, NothingTaken
<1>3. Recorded' /\ AtHome'
  BY <1>1, <1>2 DEF OrderInv, Recorded, AtHome
<1>4. QueueInOrder'
  BY <1>1, <1>2 DEF OrderInv, QueueInOrder
<1>5. AnsweredFirst'
  <2> SUFFICES ASSUME NEW i \in DOMAIN sent', NEW d \in Turns,
                      sent'[i].call \in Turns, NEW p \in Providers,
                      p = routeOf(req[sent'[i].call]),
                      Queued(p, d) \/ (Handled(p, d) /\ Handled(p, d)')
               PROVE  arrivedBefore(sent'[i].call, d)
    BY <1>1, <1>2, TurnsHaveRoutes DEF AnsweredFirst
  <2> DEFINE a == sent'[i].call
  <2>1. CASE i \in DOMAIN sent
    <3>1. a = sent[i].call
      BY <2>1 DEF Extended
    <3> QED BY <1>2, <2>1, <3>1 DEF OrderInv, AnsweredFirst
  <2>2. CASE i \notin DOMAIN sent
    <3>1. a = c
      BY <2>2 DEF Extended
    <3>2. PICK q \in Providers : Handled(q, c) /\ pc'[q] \notin Working
      BY <3>1
    <3>3. q = p
      BY <3>1, <3>2 DEF OrderInv, AtHome
    <3>4. ~Handled(p, d)' /\ Queued(p, d)
      BY <3>2, <3>3 DEF Handled
    <3> QED BY <3>1, <3>2, <3>3, <3>4 DEF OrderInv, QueueInOrder
  <2> QED BY <2>1, <2>2
<1>6. OutOfTurn'
  <2>1. \A i \in DOMAIN sent' : req[sent'[i].call] # None
    BY DEF Extended, OrderInv, OutOfTurn
  <2>2. \A d \in Calls : pdmCall'[d] \notin {"none", "lost"} =>
                           req[d] # None /\ d \notin Turns
    BY DEF PdmKept, OrderInv, OutOfTurn
  <2> QED BY <1>1, <2>1, <2>2 DEF OutOfTurn
<1>7. AnsweredInOrder'
  <2> SUFFICES ASSUME NEW i \in DOMAIN sent', NEW j \in DOMAIN sent', i < j,
                      sent'[i].call # sent'[j].call,
                      answeredInTurn(req[sent'[i].call]),
                      answeredInTurn(req[sent'[j].call]),
                      routeOf(req[sent'[i].call]) = routeOf(req[sent'[j].call])
               PROVE  arrivedBefore(sent'[i].call, sent'[j].call)
    BY <1>1 DEF AnsweredInOrder
  <2>0. /\ \A k \in DOMAIN sent : sent[k].call \in Calls
        /\ DOMAIN sent = 1..Len(sent) /\ Len(sent) \in Nat
    <3>1. sent \in Seq(ReplyType)
      BY DEF IInv, TypeOK
    <3>2. \A r \in ReplyType : r.call \in Calls
      BY DEF ReplyType
    <3> QED BY <3>1, <3>2
  <2>1. CASE i \in DOMAIN sent /\ j \in DOMAIN sent
    <3>1. sent'[i] = sent[i] /\ sent'[j] = sent[j]
      BY <2>1 DEF Extended
    <3> QED BY <2>1, <3>1 DEF OrderInv, AnsweredInOrder
  <2>2. CASE i \in DOMAIN sent /\ j \notin DOMAIN sent
    <3>1. sent'[i] = sent[i] /\ sent'[j].call = c
      BY <2>2 DEF Extended
    <3>2. sent[i].call \in Turns
      BY <2>0, <2>2, <3>1 DEF Turns, OrderInv, OutOfTurn
    <3>3. c \in Turns
      BY <3>1 DEF Turns
    <3>4. PICK q \in Providers : Handled(q, c)
      BY <3>3
    <3>5. routeOf(req[c]) = q
      BY <3>3, <3>4 DEF OrderInv, AtHome
    <3> QED BY <2>2, <3>1, <3>2, <3>3, <3>4, <3>5 DEF OrderInv, AnsweredFirst
  <2>3. CASE i \notin DOMAIN sent /\ j \in DOMAIN sent
    <3>1. j < i
      BY <2>3 DEF Extended
    <3>2. i \in Nat /\ j \in Nat
      BY DEF TypeOK
    <3> QED BY <3>1, <3>2
  <2>4. CASE i \notin DOMAIN sent /\ j \notin DOMAIN sent
    BY <2>4 DEF Extended
  <2> QED BY <2>1, <2>2, <2>3, <2>4
<1> QED BY <1>3, <1>4, <1>5, <1>6, <1>7 DEF OrderInv

\* A step that answers nobody and moves no request.
LEMMA StayKeepsOrder ==
  ASSUME IInv, OrderInv, UNCHANGED <<req, arrivals, mQueue, sent>>,
         NothingTaken, PdmKept
  PROVE  OrderInv'
<1>1. Turns' = Turns /\ \A a, b : arrivedBefore(a, b)' <=> arrivedBefore(a, b)
  BY SameTurns, SameOrder
<1>2. \A p \in Providers : \A d :
        (Queued(p, d)' <=> Queued(p, d)) /\ (Handled(p, d)' => Handled(p, d))
  BY DEF Queued, Handled, NothingTaken
<1>3. Recorded' /\ AtHome'
  BY <1>1, <1>2 DEF OrderInv, Recorded, AtHome
<1>4. QueueInOrder'
  BY <1>1, <1>2 DEF OrderInv, QueueInOrder
<1>5. AnsweredFirst'
  <2> SUFFICES ASSUME NEW i \in DOMAIN sent, NEW d \in Turns,
                      sent[i].call \in Turns, NEW p,
                      p = routeOf(req[sent[i].call]),
                      Queued(p, d)' \/ Handled(p, d)'
               PROVE  arrivedBefore(sent[i].call, d)
    BY <1>1 DEF AnsweredFirst
  <2>1. p \in Providers
    BY TurnsHaveRoutes
  <2> QED BY <1>2, <2>1 DEF OrderInv, AnsweredFirst
<1>6. OutOfTurn'
  <2>1. \A d \in Calls : pdmCall'[d] \notin {"none", "lost"} =>
                           req[d] # None /\ d \notin Turns
    BY DEF PdmKept, OrderInv, OutOfTurn
  <2> QED BY <1>1, <2>1 DEF OutOfTurn, OrderInv
<1>7. AnsweredInOrder'
  BY <1>1 DEF OrderInv, AnsweredInOrder
<1> QED BY <1>3, <1>4, <1>5, <1>6, <1>7 DEF OrderInv

\* A message arrives: what has arrived stays before it.
LEMMA ArrivalsGrow ==
  ASSUME IInv, Recorded, NEW c \in Calls, arrivals' = Append(arrivals, c)
  PROVE  /\ \A a, b : arrivedBefore(a, b) => arrivedBefore(a, b)'
         /\ \A a \in Calls : req[a] # None => arrivedBefore(a, c)'
         /\ \E k \in DOMAIN arrivals' : arrivals'[k] = c
         /\ \A k \in DOMAIN arrivals : k \in DOMAIN arrivals' /\ arrivals'[k] = arrivals[k]
<1>1. /\ arrivals \in Seq(Calls) /\ Len(arrivals) \in Nat
      /\ DOMAIN arrivals = 1..Len(arrivals)
  BY DEF IInv, TypeOK
<1>2. /\ DOMAIN arrivals' = 1..(Len(arrivals) + 1)
      /\ \A k \in 1..Len(arrivals) : arrivals'[k] = arrivals[k]
      /\ arrivals'[Len(arrivals) + 1] = c
  BY <1>1, AppendProperties
<1>3. \A k \in DOMAIN arrivals :
        k \in DOMAIN arrivals' /\ arrivals'[k] = arrivals[k] /\ k < Len(arrivals) + 1
  BY <1>1, <1>2
<1>4. Len(arrivals) + 1 \in DOMAIN arrivals'
  BY <1>1, <1>2
<1>5. \A a, b : arrivedBefore(a, b) => arrivedBefore(a, b)'
  BY <1>3 DEF arrivedBefore
<1>6. ASSUME NEW a \in Calls, req[a] # None PROVE arrivedBefore(a, c)'
  <2>1. PICK k \in DOMAIN arrivals : arrivals[k] = a
    BY <1>6 DEF Recorded
  <2> QED BY <1>2, <1>3, <1>4, <2>1 DEF arrivedBefore
<1> QED BY <1>2, <1>3, <1>4, <1>5, <1>6

\* A message that is pushed: a listing going on, or a new request whose
\* provider the queue belongs to.
LEMMA PushKeepsOrder ==
  ASSUME IInv, OrderInv, sent' = sent, NothingTaken, PdmKept,
         NEW p \in Providers, NEW c \in Calls,
         mQueue' = [mQueue EXCEPT ![p] = Append(@, c)],
         \A d \in Calls \ {c} : req'[d] = req[d],
         \/ c \notin Turns /\ UNCHANGED <<req, arrivals>>
         \/ /\ req[c] = None /\ arrivals' = Append(arrivals, c)
            /\ req'[c] # None /\ (c \in Turns' => routeOf(req'[c]) = p)
  PROVE  OrderInv'
<1>1. /\ Turns \subseteq Turns' /\ Turns' \subseteq Turns \cup {c} /\ c \notin Turns
      /\ \A d \in Turns : req'[d] = req[d]
      /\ c \in Turns' => req[c] = None /\ arrivals' = Append(arrivals, c)
  BY SameTurns DEF Turns
<1>2. \A a, b : arrivedBefore(a, b) => arrivedBefore(a, b)'
  BY SameOrder, ArrivalsGrow DEF OrderInv
<1>3. c \in Turns' => \A a \in Turns : arrivedBefore(a, c)'
  BY <1>1, ArrivalsGrow DEF OrderInv, Turns
<1>4. ASSUME NEW q \in Providers, NEW d, Handled(q, d)'
      PROVE  Handled(q, d) /\ (d = c => c \notin Turns')
  <2>1. Handled(q, d)
    BY <1>4 DEF Handled, NothingTaken
  <2>2. d \in Calls => d \in Admitted
    <3>1. q \in Threads /\ cur[q] \in Admitted \cup {None}
      BY DEF Threads, IInv, ThreadsAdmitted
    <3> QED BY <2>1, <3>1, NoneAssumption DEF Handled
  <2>3. d = c => req[c] # None
    BY <2>2, NoneAssumption DEF Admitted
  <2> QED BY <1>1, <2>1, <2>3
<1>5. /\ \A q \in Providers \ {p} : mQueue'[q] = mQueue[q]
      /\ mQueue'[p] = Append(mQueue[p], c)
  BY DEF IInv, TypeOK
<1>6. /\ DOMAIN mQueue[p] = 1..Len(mQueue[p]) /\ Len(mQueue[p]) \in Nat
      /\ DOMAIN mQueue'[p] = 1..(Len(mQueue[p]) + 1)
      /\ \A k \in 1..Len(mQueue[p]) : mQueue'[p][k] = mQueue[p][k]
      /\ mQueue'[p][Len(mQueue[p]) + 1] = c
  <2>1. mQueue[p] \in Seq(Calls)
    BY DEF IInv, TypeOK
  <2> QED BY <1>5, <2>1, AppendProperties
<1>7. \A q \in Providers : \A d :
        Queued(q, d)' => Queued(q, d) \/ (q = p /\ d = c)
  <2> SUFFICES ASSUME NEW q \in Providers, NEW d, NEW j \in DOMAIN mQueue'[q],
                      mQueue'[q][j] = d
               PROVE  Queued(q, d) \/ (q = p /\ d = c)
    BY DEF Queued
  <2>1. CASE q # p
    BY <1>5, <2>1 DEF Queued
  <2>2. CASE q = p
    <3>1. j \in DOMAIN mQueue[p] \/ j = Len(mQueue[p]) + 1
      BY <1>6, <2>2
    <3> QED BY <1>6, <2>2, <3>1 DEF Queued
  <2> QED BY <2>1, <2>2
<1>8. Recorded'
  <2>1. CASE UNCHANGED <<req, arrivals>>
    BY <2>1 DEF OrderInv, Recorded
  <2>2. CASE arrivals' = Append(arrivals, c)
    <3>1. /\ \E k \in DOMAIN arrivals' : arrivals'[k] = c
          /\ \A k \in DOMAIN arrivals : k \in DOMAIN arrivals' /\ arrivals'[k] = arrivals[k]
      BY <2>2, ArrivalsGrow DEF OrderInv
    <3> SUFFICES ASSUME NEW d \in Calls, req'[d] # None
                 PROVE  \E k \in DOMAIN arrivals' : arrivals'[k] = d
      BY DEF Recorded
    <3>2. CASE d = c
      BY <3>1, <3>2
    <3>3. CASE d # c
      BY <3>1, <3>3 DEF OrderInv, Recorded
    <3> QED BY <3>2, <3>3
  <2> QED BY <2>1, <2>2
<1>9. AtHome'
  <2> SUFFICES ASSUME NEW q \in Providers, NEW d \in Turns',
                      Queued(q, d)' \/ Handled(q, d)'
               PROVE  routeOf(req'[d]) = q
    BY DEF AtHome
  <2>1. CASE d = c
    <3>1. q = p
      BY <1>1, <1>4, <1>7, <2>1, QueueFacts
    <3> QED BY <1>1, <2>1, <3>1
  <2>2. CASE d # c
    BY <1>1, <1>4, <1>7, <2>2 DEF OrderInv, AtHome
  <2> QED BY <2>1, <2>2
<1>10. QueueInOrder'
  <2>1. ASSUME NEW q \in Providers,
               NEW i \in DOMAIN mQueue'[q], NEW j \in DOMAIN mQueue'[q], i < j,
               NEW a \in Turns', NEW d \in Turns',
               mQueue'[q][i] = a, mQueue'[q][j] = d
        PROVE  arrivedBefore(a, d)'
    <3>1. CASE i \in DOMAIN mQueue[q] /\ j \in DOMAIN mQueue[q]
      <4>1. a = mQueue[q][i] /\ d = mQueue[q][j]
        BY <1>5, <1>6, <2>1, <3>1
      <4>2. a \in Turns /\ d \in Turns
        <5>1. Queued(q, a) /\ Queued(q, d)
          BY <3>1, <4>1 DEF Queued
        <5> QED BY <1>1, <5>1, QueueFacts
      <4> QED BY <1>2, <2>1, <3>1, <4>1, <4>2 DEF OrderInv, QueueInOrder
    <3>2. CASE ~(i \in DOMAIN mQueue[q] /\ j \in DOMAIN mQueue[q])
      <4>1. q = p /\ i \in DOMAIN mQueue[p] /\ j = Len(mQueue[p]) + 1
        BY <1>5, <1>6, <2>1, <3>2
      <4>2. d = c /\ a = mQueue[p][i]
        BY <1>6, <2>1, <4>1
      <4>3. a \in Turns
        <5>1. Queued(p, a)
          BY <4>1, <4>2 DEF Queued
        <5> QED BY <1>1, <2>1, <4>2, <5>1, QueueFacts
      <4> QED BY <1>3, <2>1, <4>2, <4>3
    <3> QED BY <3>1, <3>2
  <2>2. ASSUME NEW q \in Providers,
               NEW a \in Turns', NEW d \in Turns', Handled(q, a)', Queued(q, d)'
        PROVE  arrivedBefore(a, d)'
    <3>1. Handled(q, a) /\ a \in Turns
      BY <1>1, <1>4, <2>2
    <3>2. CASE d = c
      BY <1>3, <2>2, <3>1, <3>2
    <3>3. CASE d # c
      BY <1>1, <1>2, <1>7, <2>2, <3>1, <3>3 DEF OrderInv, QueueInOrder
    <3> QED BY <3>2, <3>3
  <2> QED BY <2>1, <2>2 DEF QueueInOrder
<1>11. \A i \in DOMAIN sent : sent[i].call # c \/ c \notin Turns'
  BY <1>1 DEF OrderInv, OutOfTurn
<1>12. AnsweredFirst'
  <2> SUFFICES ASSUME NEW i \in DOMAIN sent, NEW d \in Turns', NEW a \in Turns',
                      a = sent[i].call, NEW q, q = routeOf(req'[a]),
                      Queued(q, d)' \/ Handled(q, d)'
               PROVE  arrivedBefore(a, d)'
    BY DEF AnsweredFirst
  <2>1. a \in Turns /\ q = routeOf(req[a])
    BY <1>1, <1>11
  <2>2. q \in Providers
    BY <2>1, TurnsHaveRoutes
  <2>3. CASE d = c
    BY <1>3, <2>1, <2>3
  <2>4. CASE d # c
    <3>1. d \in Turns /\ (Queued(q, d) \/ Handled(q, d))
      BY <1>1, <1>4, <1>7, <2>2, <2>4
    <3> QED BY <1>2, <2>1, <3>1 DEF OrderInv, AnsweredFirst
  <2> QED BY <2>3, <2>4
<1>13. OutOfTurn'
  <2>1. ASSUME NEW d \in Calls, pdmCall'[d] \notin {"none", "lost"}
        PROVE  req'[d] # None /\ d \notin Turns'
    <3>1. req[d] # None /\ d \notin Turns
      BY <2>1 DEF PdmKept, OrderInv, OutOfTurn
    <3>2. d \notin Turns'
      BY <1>1, <3>1
    <3>3. req'[d] # None
      BY <3>1
    <3> QED BY <3>2, <3>3
  <2>2. ASSUME NEW i \in DOMAIN sent PROVE req'[sent[i].call] # None
    <3>1. sent[i].call \in Calls /\ req[sent[i].call] # None
      <4>1. \A r \in ReplyType : r.call \in Calls
        BY DEF ReplyType
      <4> QED BY <4>1 DEF OrderInv, OutOfTurn, IInv, TypeOK
    <3> QED BY <3>1
  <2> QED BY <2>1, <2>2 DEF OutOfTurn
<1>14. AnsweredInOrder'
  <2> SUFFICES ASSUME NEW i \in DOMAIN sent, NEW j \in DOMAIN sent, i < j,
                      NEW a, NEW d, a = sent[i].call, d = sent[j].call, a # d,
                      answeredInTurn(req'[a]), answeredInTurn(req'[d]),
                      routeOf(req'[a]) = routeOf(req'[d])
               PROVE  arrivedBefore(a, d)'
    BY DEF AnsweredInOrder
  <2>1. /\ a \in Calls /\ d \in Calls /\ req[a] # None /\ req[d] # None
    <3>1. \A r \in ReplyType : r.call \in Calls
      BY DEF ReplyType
    <3> QED BY <3>1 DEF OrderInv, OutOfTurn, IInv, TypeOK
  <2>2. req'[a] = req[a] /\ req'[d] = req[d]
    BY <2>1
  <2> QED BY <1>2, <2>2 DEF OrderInv, AnsweredInOrder
<1> QED BY <1>8, <1>9, <1>10, <1>12, <1>13, <1>14 DEF OrderInv

\* The dispatcher takes the oldest request.
LEMMA TakeKeepsOrder ==
  ASSUME IInv, OrderInv, NEW p \in Providers, dispatchHandler(p)
  PROVE  OrderInv'
<1> DEFINE c == mQueue[p][1]
<1>1. /\ UNCHANGED <<req, arrivals, sent, pdmCall>>
      /\ \A q \in Providers \ {p} :
           pc'[q] = pc[q] /\ cur'[q] = cur[q] /\ mQueue'[q] = mQueue[q]
      /\ mQueue[p] # <<>> /\ cur'[p] = Head(mQueue[p]) /\ mQueue'[p] = Tail(mQueue[p])
  BY DEF dispatchHandler, pdmVars, IInv, TypeOK, Threads
<1>2. /\ DOMAIN mQueue[p] = 1..Len(mQueue[p]) /\ Len(mQueue[p]) \in Nat \ {0}
      /\ cur'[p] = c /\ 1 \in DOMAIN mQueue[p]
      /\ DOMAIN mQueue'[p] = 1..(Len(mQueue[p]) - 1)
      /\ \A k \in DOMAIN mQueue'[p] : mQueue'[p][k] = mQueue[p][k + 1]
  <2>1. mQueue[p] \in Seq(Calls) /\ mQueue[p] # <<>>
    BY <1>1 DEF IInv, TypeOK
  <2>2. Len(mQueue[p]) \in Nat \ {0} /\ Head(mQueue[p]) = c
    BY <2>1, EmptySeq
  <2>3. /\ Tail(mQueue[p]) \in Seq(Calls) /\ Len(Tail(mQueue[p])) = Len(mQueue[p]) - 1
        /\ \A k \in 1..Len(Tail(mQueue[p])) : Tail(mQueue[p])[k] = mQueue[p][k + 1]
    BY <2>1, HeadTailProperties
  <2> QED BY <1>1, <2>1, <2>2, <2>3
<1> HIDE DEF c
<1>3. Turns' = Turns /\ \A a, b : arrivedBefore(a, b)' <=> arrivedBefore(a, b)
  BY <1>1, SameTurns, SameOrder
<1>4. \A k \in DOMAIN mQueue'[p] : k + 1 \in DOMAIN mQueue[p] /\ 1 < k + 1
  BY <1>2
<1>5. \A q \in Providers : \A d : Queued(q, d)' => Queued(q, d)
  <2> SUFFICES ASSUME NEW q \in Providers, NEW k \in DOMAIN mQueue'[q]
               PROVE  \E j \in DOMAIN mQueue[q] : mQueue[q][j] = mQueue'[q][k]
    BY DEF Queued
  <2>1. CASE q = p
    BY <1>2, <1>4, <2>1
  <2>2. CASE q # p
    BY <1>1, <2>2
  <2> QED BY <2>1, <2>2
<1>6. \A q \in Providers : \A d :
        Handled(q, d)' => Handled(q, d) \/ (q = p /\ d = c /\ Queued(p, c))
  BY <1>1, <1>2 DEF Handled, Queued, c
<1>7. Recorded' /\ AtHome'
  BY <1>1, <1>3, <1>5, <1>6 DEF OrderInv, Recorded, AtHome
<1>8. QueueInOrder'
  <2>1. ASSUME NEW q \in Providers,
               NEW i \in DOMAIN mQueue'[q], NEW j \in DOMAIN mQueue'[q], i < j,
               mQueue'[q][i] \in Turns, mQueue'[q][j] \in Turns
        PROVE  arrivedBefore(mQueue'[q][i], mQueue'[q][j])
    <3>1. CASE q # p
      BY <1>1, <2>1, <3>1 DEF OrderInv, QueueInOrder
    <3>2. CASE q = p
      <4>1. /\ i + 1 \in DOMAIN mQueue[p] /\ j + 1 \in DOMAIN mQueue[p]
            /\ i + 1 < j + 1
            /\ mQueue'[q][i] = mQueue[p][i + 1] /\ mQueue'[q][j] = mQueue[p][j + 1]
        BY <1>2, <1>4, <2>1, <3>2, SMTT(30)
      <4> QED BY <2>1, <4>1 DEF OrderInv, QueueInOrder
    <3> QED BY <3>1, <3>2
  <2>2. ASSUME NEW q \in Providers, NEW a \in Turns, NEW d \in Turns,
               Handled(q, a)', Queued(q, d)'
        PROVE  arrivedBefore(a, d)
    <3>1. CASE q # p
      BY <1>1, <1>5, <1>6, <2>2, <3>1 DEF OrderInv, QueueInOrder
    <3>2. CASE q = p
      <4>1. a = c
        BY <1>2, <2>2, <3>2 DEF Handled
      <4>2. PICK k \in DOMAIN mQueue'[p] : mQueue'[p][k] = d
        BY <2>2, <3>2 DEF Queued
      <4>3. 1 < k + 1 /\ k + 1 \in DOMAIN mQueue[p] /\ mQueue[p][k + 1] = d
        BY <1>2, <1>4, <4>2
      <4> QED BY <1>2, <4>1, <4>3 DEF OrderInv, QueueInOrder, c
    <3> QED BY <3>1, <3>2
  <2> QED BY <1>3, <2>1, <2>2 DEF QueueInOrder
<1>9. AnsweredFirst'
  <2> SUFFICES ASSUME NEW i \in DOMAIN sent, NEW d \in Turns,
                      sent[i].call \in Turns, NEW q,
                      q = routeOf(req[sent[i].call]),
                      Queued(q, d)' \/ Handled(q, d)'
               PROVE  arrivedBefore(sent[i].call, d)
    BY <1>1, <1>3 DEF AnsweredFirst
  <2>1. q \in Providers
    BY TurnsHaveRoutes
  <2> QED BY <1>5, <1>6, <2>1 DEF OrderInv, AnsweredFirst
<1>10. OutOfTurn' /\ AnsweredInOrder'
  BY <1>1, <1>3 DEF OrderInv, OutOfTurn, AnsweredInOrder
<1> QED BY <1>7, <1>8, <1>9, <1>10 DEF OrderInv

\* A message that arrives and is refused.
LEMMA RefusalKeepsOrder ==
  ASSUME IInv, OrderInv, NEW c \in Calls, NEW r \in Requests, receive(c, r),
         rejectionOf(r) # "none", postToClient(c, rejectionOf(r), <<>>),
         UNCHANGED <<queueVars, pc>>
  PROVE  OrderInv'
<1>1. /\ req[c] = None /\ req'[c] = r /\ r # None
      /\ \A d \in Calls \ {c} : req'[d] = req[d]
      /\ arrivals' = Append(arrivals, c)
      /\ UNCHANGED <<mQueue, pc, cur, pdmCall>>
  BY NoneAssumption DEF receive, queueVars, pdmVars, IInv, TypeOK
<1>2. /\ Turns' = Turns /\ c \notin Turns
      /\ \A d \in Turns : req'[d] = req[d]
  BY <1>1 DEF Turns, answeredInTurn
<1>3. \A a, b : arrivedBefore(a, b) => arrivedBefore(a, b)'
  BY <1>1, ArrivalsGrow DEF OrderInv
<1>4. \A p : \A d : (Queued(p, d)' <=> Queued(p, d)) /\ (Handled(p, d)' <=> Handled(p, d))
  BY <1>1 DEF Queued, Handled
<1>5. /\ sent' = Append(sent, [call |-> c, kind |-> rejectionOf(r), sections |-> <<>>])
      /\ sent \in Seq(ReplyType)
      /\ \A k \in DOMAIN sent : sent[k].call \in Calls /\ req[sent[k].call] # None
  <2>1. \A x \in ReplyType : x.call \in Calls
    BY DEF ReplyType
  <2> QED BY <2>1 DEF postToClient, IInv, TypeOK, OrderInv, OutOfTurn
<1>6. \A k \in DOMAIN sent' :
        \/ k \in DOMAIN sent /\ sent'[k] = sent[k] /\ sent'[k].call \in Calls \ {c}
        \/ k \notin DOMAIN sent /\ sent'[k].call = c
  BY <1>1, <1>5
<1>7. Recorded'
  <2>1. /\ \E k \in DOMAIN arrivals' : arrivals'[k] = c
        /\ \A k \in DOMAIN arrivals : k \in DOMAIN arrivals' /\ arrivals'[k] = arrivals[k]
    BY <1>1, ArrivalsGrow DEF OrderInv
  <2> QED BY <1>1, <2>1 DEF OrderInv, Recorded
<1>8. AtHome' /\ QueueInOrder'
  BY <1>1, <1>2, <1>3, <1>4 DEF OrderInv, AtHome, QueueInOrder
<1>9. AnsweredFirst'
  <2> SUFFICES ASSUME NEW i \in DOMAIN sent', NEW d \in Turns,
                      NEW a \in Turns, a = sent'[i].call, NEW p,
                      p = routeOf(req'[a]),
                      Queued(p, d) \/ Handled(p, d)
               PROVE  arrivedBefore(a, d)'
    BY <1>2, <1>4 DEF AnsweredFirst
  <2>1. i \in DOMAIN sent /\ sent'[i] = sent[i]
    BY <1>2, <1>6
  <2>2. arrivedBefore(a, d)
    BY <1>2, <2>1 DEF OrderInv, AnsweredFirst
  <2> QED BY <1>3, <2>1, <2>2
<1>10. OutOfTurn'
  BY <1>1, <1>2, <1>6 DEF OrderInv, OutOfTurn
<1>11. AnsweredInOrder'
  <2> SUFFICES ASSUME NEW i \in DOMAIN sent', NEW j \in DOMAIN sent', i < j,
                      NEW a, NEW d, a = sent'[i].call, d = sent'[j].call, a # d,
                      answeredInTurn(req'[a]), answeredInTurn(req'[d]),
                      routeOf(req'[a]) = routeOf(req'[d])
               PROVE  arrivedBefore(a, d)'
    BY DEF AnsweredInOrder
  <2>1. a # c /\ d # c
    BY <1>1 DEF answeredInTurn
  <2>2. /\ i \in DOMAIN sent /\ j \in DOMAIN sent
        /\ sent[i].call = a /\ sent[j].call = d /\ a \in Calls /\ d \in Calls
    BY <1>6, <2>1
  <2>3. arrivedBefore(a, d)
    BY <1>1, <2>1, <2>2 DEF OrderInv, AnsweredInOrder
  <2> QED BY <1>3, <2>3
<1> QED BY <1>7, <1>8, <1>9, <1>10, <1>11 DEF OrderInv

-----------------------------------------------------------------------------
(* Every step keeps the order.                                             *)

LEMMA LunaKeepsOrder ==
  ASSUME IInv, OrderInv, NEW c \in Calls, LunaStep(c)
  PROVE  OrderInv'
<1>1. PICK r \in Requests :
        /\ receive(c, r)
        /\ \/ /\ rejectionOf(r) # "none"
              /\ postToClient(c, rejectionOf(r), <<>>)
              /\ UNCHANGED <<queueVars, pc>>
           \/ /\ rejectionOf(r) = "none"
              /\ \/ r.method # "LIST_STORAGES" /\ addRequest(Main, routeOf(r), c)
                 \/ r.method = "LIST_STORAGES" /\ addRequest(Main, "USB", c)
              /\ UNCHANGED sent
  BY DEF LunaStep, handleExtraCommand, list, getProperties, copy, move, remove,
         eject, rename, deviceMethod, listStorageProviders
<1>2. CASE rejectionOf(r) # "none" /\ postToClient(c, rejectionOf(r), <<>>)
           /\ UNCHANGED <<queueVars, pc>>
  BY <1>1, <1>2, RefusalKeepsOrder
<1>3. ASSUME NEW p \in Providers, addRequest(Main, p, c), sent' = sent,
             answeredInTurn(r) => routeOf(r) = p
      PROVE  OrderInv'
  <2>1. /\ req[c] = None /\ req'[c] = r /\ r # None
        /\ \A d \in Calls \ {c} : req'[d] = req[d]
        /\ arrivals' = Append(arrivals, c) /\ UNCHANGED <<cur, pdmCall>>
    BY <1>1, NoneAssumption DEF receive, pdmVars, IInv, TypeOK
  <2>2. NothingTaken
    <3>1. Main \notin Providers
      BY DEF Main, Providers
    <3>2. \A q \in Providers : pc'[q] = pc[q]
      BY <1>3, <3>1 DEF addRequest, IInv, TypeOK, Threads
    <3> QED BY <2>1, <3>2 DEF NothingTaken
  <2>3. PdmKept
    BY <2>1 DEF PdmKept
  <2>4. /\ mQueue' = [mQueue EXCEPT ![p] = Append(@, c)]
        /\ c \in Turns' => routeOf(req'[c]) = p
        /\ req'[c] # None
    BY <1>3, <2>1 DEF addRequest, Turns
  <2> QED BY <1>3, <2>1, <2>2, <2>3, <2>4, PushKeepsOrder
<1>4. CASE rejectionOf(r) = "none" /\ r.method # "LIST_STORAGES"
           /\ addRequest(Main, routeOf(r), c) /\ sent' = sent
  <2>1. routeOf(r) \in Providers
    BY <1>4, RequestsAssumption, RouteIsProvider
  <2> QED BY <1>3, <1>4, <2>1
<1>5. CASE r.method = "LIST_STORAGES" /\ addRequest(Main, "USB", c) /\ sent' = sent
  <2>1. "USB" \in Providers /\ ~answeredInTurn(r)
    BY <1>5 DEF Providers, answeredInTurn
  <2> QED BY <1>3, <1>5, <2>1
<1> QED BY <1>1, <1>2, <1>4, <1>5

\* An answer posted to a client extends what was sent.
LEMMA PostExtends ==
  ASSUME IInv, NEW c, NEW k, NEW l, postToClient(c, k, l)
  PROVE  Extended(c)
<1> DEFINE r == [call |-> c, kind |-> k, sections |-> l]
<1>1. /\ DOMAIN sent = 1..Len(sent) /\ Len(sent) \in Nat
      /\ sent' = Append(sent, r) /\ r.call = c
  BY DEF postToClient, IInv, TypeOK
<1> HIDE DEF r
<1>2. /\ DOMAIN sent' = 1..(Len(sent) + 1)
      /\ \A i \in 1..Len(sent) : sent'[i] = sent[i]
      /\ sent'[Len(sent) + 1] = r
  BY <1>1 DEF IInv, TypeOK
<1> QED BY <1>1, <1>2 DEF Extended

\* PDM reports on requests that have no turn.
LEMMA PdmKeepsOrder ==
  ASSUME IInv, IInv', OrderInv, NEW c \in Calls, PdmStep(c)
  PROVE  OrderInv'
<1>1. CASE onReply(c)
  <2>1. /\ UNCHANGED <<req, arrivals, mQueue, pc, cur>>
        /\ pdmCall[c] \notin {"none", "lost"}
        /\ pdmCall' = [pdmCall EXCEPT ![c] = "none"]
        /\ postToClient(c, "answer", <<>>)
    BY <1>1 DEF onReply, queueVars
  <2>2. NothingTaken /\ PdmKept
    BY <2>1 DEF NothingTaken, PdmKept, IInv, TypeOK
  <2>3. req[c] # None /\ c \notin Turns
    BY <2>1 DEF OrderInv, OutOfTurn
  <2>4. Extended(c)
    BY <2>1, PostExtends
  <2> QED BY <2>1, <2>2, <2>3, <2>4, AnswersKeepOrder DEF IInv
<1>2. CASE onGetPropertiesReply(c) \/ unparsableAnswer(c)
  <2>1. /\ UNCHANGED <<req, arrivals, mQueue, pc, cur, sent>>
        /\ \A d \in Calls : \/ pdmCall'[d] = pdmCall[d]
                            \/ pdmCall[d] \notin {"none", "lost"}
                            \/ pdmCall'[d] = "lost"
    BY <1>2 DEF onGetPropertiesReply, unparsableAnswer, queueVars, IInv, TypeOK
  <2>2. NothingTaken /\ PdmKept
    BY <2>1 DEF NothingTaken, PdmKept
  <2> QED BY <2>1, <2>2, StayKeepsOrder
<1>3. CASE onListStoragesMethodReply(c)
  <2>1. /\ UNCHANGED <<req, arrivals, mQueue, pdmCall, sent>>
        /\ \A p \in Providers : pc'[p] = pc[p] /\ cur'[p] = cur[p]
    <3>1. Main \notin Providers
      BY DEF Main, Providers
    <3> QED BY <1>3, <3>1 DEF onListStoragesMethodReply, queueVars, IInv, TypeOK, Threads
  <2>2. NothingTaken /\ PdmKept
    BY <2>1 DEF NothingTaken, PdmKept
  <2> QED BY <2>1, <2>2, StayKeepsOrder
<1> QED BY <1>1, <1>2, <1>3 DEF PdmStep

\* A handler answers the request it has, as often as it does, and leaves.
LEMMA HandlerKeepsOrder ==
  ASSUME IInv, IInv', OrderInv, NEW p \in Providers, HandlerStep(p)
  PROVE  OrderInv'
<1>1. /\ UNCHANGED <<req, arrivals, mQueue, pdmCall>>
      /\ pc[p] = "running" /\ leaveHandler(p)
  BY DEF HandlerStep, handleUnknown, handleRequests, inHandler, queueVars, pdmVars
<1>2. /\ NothingTaken /\ PdmKept /\ pc'[p] \notin Working
      /\ Handled(p, cur[p]) /\ cur[p] \in Calls /\ req[cur[p]] # None
  <2>1. p \in Threads
    BY DEF Threads
  <2>2. cur[p] \in Calls /\ req[cur[p]] # None
    BY <1>1, <2>1, NoneAssumption DEF IInv, ThreadsAdmitted, Admitted
  <2>3. /\ \A q \in Providers \ {p} : pc'[q] = pc[q] /\ cur'[q] = cur[q]
        /\ pc'[p] = "ready"
    BY <1>1, <2>1 DEF leaveHandler, IInv, TypeOK, Threads
  <2> QED BY <1>1, <2>2, <2>3 DEF NothingTaken, PdmKept, Handled, Working
<1>3. CASE handleUnknown(p)
  BY <1>1, <1>2, <1>3, StayKeepsOrder DEF handleUnknown
<1>4. CASE handleRequests(p)
  <2> DEFINE answer == [call |-> cur[p], kind |-> "answer", sections |-> <<>>]
  <2>1. PICK n \in answersOf(p, req[cur[p]]) :
          sent' = sent \o [i \in 1..n |-> answer]
    BY <1>4 DEF handleRequests
  <2>2. n \in Nat
    <3>1. p \in {"INTERNAL", "USB", "GDRIVE", "NETWORK"}
      BY DEF Providers
    <3>2. answersOf(p, req[cur[p]]) \subseteq {0, 1, 2}
      BY <3>1 DEF answersOf, internalAnswers, usbAnswers, gdriveAnswers,
                  networkAnswers
    <3> QED BY <3>2
  <2>3. answer \in ReplyType /\ answer.call = cur[p]
    BY <1>2 DEF ReplyType, ReplyKinds, SectionLists
  <2> HIDE DEF answer
  <2> DEFINE answers == [i \in 1..n |-> answer]
  <2>4. /\ answers \in Seq(ReplyType) /\ Len(answers) = n
        /\ \A i \in 1..n : answers[i] = answer
    BY <2>2, <2>3
  <2>5. sent \in Seq(ReplyType) /\ sent' = sent \o answers
    BY <2>1 DEF IInv, TypeOK
  <2> HIDE DEF answers
  <2>6. /\ Len(sent') = Len(sent) + n /\ sent' \in Seq(ReplyType)
        /\ \A i \in 1..(Len(sent) + n) :
             sent'[i] = IF i <= Len(sent) THEN sent[i] ELSE answers[i - Len(sent)]
    BY <2>4, <2>5, ConcatProperties
  <2>7. /\ DOMAIN sent = 1..Len(sent) /\ Len(sent) \in Nat
        /\ DOMAIN sent' = 1..(Len(sent) + n)
    BY <2>5, <2>6
  <2>8. \A i \in DOMAIN sent' \ DOMAIN sent :
          sent'[i].call = cur[p] /\ \A k \in DOMAIN sent : k < i
    <3> SUFFICES ASSUME NEW i \in DOMAIN sent' \ DOMAIN sent
                 PROVE  sent'[i] = answer /\ \A k \in DOMAIN sent : k < i
      BY <2>3
    <3>1. i > Len(sent) /\ i - Len(sent) \in 1..n
      BY <2>2, <2>7
    <3> QED BY <2>4, <2>6, <2>7, <3>1
  <2>9. Extended(cur[p])
    BY <2>2, <2>6, <2>7, <2>8 DEF Extended
  <2> QED BY <1>1, <1>2, <2>9, AnswersKeepOrder DEF IInv
<1> QED BY <1>3, <1>4 DEF HandlerStep

\* What USB hands over to PDM has no turn.
LEMMA UsbKeepsOrder ==
  ASSUME IInv, OrderInv, UsbStep
  PROVE  OrderInv'
<1> DEFINE c == cur["USB"]
<1>1. /\ UNCHANGED <<req, arrivals, mQueue, sent>>
      /\ pc["USB"] = "running" /\ leaveHandler("USB")
      /\ \/ pdmCall' = pdmCall
         \/ /\ \E s : pdmCall' = [pdmCall EXCEPT ![c] = s]
            /\ \/ req[c].method = "EJECT"
               \/ req[c].method = "GET_PROP" /\ ~req[c].path
  BY DEF UsbStep, getPropertiesMethod, ejectMethod, usbListStorages, inHandler,
         queueVars
<1>2. "USB" \in Providers /\ "USB" \in Threads
  BY DEF Threads, Providers
<1>3. c \in Calls /\ req[c] # None /\ Handled("USB", c)
  BY <1>1, <1>2, NoneAssumption
     DEF IInv, ThreadsAdmitted, Admitted, Handled, Working
<1> HIDE DEF c
<1>4. NothingTaken
  <2>1. /\ \A q \in Providers \ {"USB"} : pc'[q] = pc[q] /\ cur'[q] = cur[q]
        /\ pc'["USB"] = "ready"
    BY <1>1, <1>2 DEF leaveHandler, IInv, TypeOK, Threads
  <2> QED BY <2>1 DEF NothingTaken, Working
<1>5. PdmKept
  <2>1. CASE pdmCall' = pdmCall
    BY <2>1 DEF PdmKept
  <2>2. CASE pdmCall' # pdmCall
    <3>1. c \in Turns => routeOf(req[c]) = "USB"
      BY <1>2, <1>3 DEF OrderInv, AtHome
    <3>2. c \notin Turns
      BY <1>1, <2>2, <3>1 DEF Turns, answeredInTurn
    <3>3. \A d \in Calls \ {c} : pdmCall'[d] = pdmCall[d]
      BY <1>1, <2>2 DEF IInv, TypeOK
    <3> QED BY <1>3, <3>2, <3>3 DEF PdmKept
  <2> QED BY <2>1, <2>2
<1> QED BY <1>1, <1>4, <1>5, StayKeepsOrder

\* The callbacks handle listings, which have no turn.
LEMMA CallbackKeepsOrder ==
  ASSUME IInv, IInv', OrderInv, NEW t \in Threads, CallbackStep(t)
  PROVE  OrderInv'
<1>0. /\ pc \in [Threads -> ThreadStates] /\ cur \in [Threads -> Calls \cup {None}]
      /\ Providers \subseteq Threads
      /\ \A c \in Listings : c \in Calls /\ c \notin Turns /\ req[c] # None
  <2>1. \A c \in Listings : c \in Calls /\ c \notin Turns /\ req[c] # None
    BY NoneAssumption DEF Listings, Admitted, Turns, answeredInTurn
  <2> QED BY <2>1 DEF IInv, TypeOK, Threads
<1>1. CASE onListOfStoragesReply(t)
  <2>1. /\ UNCHANGED <<req, arrivals, mQueue, cur, pdmCall, sent>>
        /\ pc[t] = "replying" /\ pc' = [pc EXCEPT ![t] = "building"]
    BY <1>1 DEF onListOfStoragesReply, queueVars, pdmVars
  <2>2. NothingTaken /\ PdmKept
    BY <1>0, <2>1 DEF NothingTaken, PdmKept, Working
  <2> QED BY <2>1, <2>2, StayKeepsOrder
<1>2. CASE buildNextRequest(t)
  <2>1. /\ UNCHANGED <<req, arrivals, cur, pdmCall, sent>>
        /\ pc[t] = "building" /\ pc' = [pc EXCEPT ![t] = "notifying"]
        /\ addRequest(t, getStorageDeviceType(params[cur[t]].storageType), cur[t])
    BY <1>2 DEF buildNextRequest, pdmVars, addRequest
  <2>2. cur[t] \in Listings
    BY <2>1 DEF IInv, ThreadsAdmitted
  <2>3. PICK p \in Providers : mQueue' = [mQueue EXCEPT ![p] = Append(@, cur[t])]
    BY <2>1, <2>2, StageIsProvider DEF Listings, Admitted, addRequest
  <2>4. NothingTaken /\ PdmKept
    BY <1>0, <2>1 DEF NothingTaken, PdmKept, Working
  <2>5. cur[t] \in Calls /\ cur[t] \notin Turns
    BY <1>0, <2>2
  <2>6. \A d \in Calls \ {cur[t]} : req'[d] = req[d]
    BY <2>1
  <2> QED BY <2>1, <2>3, <2>4, <2>5, <2>6, PushKeepsOrder
<1>3. CASE answerListOfStorages(t)
  <2> DEFINE sections == Append(params[cur[t]].listStorageResponse,
                                params[cur[t]].response)
  <2>1. /\ UNCHANGED <<req, arrivals, mQueue, pdmCall>>
        /\ pc[t] = "replying" /\ pc' = [pc EXCEPT ![t] = "ready"]
        /\ cur' = [cur EXCEPT ![t] = None]
        /\ postToClient(cur[t], "answer", sections)
    BY <1>3 DEF answerListOfStorages, queueVars, pdmVars
  <2> HIDE DEF sections
  <2>2. cur[t] \in Listings
    BY <2>1 DEF IInv, ThreadsAdmitted
  <2>3. NothingTaken /\ PdmKept
    BY <1>0, <2>1 DEF NothingTaken, PdmKept, Working
  <2>4. Extended(cur[t])
    BY <2>1, PostExtends
  <2> QED BY <1>0, <2>1, <2>2, <2>3, <2>4, AnswersKeepOrder DEF IInv
<1>4. CASE notify_one(t)
  <2>1. /\ UNCHANGED <<req, arrivals, mQueue, pdmCall, sent>>
        /\ pc[t] = "notifying" /\ cur' = [cur EXCEPT ![t] = None]
        /\ \A s \in Threads : pc'[s] = "ready" \/ (s # t /\ pc'[s] = pc[s])
    BY <1>0, <1>4 DEF notify_one, pdmVars
  <2>2. NothingTaken /\ PdmKept
    BY <1>0, <2>1 DEF NothingTaken, PdmKept, Working
  <2> QED BY <2>1, <2>2, StayKeepsOrder
<1> QED BY <1>1, <1>2, <1>3, <1>4 DEF CallbackStep

LEMMA NextKeepsOrder ==
  ASSUME IInv, IInv', OrderInv, [Next]_vars
  PROVE  OrderInv'
<1>0. /\ pc \in [Threads -> ThreadStates] /\ cur \in [Threads -> Calls \cup {None}]
      /\ Providers \subseteq Threads
  BY DEF IInv, TypeOK, Threads
<1>1. ASSUME NEW c \in Calls, LunaStep(c) \/ PdmStep(c) PROVE OrderInv'
  BY <1>1, LunaKeepsOrder, PdmKeepsOrder
<1>2. ASSUME NEW p \in Providers, QueueStep(p) PROVE OrderInv'
  <2>1. CASE dispatchHandler(p)
    BY <2>1, TakeKeepsOrder
  <2>2. CASE waitForRequest(p) \/ spuriousWakeup(p)
    <3>1. /\ UNCHANGED <<req, arrivals, mQueue, cur, pdmCall, sent>>
          /\ \E s \in {"ready", "blocked"} : pc' = [pc EXCEPT ![p] = s]
      BY <2>2 DEF waitForRequest, spuriousWakeup, queueVars, pdmVars
    <3>2. NothingTaken /\ PdmKept
      BY <1>0, <3>1 DEF NothingTaken, PdmKept, Working
    <3> QED BY <3>1, <3>2, StayKeepsOrder
  <2> QED BY <1>2, <2>1, <2>2 DEF QueueStep
<1>3. ASSUME NEW p \in Providers, HandlerStep(p) PROVE OrderInv'
  BY <1>3, HandlerKeepsOrder
<1>4. ASSUME NEW t \in Threads, CallbackStep(t) PROVE OrderInv'
  BY <1>4, CallbackKeepsOrder
<1>5. CASE UsbStep
  BY <1>5, UsbKeepsOrder
<1>6. CASE StageStep \/ scanHangs
  <2>1. PICK p \in Providers, s \in {"replying", "hung"} :
          /\ pc[p] = "running" /\ pc' = [pc EXCEPT ![p] = s]
          /\ UNCHANGED <<req, arrivals, mQueue, cur, pdmCall, sent>>
    <3>1. {"INTERNAL", "GDRIVE", "NETWORK"} \subseteq Providers
      BY DEF Providers
    <3> QED BY <1>6, <3>1
            DEF StageStep, internalListStorages, gdriveListStorages,
                networkListStorages, listStoragesStage, scanHangs, inHandler,
                queueVars, pdmVars
  <2>2. NothingTaken /\ PdmKept
    BY <1>0, <2>1 DEF NothingTaken, PdmKept, Working
  <2> QED BY <2>1, <2>2, StayKeepsOrder
<1>7. CASE UNCHANGED vars
  <2>1. NothingTaken /\ PdmKept
    BY <1>7 DEF vars, NothingTaken, PdmKept
  <2> QED BY <1>7, <2>1, StayKeepsOrder DEF vars
<1> QED
  BY <1>1, <1>2, <1>3, <1>4, <1>5, <1>6, <1>7 DEF Next

LEMMA InitOrdered == Init => OrderInv
<1> SUFFICES ASSUME Init PROVE OrderInv
  OBVIOUS
<1>1. Turns = {} /\ DOMAIN sent = {}
  BY DEF Init, Turns
<1>2. Recorded
  BY DEF Init, Recorded
<1>3. AtHome /\ QueueInOrder /\ AnsweredFirst
  BY <1>1 DEF AtHome, QueueInOrder, AnsweredFirst, Init
<1>4. OutOfTurn
  BY <1>1 DEF Init, OutOfTurn
<1>5. AnsweredInOrder
  BY <1>1 DEF AnsweredInOrder
<1> QED BY <1>2, <1>3, <1>4, <1>5 DEF OrderInv

\* Requests to one provider are answered in the order in which the main loop
\* received them, however the threads interleave and whatever PDM does, for
\* any number of clients and requests.
THEOREM AnswersKeepArrivalOrder == Spec => []AnsweredInOrder
<1>1. Init => OrderInv
  BY InitOrdered
<1>2. IInv /\ IInv' /\ OrderInv /\ [Next]_vars => OrderInv'
  BY NextKeepsOrder
<1>3. OrderInv => AnsweredInOrder
  BY DEF OrderInv
<1> QED BY <1>1, <1>2, <1>3, Admission, PTL DEF Spec

-----------------------------------------------------------------------------
(* The mailboxes behind the threads: SAFService implements Mailboxes.      *)

\* A thread that is inside a handler has the call it works on, and the main
\* loop is in a stage callback only for a call PDM has reported on.
HoldersKnown ==
  /\ \A p \in Providers : pc[p] \in Working => cur[p] \in Calls
  /\ pc[Main] \in {"replying", "building"} =>
       cur[Main] \in Calls /\ subscribed[cur[Main]]

MailInv == IInv /\ HoldersKnown

-----------------------------------------------------------------------------
(* Sequences.                                                              *)

\* The oldest element is taken from the front, however the front is written.
LEMMA FrontOfSeq ==
  ASSUME NEW S, NEW x \in S, NEW s \in Seq(S)
  PROVE  /\ <<x>> \o s \in Seq(S)
         /\ <<x>> \o s # <<>>
         /\ Head(<<x>> \o s) = x
         /\ Tail(<<x>> \o s) = s
<1>1. <<x>> \in Seq(S) /\ Len(<<x>>) = 1 /\ <<x>>[1] = x
  OBVIOUS
<1> DEFINE t == <<x>> \o s
<1>2. /\ t \in Seq(S) /\ Len(t) = 1 + Len(s)
      /\ \A i \in 1..(1 + Len(s)) : t[i] = IF i <= 1 THEN <<x>>[i] ELSE s[i - 1]
  BY <1>1, ConcatProperties
<1> HIDE DEF t
<1>3. Len(s) \in Nat
  OBVIOUS
<1>4. t # <<>> /\ Head(t) = x
  BY <1>1, <1>2, <1>3
<1>5. /\ Tail(t) \in Seq(S) /\ Len(Tail(t)) = Len(s)
      /\ \A i \in 1..Len(Tail(t)) : Tail(t)[i] = t[i + 1]
  BY <1>2, <1>3, <1>4, HeadTailProperties
<1>6. \A i \in 1..Len(s) : Tail(t)[i] = s[i]
  BY <1>2, <1>3, <1>5
<1>7. Tail(t) = s
  BY <1>5, <1>6, SeqEqual
<1> QED BY <1>2, <1>4, <1>7 DEF t

\* A sequence is its head and its tail.
LEMMA HeadAndTail ==
  ASSUME NEW S, NEW s \in Seq(S), s # <<>>
  PROVE  Head(s) \in S /\ <<Head(s)>> \o Tail(s) = s
<1>1. /\ Head(s) \in S /\ Tail(s) \in Seq(S) /\ Len(Tail(s)) = Len(s) - 1
      /\ \A i \in 1..Len(Tail(s)) : Tail(s)[i] = s[i + 1]
  BY HeadTailProperties
<1> DEFINE t == <<Head(s)>> \o Tail(s)
<1>2. <<Head(s)>> \in Seq(S) /\ Len(<<Head(s)>>) = 1 /\ <<Head(s)>>[1] = Head(s)
  BY <1>1
<1>3. /\ t \in Seq(S) /\ Len(t) = 1 + Len(Tail(s))
      /\ \A i \in 1..(1 + Len(Tail(s))) :
           t[i] = IF i <= 1 THEN <<Head(s)>>[i] ELSE Tail(s)[i - 1]
  BY <1>1, <1>2, ConcatProperties
<1> HIDE DEF t
<1>4. Len(s) \in Nat \ {0} /\ Head(s) = s[1]
  BY EmptySeq
<1>5. \A i \in 1..Len(s) : t[i] = s[i]
  BY <1>1, <1>2, <1>3, <1>4
<1>6. t = s
  BY <1>1, <1>3, <1>4, <1>5, SeqEqual
<1> QED BY <1>1, <1>6 DEF t

\* What is appended to the rest is appended to the whole.
LEMMA AppendToRest ==
  ASSUME NEW S, NEW s \in Seq(S), NEW t \in Seq(S), NEW x \in S
  PROVE  s \o Append(t, x) = Append(s \o t, x)
<1>1. /\ Append(t, x) = t \o <<x>>
      /\ s \o t \in Seq(S) /\ <<x>> \in Seq(S)
  BY AppendIsConcat, ConcatProperties
<1>2. Append(s \o t, x) = (s \o t) \o <<x>>
  BY <1>1, AppendIsConcat
<1> QED BY <1>1, <1>2, ConcatAssociative
-----------------------------------------------------------------------------
(* The mapped state, and how the steps change it.                          *)

LEMMA BoxType ==
  ASSUME MailInv, NEW p \in Providers
  PROVE  /\ atWork(p) \in Seq(Calls) /\ mQueue[p] \in Seq(Calls)
         /\ mailBox[p] = atWork(p) \o mQueue[p]
<1>1. pc[p] \in Working => cur[p] \in Calls
  BY DEF MailInv, HoldersKnown
<1>2. atWork(p) \in Seq(Calls)
  BY <1>1 DEF atWork
<1>3. mQueue[p] \in Seq(Calls)
  BY DEF MailInv, IInv, TypeOK
<1> QED BY <1>2, <1>3 DEF mailBox

\* A box changes where its queue or its dispatcher's work does.
LEMMA BoxSame ==
  ASSUME NEW p \in Providers, mQueue'[p] = mQueue[p], cur'[p] = cur[p],
         pc[p] \in Working <=> pc'[p] \in Working
  PROVE  mailBox'[p] = mailBox[p]
BY DEF mailBox, atWork

LEMMA BoxesSame ==
  ASSUME \A p \in Providers : mailBox'[p] = mailBox[p]
  PROVE  mailBox' = mailBox
<1>1. mailBox = [p \in Providers |-> mailBox[p]] /\ mailBox' = [p \in Providers |-> mailBox'[p]]
  BY DEF mailBox
<1> QED BY <1>1

LEMMA BoxUpdate ==
  ASSUME NEW q \in Providers, NEW b, mailBox'[q] = b,
         \A p \in Providers \ {q} : mailBox'[p] = mailBox[p]
  PROVE  mailBox' = [mailBox EXCEPT ![q] = b]
<1>1. mailBox = [p \in Providers |-> mailBox[p]] /\ mailBox' = [p \in Providers |-> mailBox'[p]]
  BY DEF mailBox
<1> QED BY <1>1

\* Main is no provider.
LEMMA MainApart == Main \in Threads /\ Main \notin Providers /\ Providers \subseteq Threads
BY DEF Threads, Providers, Main

\* A request posted by a thread whose own box it does not change.
LEMMA PushedToBox ==
  ASSUME MailInv, NEW t \in Threads, NEW q \in Providers, NEW c \in Calls,
         addRequest(t, q, c), cur' = cur, pc[t] \notin Working \/ t = Main
  PROVE  mailBox' = [mailBox EXCEPT ![q] = Append(@, c)]
<1>1. /\ pc' = [pc EXCEPT ![t] = "notifying"]
      /\ mQueue' = [mQueue EXCEPT ![q] = Append(@, c)]
      /\ pc \in [Threads -> ThreadStates] /\ mQueue \in [Providers -> Seq(Calls)]
  BY DEF addRequest, MailInv, IInv, TypeOK
<1>2. \A p \in Providers : pc[p] \in Working <=> pc'[p] \in Working
  BY <1>1, MainApart DEF Working
<1>3. \A p \in Providers \ {q} : mailBox'[p] = mailBox[p]
  BY <1>1, <1>2, BoxSame
<1>4. atWork(q)' = atWork(q)
  BY <1>2 DEF atWork
<1>5. mailBox'[q] = atWork(q) \o Append(mQueue[q], c)
  BY <1>1, <1>4 DEF mailBox
<1>6. mailBox'[q] = Append(mailBox[q], c)
  <2>1. /\ atWork(q) \in Seq(Calls) /\ mQueue[q] \in Seq(Calls)
        /\ mailBox[q] = atWork(q) \o mQueue[q]
    BY BoxType
  <2>2. atWork(q) \o Append(mQueue[q], c) = Append(atWork(q) \o mQueue[q], c)
    BY <2>1, AppendToRest
  <2> QED BY <1>5, <2>1, <2>2
<1>7. mailBox' = [mailBox EXCEPT ![q] = Append(mailBox[q], c)]
  BY <1>3, <1>6, BoxUpdate
<1>8. q \in DOMAIN mailBox
  BY DEF mailBox
<1> QED BY <1>7, <1>8

\* A dispatcher that leaves its handler has done with the head of its box.
LEMMA WorkDone ==
  ASSUME MailInv, NEW p \in Providers, pc[p] \in Working,
         leaveHandler(p), mQueue' = mQueue
  PROVE  /\ mailBox[p] # <<>> /\ Head(mailBox[p]) = cur[p]
         /\ mailBox' = [mailBox EXCEPT ![p] = Tail(@)]
<1>1. /\ pc' = [pc EXCEPT ![p] = "ready"] /\ cur' = [cur EXCEPT ![p] = None]
      /\ pc \in [Threads -> ThreadStates] /\ cur \in [Threads -> Calls \cup {None}]
      /\ p \in Threads
  BY MainApart DEF leaveHandler, MailInv, IInv, TypeOK
<1>2. /\ mailBox[p] = <<cur[p]>> \o mQueue[p]
      /\ cur[p] \in Calls /\ mQueue[p] \in Seq(Calls)
  BY BoxType DEF atWork, MailInv, HoldersKnown
<1>3. /\ mailBox[p] # <<>> /\ Head(mailBox[p]) = cur[p]
      /\ Tail(mailBox[p]) = mQueue[p]
  BY <1>2, FrontOfSeq
<1>4. mailBox'[p] = mQueue[p]
  <2>1. mailBox'[p] = <<>> \o mQueue[p]
    BY <1>1 DEF mailBox, atWork, Working
  <2> QED BY <1>2, <2>1, ConcatEmptySeq
<1>5. \A q \in Providers \ {p} : mailBox'[q] = mailBox[q]
  BY <1>1, MainApart, BoxSame
<1>6. p \in DOMAIN mailBox
  BY DEF mailBox
<1>7. mailBox' = [mailBox EXCEPT ![p] = Tail(mailBox[p])]
  BY <1>3, <1>4, <1>5, BoxUpdate
<1> QED BY <1>3, <1>6, <1>7

\* Answers are told apart by their messages.
LEMMA OneAnswer ==
  ASSUME MailInv, NEW c \in Calls, NEW k \in ReplyKinds, NEW l \in SectionLists,
         postToClient(c, k, l)
  PROVE  mailAnswered' = Append(mailAnswered, c)
<1> DEFINE r == [call |-> c, kind |-> k, sections |-> l]
<1>1. r \in ReplyType /\ r.call = c
  BY DEF ReplyType
<1>2. sent \in Seq(ReplyType) /\ sent' = Append(sent, r)
  BY DEF postToClient, MailInv, IInv, TypeOK
<1> HIDE DEF r
<1>3. /\ sent' \in Seq(ReplyType) /\ Len(sent') = Len(sent) + 1
      /\ \A i \in 1..Len(sent) : sent'[i] = sent[i]
      /\ sent'[Len(sent) + 1] = r
  BY <1>1, <1>2, AppendProperties
<1>4. /\ Len(sent) \in Nat
      /\ mailAnswered = [i \in 1..Len(sent) |-> sent[i].call]
      /\ mailAnswered' = [i \in 1..(Len(sent) + 1) |-> sent'[i].call]
  BY <1>2, <1>3 DEF mailAnswered
<1>5. \A x \in ReplyType : x.call \in Calls
  BY DEF ReplyType
<1>6. \A i \in 1..Len(sent) : sent[i].call \in Calls
  BY <1>2, <1>5
<1>7. mailAnswered \in Seq(Calls) /\ Len(mailAnswered) = Len(sent)
  BY <1>4, <1>6
<1>8. /\ Append(mailAnswered, c) \in Seq(Calls)
      /\ Len(Append(mailAnswered, c)) = Len(sent) + 1
      /\ \A i \in 1..Len(sent) : Append(mailAnswered, c)[i] = sent[i].call
      /\ Append(mailAnswered, c)[Len(sent) + 1] = c
  BY <1>4, <1>7, AppendProperties
<1>9. /\ mailAnswered' \in Seq(Calls) /\ Len(mailAnswered') = Len(sent) + 1
      /\ \A i \in 1..(Len(sent) + 1) : mailAnswered'[i] = sent'[i].call
  <2>1. \A i \in 1..(Len(sent) + 1) : sent'[i].call \in Calls
    BY <1>3, <1>4, <1>5
  <2> QED BY <1>4, <2>1
<1>10. \A i \in 1..(Len(sent) + 1) : mailAnswered'[i] = Append(mailAnswered, c)[i]
  BY <1>1, <1>3, <1>4, <1>8, <1>9
<1> QED BY <1>8, <1>9, <1>10, SeqEqual
LEMMA SomeAnswers ==
  ASSUME MailInv, NEW c \in Calls, NEW r \in ReplyType, r.call = c, NEW n \in Nat,
         sent' = sent \o [i \in 1..n |-> r]
  PROVE  mailAnswered' = mailAnswered \o [i \in 1..n |-> c]
<1> DEFINE rs == [i \in 1..n |-> r]
           cs == [i \in 1..n |-> c]
<1>1. /\ rs \in Seq(ReplyType) /\ Len(rs) = n
      /\ cs \in Seq(Calls) /\ Len(cs) = n
      /\ \A i \in 1..n : rs[i] = r /\ cs[i] = c
  OBVIOUS
<1>2. sent \in Seq(ReplyType) /\ sent' = sent \o rs
  BY DEF MailInv, IInv, TypeOK
<1> HIDE DEF rs, cs
<1>3. /\ sent' \in Seq(ReplyType) /\ Len(sent') = Len(sent) + n
      /\ \A i \in 1..(Len(sent) + n) :
           sent'[i] = IF i <= Len(sent) THEN sent[i] ELSE rs[i - Len(sent)]
  BY <1>1, <1>2, ConcatProperties
<1>4. /\ Len(sent) \in Nat
      /\ mailAnswered = [i \in 1..Len(sent) |-> sent[i].call]
      /\ mailAnswered' = [i \in 1..(Len(sent) + n) |-> sent'[i].call]
  BY <1>2, <1>3 DEF mailAnswered
<1>5. \A x \in ReplyType : x.call \in Calls
  BY DEF ReplyType
<1>6. \A i \in 1..Len(sent) : sent[i].call \in Calls
  BY <1>2, <1>5
<1>7. mailAnswered \in Seq(Calls) /\ Len(mailAnswered) = Len(sent)
  BY <1>4, <1>6
<1> DEFINE longer == mailAnswered \o cs
<1>8. /\ longer \in Seq(Calls) /\ Len(longer) = Len(sent) + n
      /\ \A i \in 1..(Len(sent) + n) :
           longer[i] = IF i <= Len(sent) THEN mailAnswered[i] ELSE cs[i - Len(sent)]
  <2>1. /\ longer \in Seq(Calls) /\ Len(longer) = Len(mailAnswered) + Len(cs)
        /\ \A i \in 1..(Len(mailAnswered) + Len(cs)) :
             longer[i] = IF i <= Len(mailAnswered) THEN mailAnswered[i]
                         ELSE cs[i - Len(mailAnswered)]
    BY <1>1, <1>7, ConcatProperties
  <2> HIDE DEF longer
  <2> QED BY <1>1, <1>7, <2>1
<1> HIDE DEF longer
<1>9. /\ mailAnswered' \in Seq(Calls) /\ Len(mailAnswered') = Len(sent) + n
      /\ \A i \in 1..(Len(sent) + n) : mailAnswered'[i] = sent'[i].call
  <2>1. \A i \in 1..(Len(sent) + n) : sent'[i].call \in Calls
    <3>1. \A i \in 1..Len(sent') : sent'[i] \in ReplyType
      BY <1>3
    <3> QED BY <1>3, <1>5, <3>1
  <2> QED BY <1>4, <2>1
<1>10. \A i \in 1..(Len(sent) + n) : mailAnswered'[i] = longer[i]
  <2> SUFFICES ASSUME NEW i \in 1..(Len(sent) + n)
               PROVE  mailAnswered'[i] = longer[i]
    OBVIOUS
  <2>1. CASE i <= Len(sent)
    BY <1>3, <1>4, <1>8, <1>9, <2>1
  <2>2. CASE i > Len(sent)
    <3>1. i - Len(sent) \in 1..n
      BY <1>4, <2>2
    <3>2. sent'[i] = r /\ longer[i] = c
      BY <1>1, <1>3, <1>4, <1>8, <2>2, <3>1
    <3> QED BY <1>9, <3>2
  <2> QED BY <1>4, <2>1, <2>2
<1>11. mailAnswered' = longer
  BY <1>8, <1>9, <1>10, SeqEqual
<1> QED BY <1>11 DEF longer, cs

\* Whoever answers nobody leaves mailAnswered alone, and so on.
LEMMA KnownSame == req' = req => mailKnown' = mailKnown
BY DEF mailKnown

LEMMA AnsweredSame == sent' = sent => mailAnswered' = mailAnswered
BY DEF mailAnswered

LEMMA OutSame == UNCHANGED <<pdmCall, fresh, subscribed>> => mailOut' = mailOut
BY DEF mailOut

\* A message that arrives becomes known.
LEMMA Received ==
  ASSUME MailInv, NEW c \in Calls, NEW r \in Requests, receive(c, r)
  PROVE  /\ c \notin mailKnown /\ mailKnown' = mailKnown \cup {c}
         /\ mailOut' = mailOut /\ cur' = cur
<1>1. /\ req[c] = None /\ r # None /\ req' = [req EXCEPT ![c] = r]
      /\ req \in [Calls -> Requests \cup {None}]
  BY NoneAssumption DEF receive, MailInv, IInv, TypeOK
<1>2. mailOut' = mailOut
  BY OutSame DEF receive, pdmVars
<1> QED BY <1>1, <1>2 DEF mailKnown, receive
-----------------------------------------------------------------------------
(* Every step of the threads is a step of the mailboxes or none.           *)

MailSame == UNCHANGED <<mailKnown, mailBox, mailOut, mailAnswered>>

\* A refusal, or a request posted to the box of its provider.
LEMMA LunaMaps ==
  ASSUME MailInv, NEW c \in Calls, LunaStep(c)
  PROVE  Mail!Refuse(c) \/ \E p \in Providers : Mail!Post(c, p)
<1>1. PICK r \in Requests :
        /\ receive(c, r)
        /\ \/ /\ rejectionOf(r) # "none"
              /\ postToClient(c, rejectionOf(r), <<>>)
              /\ UNCHANGED <<queueVars, pc>>
           \/ /\ rejectionOf(r) = "none"
              /\ \/ r.method # "LIST_STORAGES" /\ addRequest(Main, routeOf(r), c)
                 \/ addRequest(Main, "USB", c)
              /\ UNCHANGED sent
  BY DEF LunaStep, handleExtraCommand, list, getProperties, copy, move, remove,
         eject, rename, deviceMethod, listStorageProviders
<1>2. /\ c \notin mailKnown /\ mailKnown' = mailKnown \cup {c}
      /\ mailOut' = mailOut /\ cur' = cur
  BY <1>1, Received
<1>3. ASSUME NEW p \in Providers, addRequest(Main, p, c), sent' = sent
      PROVE  Mail!Post(c, p)
  <2>1. mailBox' = [mailBox EXCEPT ![p] = Append(@, c)]
    BY <1>2, <1>3, MainApart, PushedToBox
  <2> QED BY <1>2, <1>3, <2>1, AnsweredSame DEF Mail!Post
<1>4. CASE rejectionOf(r) # "none" /\ postToClient(c, rejectionOf(r), <<>>)
           /\ UNCHANGED <<queueVars, pc>>
  <2>1. rejectionOf(r) \in ReplyKinds /\ <<>> \in SectionLists
    BY <1>4, RequestsAssumption, RejectionType DEF SectionLists
  <2>2. mailAnswered' = Append(mailAnswered, c)
    BY <1>4, <2>1, OneAnswer
  <2>3. mailBox' = mailBox
    BY <1>2, <1>4, BoxSame, BoxesSame DEF queueVars
  <2> QED BY <1>2, <2>2, <2>3 DEF Mail!Refuse
<1>5. CASE rejectionOf(r) = "none" /\ r.method # "LIST_STORAGES"
           /\ addRequest(Main, routeOf(r), c) /\ sent' = sent
  <2>1. routeOf(r) \in Providers
    BY <1>5, RequestsAssumption, RouteIsProvider
  <2> QED BY <1>3, <1>5, <2>1
<1>6. CASE addRequest(Main, "USB", c) /\ sent' = sent
  <2>1. "USB" \in Providers
    BY DEF Providers
  <2> QED BY <1>3, <1>6, <2>1
<1> QED BY <1>1, <1>4, <1>5, <1>6

\* Waiting, waking and notifying are invisible, and so is taking a request:
\* the oldest one only moves from the queue into the handler.
LEMMA QueueMaps ==
  ASSUME MailInv, NEW p \in Providers, QueueStep(p)
  PROVE  MailSame
<1>1. mailKnown' = mailKnown /\ mailOut' = mailOut /\ mailAnswered' = mailAnswered
  BY KnownSame, OutSame, AnsweredSame
     DEF QueueStep, waitForRequest, spuriousWakeup, dispatchHandler, pdmVars
<1>2. pc \in [Threads -> ThreadStates] /\ cur \in [Threads -> Calls \cup {None}]
      /\ mQueue \in [Providers -> Seq(Calls)]
  BY DEF MailInv, IInv, TypeOK
<1>3. CASE waitForRequest(p) \/ spuriousWakeup(p)
  <2>1. mQueue' = mQueue /\ cur' = cur
    BY <1>3 DEF waitForRequest, spuriousWakeup, queueVars
  <2>2. \A q \in Providers : pc[q] \in Working <=> pc'[q] \in Working
    BY <1>2, <1>3, MainApart DEF waitForRequest, spuriousWakeup, Working
  <2> QED BY <1>1, <2>1, <2>2, BoxSame, BoxesSame DEF MailSame
<1>4. CASE dispatchHandler(p)
  <2>1. /\ pc[p] = "ready" /\ mQueue[p] # <<>> /\ mQueue[p] \in Seq(Calls)
        /\ pc'[p] = "running" /\ cur'[p] = Head(mQueue[p])
        /\ mQueue'[p] = Tail(mQueue[p])
        /\ \A q \in Providers \ {p} :
             pc'[q] = pc[q] /\ cur'[q] = cur[q] /\ mQueue'[q] = mQueue[q]
    BY <1>2, <1>4, MainApart DEF dispatchHandler
  <2>2. mailBox[p] = <<>> \o mQueue[p] /\ mailBox'[p] = <<cur'[p]>> \o mQueue'[p]
    BY <2>1 DEF mailBox, atWork, Working
  <2>3. mailBox[p] = mQueue[p]
    BY <2>1, <2>2, ConcatEmptySeq
  <2>4. <<Head(mQueue[p])>> \o Tail(mQueue[p]) = mQueue[p]
    BY <2>1, HeadAndTail
  <2>5. \A q \in Providers \ {p} : mailBox'[q] = mailBox[q]
    BY <2>1, BoxSame
  <2>6. mailBox'[p] = mailBox[p]
    BY <2>1, <2>2, <2>3, <2>4
  <2> QED BY <1>1, <2>5, <2>6, BoxesSame DEF MailSame
<1> QED BY <1>3, <1>4 DEF QueueStep

\* A handler that returns has served the head of its box.
LEMMA HandlerMaps ==
  ASSUME MailInv, NEW p \in Providers, HandlerStep(p)
  PROVE  Mail!Serve(p)
<1>1. /\ pc[p] \in Working /\ leaveHandler(p) /\ mQueue' = mQueue
      /\ UNCHANGED <<req, pdmCall, fresh, subscribed>>
  BY DEF HandlerStep, handleUnknown, handleRequests, inHandler, queueVars,
         pdmVars, Working
<1>2. /\ mailBox[p] # <<>> /\ Head(mailBox[p]) = cur[p]
      /\ mailBox' = [mailBox EXCEPT ![p] = Tail(@)]
  BY <1>1, WorkDone
<1>3. mailKnown' = mailKnown /\ mailOut' = mailOut
  BY <1>1, KnownSame, OutSame
<1>4. cur[p] \in Calls
  BY <1>1 DEF MailInv, HoldersKnown
<1>5. \E n \in 0..2 : mailAnswered' = mailAnswered \o [i \in 1..n |-> cur[p]]
  <2> DEFINE r == [call |-> cur[p], kind |-> "answer", sections |-> <<>>]
  <2>1. r \in ReplyType /\ r.call = cur[p]
    BY <1>4 DEF ReplyType, ReplyKinds, SectionLists
  <2>2. \E n \in 0..2 : sent' = sent \o [i \in 1..n |-> r]
    <3>1. CASE handleUnknown(p)
      <4>1. sent' = sent /\ sent \in Seq(ReplyType)
        BY <3>1 DEF handleUnknown, MailInv, IInv, TypeOK
      <4>2. sent \o <<>> = sent
        BY <4>1, ConcatEmptySeq
      <4>3. [i \in 1..0 |-> r] = <<>>
        OBVIOUS
      <4> QED BY <4>1, <4>2, <4>3
    <3>2. CASE handleRequests(p)
      <4>1. p \in {"INTERNAL", "USB", "GDRIVE", "NETWORK"}
        BY DEF Providers
      <4>2. answersOf(p, req[cur[p]]) \subseteq 0..2
        BY <4>1 DEF answersOf, internalAnswers, usbAnswers, gdriveAnswers,
                    networkAnswers
      <4> QED BY <3>2, <4>2 DEF handleRequests
    <3> QED BY <3>1, <3>2 DEF HandlerStep
  <2> HIDE DEF r
  <2>3. PICK n \in 0..2 : sent' = sent \o [i \in 1..n |-> r]
    BY <2>2
  <2>4. n \in Nat
    OBVIOUS
  <2>5. mailAnswered' = mailAnswered \o [i \in 1..n |-> cur[p]]
    BY <1>4, <2>1, <2>3, <2>4, SomeAnswers
  <2> QED BY <2>5
<1> QED BY <1>2, <1>3, <1>5 DEF Mail!Serve
\* The USB provider hands its request over to PDM.
LEMMA UsbMaps ==
  ASSUME MailInv, UsbStep
  PROVE  Mail!HandOut("USB")
<1>1. /\ "USB" \in Providers
      /\ pc["USB"] \in Working /\ leaveHandler("USB") /\ mQueue' = mQueue
      /\ req' = req /\ sent' = sent
  BY DEF UsbStep, getPropertiesMethod, ejectMethod, usbListStorages, inHandler,
         queueVars, Working, Providers
<1>2. /\ mailBox["USB"] # <<>> /\ Head(mailBox["USB"]) = cur["USB"]
      /\ mailBox' = [mailBox EXCEPT !["USB"] = Tail(@)]
  BY <1>1, WorkDone
<1>3. cur["USB"] \in Calls
  BY <1>1 DEF MailInv, HoldersKnown
<1>4. mailOut' = mailOut \cup {cur["USB"]}
  <2>1. /\ pdmCall \in [Calls -> {"none", "writable", "space", "eject", "lost"}]
        /\ fresh \in [Calls -> Nat]
    BY DEF MailInv, IInv, TypeOK
  <2>2. \/ /\ \/ pdmCall' = [pdmCall EXCEPT ![cur["USB"]] = "writable"]
              \/ pdmCall' = [pdmCall EXCEPT ![cur["USB"]] = "eject"]
           /\ UNCHANGED <<fresh, subscribed>>
        \/ /\ fresh' = [fresh EXCEPT ![cur["USB"]] = @ + 1]
           /\ UNCHANGED <<pdmCall, subscribed>>
    BY DEF UsbStep, getPropertiesMethod, ejectMethod, usbListStorages
  <2> QED BY <1>3, <2>1, <2>2 DEF mailOut
<1> QED BY <1>1, <1>2, <1>4, KnownSame, AnsweredSame DEF Mail!HandOut

\* A step of one thread that stays at work, or stays away from it.
LEMMA StayMaps ==
  ASSUME MailInv, NEW t \in Threads, NEW s \in ThreadStates,
         pc' = [pc EXCEPT ![t] = s], s \in Working <=> pc[t] \in Working,
         UNCHANGED <<req, mQueue, cur, sent, pdmCall, fresh, subscribed>>
  PROVE  MailSame
<1>1. \A p \in Providers : pc[p] \in Working <=> pc'[p] \in Working
  BY MainApart DEF MailInv, IInv, TypeOK
<1>2. mailBox' = mailBox
  BY <1>1, BoxSame, BoxesSame
<1> QED BY <1>2, KnownSame, AnsweredSame, OutSame DEF MailSame

LEMMA StageMaps ==
  ASSUME MailInv, StageStep \/ scanHangs
  PROVE  MailSame
<1>1. PICK p \in Threads, s \in {"replying", "hung"} :
        /\ pc[p] = "running" /\ pc' = [pc EXCEPT ![p] = s]
        /\ UNCHANGED <<req, mQueue, cur, sent, pdmCall, fresh, subscribed>>
  <2>1. {"INTERNAL", "GDRIVE", "NETWORK"} \subseteq Threads
    BY DEF Threads, Providers
  <2>2. CASE internalListStorages
    BY <2>1, <2>2 DEF internalListStorages, listStoragesStage, inHandler,
                      queueVars, pdmVars
  <2>3. CASE gdriveListStorages
    BY <2>1, <2>3 DEF gdriveListStorages, listStoragesStage, inHandler,
                      queueVars, pdmVars
  <2>4. CASE networkListStorages
    BY <2>1, <2>4 DEF networkListStorages, listStoragesStage, inHandler,
                      queueVars, pdmVars
  <2>5. CASE scanHangs
    BY <2>1, <2>5 DEF scanHangs, inHandler, queueVars, pdmVars
  <2> QED BY <2>2, <2>3, <2>4, <2>5 DEF StageStep
<1>2. s \in ThreadStates /\ s \in Working /\ pc[p] \in Working
  BY <1>1 DEF ThreadStates, Working
<1> QED BY <1>1, <1>2, StayMaps

\* PDM's answers: the second question and the device list are invisible, a
\* last answer is a report, and one that cannot be read is forgotten.
LEMMA PdmMaps ==
  ASSUME MailInv, NEW c \in Calls, PdmStep(c)
  PROVE  MailSame \/ Mail!ReportedAnswer(c) \/ Mail!Forget(c)
<1>1. /\ pdmCall \in [Calls -> {"none", "writable", "space", "eject", "lost"}]
      /\ fresh \in [Calls -> Nat] /\ subscribed \in [Calls -> BOOLEAN]
      /\ pc \in [Threads -> ThreadStates]
      /\ cur \in [Threads -> Calls \cup {None}]
  BY DEF MailInv, IInv, TypeOK
<1>2. mailKnown' = mailKnown /\ mailBox' = mailBox
  <2>1. /\ req' = req /\ mQueue' = mQueue
        /\ \A p \in Providers : pc'[p] = pc[p] /\ cur'[p] = cur[p]
    BY <1>1, MainApart
       DEF PdmStep, onGetPropertiesReply, onReply, onListStoragesMethodReply,
           unparsableAnswer, queueVars
  <2> QED BY <2>1, KnownSame, BoxSame, BoxesSame
<1>3. CASE onGetPropertiesReply(c) \/ onListStoragesMethodReply(c)
  <2>1. mailOut' = mailOut
    BY <1>1, <1>3 DEF onGetPropertiesReply, onListStoragesMethodReply, mailOut
  <2>2. mailAnswered' = mailAnswered
    BY <1>3, AnsweredSame DEF onGetPropertiesReply, onListStoragesMethodReply
  <2> QED BY <1>2, <2>1, <2>2 DEF MailSame
<1>4. CASE onReply(c)
  <2>1. postToClient(c, "answer", <<>>)
    BY <1>4 DEF onReply
  <2>2. "answer" \in ReplyKinds /\ <<>> \in SectionLists
    BY DEF ReplyKinds, SectionLists
  <2>3. mailAnswered' = Append(mailAnswered, c)
    BY <2>1, <2>2, OneAnswer
  <2>4. c \in mailOut /\ mailOut' \in {mailOut, mailOut \ {c}}
    BY <1>1, <1>4 DEF onReply, mailOut
  <2> QED BY <1>2, <2>3, <2>4 DEF Mail!ReportedAnswer
<1>5. CASE unparsableAnswer(c)
  <2>1. mailAnswered' = mailAnswered
    BY <1>5, AnsweredSame DEF unparsableAnswer
  <2>2. \/ mailOut' = mailOut
        \/ c \in mailOut /\ mailOut' = mailOut \ {c}
    BY <1>1, <1>5 DEF unparsableAnswer, mailOut
  <2> QED BY <1>2, <2>1, <2>2 DEF MailSame, Mail!Forget
<1> QED BY <1>3, <1>4, <1>5 DEF PdmStep
LEMMA NotifyMaps ==
  ASSUME MailInv, NEW t \in Threads, notify_one(t)
  PROVE  MailSame
<1>1. /\ pc \in [Threads -> ThreadStates] /\ cur \in [Threads -> Calls \cup {None}]
      /\ pc[t] = "notifying" /\ cur' = [cur EXCEPT ![t] = None]
      /\ \A s \in Threads : \/ pc'[s] = pc[s]
                            \/ pc[s] \in {"notifying", "blocked"} /\ pc'[s] = "ready"
      /\ UNCHANGED <<req, mQueue, sent, pdmCall, fresh, subscribed>>
  BY DEF notify_one, pdmVars, MailInv, IInv, TypeOK
<1>2. ASSUME NEW p \in Providers PROVE mailBox'[p] = mailBox[p]
  <2>1. pc[p] \in Working <=> pc'[p] \in Working
    BY <1>1, MainApart DEF Working
  <2>2. pc[p] \in Working => cur'[p] = cur[p]
    BY <1>1, MainApart DEF Working
  <2>3. atWork(p)' = atWork(p)
    BY <2>1, <2>2 DEF atWork
  <2> QED BY <1>1, <2>3 DEF mailBox
<1> QED BY <1>1, <1>2, BoxesSame, KnownSame, AnsweredSame, OutSame DEF MailSame

\* The next request of a listing: it moves from the head of one box to the
\* end of another, or comes back from PDM.
LEMMA BuildMaps ==
  ASSUME MailInv, NEW t \in Threads, buildNextRequest(t)
  PROVE  \E q \in Providers : \/ \E p \in Providers : Mail!PassOn(p, q)
                              \/ \E c \in Calls : Mail!Report(c, q)
<1>1. /\ pc[t] = "building" /\ pc[t] \in Working /\ cur' = cur
      /\ addRequest(t, getStorageDeviceType(params[cur[t]].storageType), cur[t])
      /\ UNCHANGED <<req, sent, pdmCall, fresh, subscribed>>
  BY DEF buildNextRequest, pdmVars, Working
<1>2. PICK c \in Calls, q \in Providers : c = cur[t] /\ addRequest(t, q, c)
  <2>1. cur[t] \in Listings
    BY <1>1 DEF MailInv, IInv, ThreadsAdmitted
  <2> QED BY <1>1, <2>1, StageIsProvider DEF Listings, Admitted
<1>3. /\ pc[t] = "building" /\ pc[t] \in Working
      /\ addRequest(t, q, c) /\ cur' = cur
      /\ UNCHANGED <<req, sent, pdmCall, fresh, subscribed>>
  BY <1>1, <1>2
<1>4. /\ mailKnown' = mailKnown /\ mailOut' = mailOut
      /\ mailAnswered' = mailAnswered
  BY <1>3, KnownSame, OutSame, AnsweredSame
<1>5. CASE t = Main
  <2>1. mailBox' = [mailBox EXCEPT ![q] = Append(@, c)]
    BY <1>3, <1>2, <1>5, PushedToBox
  <2>2. c \in mailOut
    BY <1>3, <1>2, <1>5 DEF MailInv, HoldersKnown, mailOut
  <2> QED BY <1>2, <1>4, <2>1, <2>2 DEF Mail!Report
<1>6. CASE t \in Providers
  <2>1. /\ pc' = [pc EXCEPT ![t] = "notifying"]
        /\ mQueue' = [mQueue EXCEPT ![q] = Append(@, c)]
        /\ pc \in [Threads -> ThreadStates] /\ mQueue \in [Providers -> Seq(Calls)]
    BY <1>3 DEF addRequest, MailInv, IInv, TypeOK
  <2>2. mailBox[t] = <<c>> \o mQueue[t] /\ mQueue[t] \in Seq(Calls)
    BY <1>3, <1>2, <1>6, <2>1 DEF mailBox, atWork
  <2>3. mailBox[t] # <<>> /\ Head(mailBox[t]) = c /\ Tail(mailBox[t]) = mQueue[t]
    BY <1>2, <2>2, FrontOfSeq
  <2>4. mQueue'[t] \in Seq(Calls)
    BY <1>2, <1>6, <2>1, AppendProperties
  <2>5. mailBox'[t] = mQueue'[t]
    <3>1. mailBox'[t] = <<>> \o mQueue'[t]
      BY <1>6, <2>1 DEF mailBox, atWork, Working
    <3> QED BY <2>4, <3>1, ConcatEmptySeq
  <2>6. \A p \in Providers \ {t, q} : mailBox'[p] = mailBox[p]
    BY <1>3, <2>1, MainApart, BoxSame
  <2>7. q # t => mailBox'[q] = Append(mailBox[q], c)
    <3> SUFFICES ASSUME q # t PROVE mailBox'[q] = Append(mailBox[q], c)
      OBVIOUS
    <3>1. atWork(q)' = atWork(q)
      BY <1>3, <2>1 DEF atWork
    <3>2. mailBox'[q] = atWork(q) \o Append(mQueue[q], c)
      BY <1>2, <2>1, <3>1 DEF mailBox
    <3>3. /\ atWork(q) \in Seq(Calls) /\ mQueue[q] \in Seq(Calls)
          /\ mailBox[q] = atWork(q) \o mQueue[q]
      BY <1>2, BoxType
    <3>4. atWork(q) \o Append(mQueue[q], c) = Append(atWork(q) \o mQueue[q], c)
      BY <1>2, <3>3, AppendToRest
    <3> QED BY <3>2, <3>3, <3>4
  <2> DEFINE taken == [mailBox EXCEPT ![t] = Tail(@)]
  <2>8. taken \in [Providers -> Seq(Calls)] /\ taken[t] = mQueue[t]
        /\ \A p \in Providers \ {t} : taken[p] = mailBox[p]
    <3>1. mailBox = [p \in Providers |-> mailBox[p]]
      BY DEF mailBox
    <3>2. \A p \in Providers : mailBox[p] \in Seq(Calls)
      BY BoxType, ConcatProperties
    <3> QED BY <1>6, <2>2, <2>3, <3>1, <3>2
  <2> HIDE DEF taken
  <2>9. mailBox' = [p \in Providers |-> IF p = q THEN Append(taken[q], c) ELSE taken[p]]
    <3>1. \A p \in Providers : mailBox'[p] = IF p = q THEN Append(taken[q], c)
                                            ELSE taken[p]
      BY <1>2, <1>6, <2>1, <2>5, <2>6, <2>7, <2>8
    <3>2. mailBox' = [p \in Providers |-> mailBox'[p]]
      BY DEF mailBox
    <3> QED BY <3>1, <3>2
  <2>10. mailBox' = [taken EXCEPT ![q] = Append(@, Head(mailBox[t]))]
    BY <1>2, <2>3, <2>8, <2>9
  <2> QED BY <1>2, <1>4, <1>6, <2>3, <2>10 DEF Mail!PassOn, taken
<1> QED BY <1>5, <1>6 DEF Threads

\* The last stage answers: from the head of the network provider's box, or
\* from the main loop.
LEMMA ListAnswerMaps ==
  ASSUME MailInv, NEW t \in Threads, answerListOfStorages(t)
  PROVE  \/ \E p \in Providers : Mail!Serve(p)
         \/ \E c \in Calls : Mail!ReportedAnswer(c)
<1> DEFINE c == cur[t]
           sections == Append(params[c].listStorageResponse, params[c].response)
<1>1. /\ pc[t] = "replying" /\ pc[t] \in Working
      /\ postToClient(c, "answer", sections)
      /\ leaveHandler(t)
      /\ UNCHANGED <<req, mQueue, pdmCall, fresh, subscribed>>
  BY DEF answerListOfStorages, leaveHandler, queueVars, pdmVars, Working
<1>2. c \in Calls
  <2>1. c \in Listings
    BY <1>1 DEF MailInv, IInv, ThreadsAdmitted
  <2> QED BY <2>1, AdmittedAreCalls
<1>3. sections \in SectionLists /\ "answer" \in ReplyKinds
  <2>1. params[c] \in ParamsType
    BY <1>2 DEF MailInv, IInv, TypeOK
  <2> QED BY <2>1, AddSection DEF ParamsType, ReplyKinds
<1> HIDE DEF sections
<1>4. mailAnswered' = Append(mailAnswered, c)
  BY <1>1, <1>2, <1>3, OneAnswer
<1>5. mailKnown' = mailKnown /\ mailOut' = mailOut
  BY <1>1, KnownSame, OutSame
<1>6. CASE t = Main
  <2>1. c \in mailOut
    BY <1>1, <1>2, <1>6 DEF MailInv, HoldersKnown, mailOut
  <2>2. \A p \in Providers : mQueue'[p] = mQueue[p] /\ cur'[p] = cur[p] /\ pc'[p] = pc[p]
    BY <1>1, <1>6, MainApart DEF leaveHandler, MailInv, IInv, TypeOK
  <2>3. mailBox' = mailBox
    BY <2>2, BoxSame, BoxesSame
  <2> QED BY <1>2, <1>4, <1>5, <2>1, <2>3 DEF Mail!ReportedAnswer
<1>7. CASE t \in Providers
  <2>1. /\ mailBox[t] # <<>> /\ Head(mailBox[t]) = c
        /\ mailBox' = [mailBox EXCEPT ![t] = Tail(@)]
    BY <1>1, <1>7, WorkDone
  <2>2. mailAnswered \in Seq(Calls)
    <3>1. sent \in Seq(ReplyType)
      BY DEF MailInv, IInv, TypeOK
    <3>2. \A i \in 1..Len(sent) : sent[i].call \in Calls
      <4>1. \A r \in ReplyType : r.call \in Calls
        BY DEF ReplyType
      <4> QED BY <3>1, <4>1
    <3> QED BY <3>1, <3>2 DEF mailAnswered
  <2>3. Append(mailAnswered, c) = mailAnswered \o <<c>>
    BY <1>2, <2>2, AppendIsConcat
  <2>4. <<c>> = [i \in 1..1 |-> c]
    OBVIOUS
  <2>5. \E n \in 0..2 : mailAnswered' = mailAnswered \o [i \in 1..n |-> c]
    BY <1>4, <2>3, <2>4
  <2> QED BY <1>5, <1>7, <2>1, <2>5 DEF Mail!Serve
<1> QED BY <1>6, <1>7 DEF Threads
-----------------------------------------------------------------------------
(* The invariant, and the theorem.                                         *)

\* A step of other threads, or one that keeps its call, keeps HoldersKnown.
LEMMA HoldersKept ==
  ASSUME MailInv,
         \A t \in Threads : \/ pc'[t] \notin Working
                            \/ pc[t] \in Working /\ cur'[t] = cur[t],
         \A c \in Calls : subscribed[c] => subscribed'[c],
         pc'[Main] \in {"replying", "building"} => pc[Main] \in {"replying", "building"}
  PROVE  HoldersKnown'
<1>1. {"replying", "building"} \subseteq Working
  BY DEF Working
<1>2. \A p \in Providers : pc'[p] \in Working => cur'[p] \in Calls
  BY MainApart DEF MailInv, HoldersKnown
<1>3. pc'[Main] \in {"replying", "building"} =>
        cur'[Main] \in Calls /\ subscribed'[cur'[Main]]
  BY <1>1, MainApart DEF MailInv, HoldersKnown
<1> QED BY <1>2, <1>3 DEF HoldersKnown

\* A thread that has done gives its call up.
LEMMA HoldersLeave ==
  ASSUME MailInv, NEW t \in Threads, pc'[t] = "ready",
         cur' = [cur EXCEPT ![t] = None],
         \A s \in Threads : pc'[s] = pc[s] \/ pc'[s] = "ready",
         subscribed' = subscribed
  PROVE  HoldersKnown'
<1>1. cur \in [Threads -> Calls \cup {None}]
  BY DEF MailInv, IInv, TypeOK
<1>2. "ready" \notin Working
  BY DEF Working
<1>3. ASSUME NEW s \in Threads, pc'[s] \in Working
      PROVE  pc[s] \in Working /\ cur'[s] = cur[s]
  <2>1. s # t /\ pc'[s] = pc[s]
    BY <1>2, <1>3
  <2> QED BY <1>1, <1>3, <2>1
<1>4. pc'[Main] \in {"replying", "building"} => pc[Main] \in {"replying", "building"}
  BY MainApart
<1>5. \A s \in Threads : \/ pc'[s] \notin Working
                         \/ pc[s] \in Working /\ cur'[s] = cur[s]
  BY <1>3
<1>6. \A c \in Calls : subscribed[c] => subscribed'[c]
  OBVIOUS
<1> QED BY <1>4, <1>5, <1>6, HoldersKept

LEMMA HoldersPreserved ==
  ASSUME MailInv, [Next]_vars
  PROVE  HoldersKnown'
<1>0. /\ pc \in [Threads -> ThreadStates] /\ cur \in [Threads -> Calls \cup {None}]
      /\ subscribed \in [Calls -> BOOLEAN]
      /\ mQueue \in [Providers -> Seq(Calls)]
  BY DEF MailInv, IInv, TypeOK
<1>1. ASSUME NEW c \in Calls, LunaStep(c) PROVE HoldersKnown'
  <2>1. /\ \/ pc' = pc
           \/ pc' = [pc EXCEPT ![Main] = "notifying"]
        /\ UNCHANGED <<cur, subscribed>>
    BY <1>1 DEF LunaStep, handleExtraCommand, list, getProperties, copy, move,
                remove, eject, rename, deviceMethod, listStorageProviders,
                receive, addRequest, pdmVars
  <2> QED BY <1>0, <2>1, HoldersKept, MainApart DEF Working
<1>2. ASSUME NEW c \in Calls, PdmStep(c) PROVE HoldersKnown'
  <2>1. CASE onGetPropertiesReply(c) \/ onReply(c) \/ unparsableAnswer(c)
    <3>1. /\ UNCHANGED <<pc, cur>>
          /\ \/ subscribed' = subscribed
             \/ subscribed' = [subscribed EXCEPT ![c] = TRUE]
      BY <2>1 DEF onGetPropertiesReply, onReply, unparsableAnswer
    <3> QED BY <1>0, <3>1, HoldersKept DEF Working
  <2>2. CASE onListStoragesMethodReply(c)
    <3>1. /\ pc' = [pc EXCEPT ![Main] = "replying"]
          /\ cur' = [cur EXCEPT ![Main] = c]
          /\ subscribed'[c]
      BY <1>0, <2>2 DEF onListStoragesMethodReply
    <3> QED BY <1>0, <3>1, MainApart DEF MailInv, HoldersKnown
  <2> QED BY <1>2, <2>1, <2>2 DEF PdmStep
<1>3. ASSUME NEW p \in Providers, QueueStep(p) PROVE HoldersKnown'
  <2>1. CASE waitForRequest(p) \/ spuriousWakeup(p)
    <3>1. /\ \/ pc' = [pc EXCEPT ![p] = "blocked"]
             \/ pc' = [pc EXCEPT ![p] = "ready"]
          /\ UNCHANGED <<cur, subscribed>>
      BY <2>1 DEF waitForRequest, spuriousWakeup, pdmVars
    <3> QED BY <1>0, <3>1, HoldersKept, MainApart DEF Working
  <2>2. CASE dispatchHandler(p)
    <3>1. /\ pc' = [pc EXCEPT ![p] = "running"]
          /\ cur' = [cur EXCEPT ![p] = Head(mQueue[p])]
          /\ mQueue[p] # <<>> /\ mQueue[p] \in Seq(Calls)
          /\ UNCHANGED subscribed
      BY <1>0, <2>2 DEF dispatchHandler, pdmVars
    <3>2. Head(mQueue[p]) \in Calls
      BY <3>1, HeadTailProperties
    <3> QED BY <1>0, <3>1, <3>2, MainApart DEF MailInv, HoldersKnown
  <2> QED BY <1>3, <2>1, <2>2 DEF QueueStep
<1>4. ASSUME NEW p \in Providers, leaveHandler(p), UNCHANGED subscribed
      PROVE  HoldersKnown'
  BY <1>0, <1>4, HoldersLeave, MainApart DEF leaveHandler
<1>5. ASSUME NEW p \in Providers, HandlerStep(p) PROVE HoldersKnown'
  BY <1>4, <1>5 DEF HandlerStep, handleUnknown, handleRequests, pdmVars
<1>6. CASE UsbStep
  <2>1. "USB" \in Providers
    BY DEF Providers
  <2> QED BY <1>4, <1>6, <2>1 DEF UsbStep, getPropertiesMethod, ejectMethod,
                                  usbListStorages
<1>7. ASSUME NEW t \in Threads, CallbackStep(t) PROVE HoldersKnown'
  <2>1. CASE onListOfStoragesReply(t)
    <3>1. /\ pc[t] = "replying" /\ pc' = [pc EXCEPT ![t] = "building"]
          /\ UNCHANGED <<cur, subscribed>>
      BY <2>1 DEF onListOfStoragesReply, pdmVars
    <3> QED BY <1>0, <3>1, HoldersKept DEF Working
  <2>2. CASE buildNextRequest(t)
    <3>1. /\ pc' = [pc EXCEPT ![t] = "notifying"]
          /\ UNCHANGED <<cur, subscribed>>
      BY <2>2 DEF buildNextRequest, addRequest, pdmVars
    <3> QED BY <1>0, <3>1, HoldersKept DEF Working
  <2>3. CASE answerListOfStorages(t)
    <3>1. /\ pc' = [pc EXCEPT ![t] = "ready"] /\ cur' = [cur EXCEPT ![t] = None]
          /\ UNCHANGED subscribed
      BY <2>3 DEF answerListOfStorages, pdmVars
    <3> QED BY <1>0, <3>1, HoldersLeave
  <2>4. CASE notify_one(t)
    <3>1. /\ pc[t] = "notifying" /\ cur' = [cur EXCEPT ![t] = None]
          /\ \A s \in Threads : \/ pc'[s] = pc[s]
                                \/ pc'[s] = "ready"
          /\ pc'[t] = "ready" /\ UNCHANGED subscribed
      BY <1>0, <2>4 DEF notify_one, pdmVars
    <3> QED BY <3>1, HoldersLeave
  <2> QED BY <1>7, <2>1, <2>2, <2>3, <2>4 DEF CallbackStep
<1>8. CASE StageStep \/ scanHangs
  <2>1. PICK p \in Providers, s \in {"replying", "hung"} :
          /\ pc[p] = "running" /\ pc' = [pc EXCEPT ![p] = s]
          /\ UNCHANGED <<cur, subscribed>>
    <3>1. {"INTERNAL", "GDRIVE", "NETWORK"} \subseteq Providers
      BY DEF Providers
    <3> QED BY <1>8, <3>1
            DEF StageStep, internalListStorages, gdriveListStorages,
                networkListStorages, listStoragesStage, scanHangs, inHandler,
                pdmVars
  <2> QED BY <1>0, <2>1, HoldersKept, MainApart DEF Working
<1>9. CASE UNCHANGED vars
  BY <1>9, HoldersKept DEF vars
<1> QED
  BY <1>1, <1>2, <1>3, <1>5, <1>6, <1>7, <1>8, <1>9 DEF Next

LEMMA NextMaps ==
  ASSUME MailInv, [Next]_vars
  PROVE  [Mail!Next]_(Mail!mail)
<1> USE DEF Mail!Next, Mail!mail
<1>1. ASSUME NEW c \in Calls, LunaStep(c) PROVE Mail!Next
  BY <1>1, LunaMaps
<1>2. ASSUME NEW c \in Calls, PdmStep(c) PROVE [Mail!Next]_(Mail!mail)
  BY <1>2, PdmMaps DEF MailSame
<1>3. ASSUME NEW p \in Providers, QueueStep(p) PROVE UNCHANGED Mail!mail
  BY <1>3, QueueMaps DEF MailSame
<1>4. ASSUME NEW p \in Providers, HandlerStep(p) PROVE Mail!Next
  BY <1>4, HandlerMaps
<1>5. ASSUME NEW t \in Threads, CallbackStep(t) PROVE [Mail!Next]_(Mail!mail)
  <2>1. CASE onListOfStoragesReply(t)
    <3>1. /\ pc[t] = "replying" /\ pc' = [pc EXCEPT ![t] = "building"]
          /\ UNCHANGED <<req, mQueue, cur, sent, pdmCall, fresh, subscribed>>
      BY <2>1 DEF onListOfStoragesReply, queueVars, pdmVars
    <3>2. MailSame
      BY <3>1, StayMaps DEF ThreadStates, Working
    <3> QED BY <3>2 DEF MailSame
  <2>2. CASE buildNextRequest(t)
    BY <2>2, BuildMaps
  <2>3. CASE answerListOfStorages(t)
    BY <2>3, ListAnswerMaps
  <2>4. CASE notify_one(t)
    BY <2>4, NotifyMaps DEF MailSame
  <2> QED BY <1>5, <2>1, <2>2, <2>3, <2>4 DEF CallbackStep
<1>6. CASE UsbStep
  BY <1>6, UsbMaps
<1>7. CASE StageStep \/ scanHangs
  BY <1>7, StageMaps DEF MailSame
<1>8. CASE UNCHANGED vars
  <2>1. MailSame
    BY <1>8, KnownSame, AnsweredSame, OutSame, BoxSame, BoxesSame
       DEF vars, MailSame
  <2> QED BY <2>1 DEF MailSame
<1> QED
  BY <1>1, <1>2, <1>3, <1>4, <1>5, <1>6, <1>7, <1>8 DEF Next

LEMMA InitMaps == Init => HoldersKnown /\ Mail!Init
<1> SUFFICES ASSUME Init PROVE HoldersKnown /\ Mail!Init
  OBVIOUS
<1>1. HoldersKnown
  BY MainApart DEF Init, HoldersKnown, Working
<1>2. mailKnown = {} /\ mailOut = {}
  BY DEF Init, mailKnown, mailOut
<1>3. mailAnswered = <<>>
  BY DEF Init, mailAnswered
<1>4. mailBox = [p \in Providers |-> <<>>]
  <2>1. ASSUME NEW p \in Providers PROVE atWork(p) \o mQueue[p] = <<>>
    <3>1. atWork(p) = <<>> /\ mQueue[p] = <<>>
      BY MainApart DEF Init, atWork, Working
    <3> QED BY <3>1, ConcatEmptySeq, EmptySeq
  <2> QED BY <2>1 DEF mailBox
<1> QED BY <1>1, <1>2, <1>3, <1>4 DEF Mail!Init

\* The threads, queues and callbacks implement the mailboxes: for any number
\* of clients and requests, each provider works on its oldest request only,
\* and a request leaves its place by being answered, passed on or handed to
\* PDM, and in no other way.
THEOREM ImplementsMailboxes == Spec => ServesInOrder
<1>1. Init => HoldersKnown /\ Mail!Init
  BY InitMaps
<1>2. IInv /\ HoldersKnown /\ [Next]_vars => HoldersKnown'
  BY HoldersPreserved DEF MailInv
<1>3. IInv /\ HoldersKnown /\ [Next]_vars => [Mail!Next]_(Mail!mail)
  BY NextMaps DEF MailInv
<1> QED BY <1>1, <1>2, <1>3, Admission, PTL DEF Spec, ServesInOrder, Mail!Spec

-----------------------------------------------------------------------------
(* Counting.                                                               *)

\* Where a message is counted: its places in the queues q, the threads that
\* handle it, its answers.
placesIn(q, c) == {x \in Providers \X Nat : /\ x[2] \in DOMAIN q[x[1]]
                                            /\ q[x[1]][x[2]] = c}
handlersIn(cu, at, c) == {t \in Threads : cu[t] = c /\ at[t] # "notifying"}
answersIn(s, c) == {i \in DOMAIN s : s[i].call = c}

\* Does a thread handle it?  One or zero.
handles(cu, at, t, c) == IF cu[t] = c /\ at[t] # "notifying" THEN 1 ELSE 0

pushed(q, p, d) == [q EXCEPT ![p] = Append(@, d)]

LEMMA ProvidersFinite == IsFiniteSet(Providers)
<1>1. IsFiniteSet({"INTERNAL"})
  BY FS_Singleton
<1>2. IsFiniteSet({"INTERNAL"} \cup {"USB"})
  BY <1>1, FS_AddElement
<1>3. IsFiniteSet({"INTERNAL", "USB"} \cup {"GDRIVE"})
  <2>1. {"INTERNAL", "USB"} = {"INTERNAL"} \cup {"USB"}
    OBVIOUS
  <2> QED BY <1>2, <2>1, FS_AddElement
<1>4. IsFiniteSet({"INTERNAL", "USB", "GDRIVE"} \cup {"NETWORK"})
  <2>1. {"INTERNAL", "USB", "GDRIVE"} = {"INTERNAL", "USB"} \cup {"GDRIVE"}
    OBVIOUS
  <2> QED BY <1>3, <2>1, FS_AddElement
<1>5. Providers = {"INTERNAL", "USB", "GDRIVE"} \cup {"NETWORK"}
  BY DEF Providers
<1> QED BY <1>4, <1>5

LEMMA ThreadsFinite == IsFiniteSet(Threads)
BY ProvidersFinite, FS_AddElement DEF Threads

LEMMA QueuedFinite ==
  ASSUME NEW q \in [Providers -> Seq(Calls)], NEW c
  PROVE  IsFiniteSet(placesIn(q, c)) /\ Cardinality(placesIn(q, c)) \in Nat
<1> DEFINE longest == Len(q["INTERNAL"]) + Len(q["USB"])
                        + Len(q["GDRIVE"]) + Len(q["NETWORK"])
<1>1. \A p \in Providers : /\ q[p] \in Seq(Calls)
                           /\ Len(q[p]) \in Nat
                           /\ DOMAIN q[p] = 1..Len(q[p])
  OBVIOUS
<1>2. longest \in Nat /\ \A p \in Providers : Len(q[p]) <= longest
  <2>1. Providers = {"INTERNAL", "USB", "GDRIVE", "NETWORK"}
    BY DEF Providers
  <2>2. /\ Len(q["INTERNAL"]) \in Nat /\ Len(q["USB"]) \in Nat
        /\ Len(q["GDRIVE"]) \in Nat /\ Len(q["NETWORK"]) \in Nat
    BY <1>1, <2>1
  <2>3. \A a, b, d, e \in Nat : /\ a + b + d + e \in Nat
                                /\ a <= a + b + d + e /\ b <= a + b + d + e
                                /\ d <= a + b + d + e /\ e <= a + b + d + e
    OBVIOUS
  <2>4. longest \in Nat
    BY <2>2, <2>3
  <2>5. /\ Len(q["INTERNAL"]) <= longest /\ Len(q["USB"]) <= longest
        /\ Len(q["GDRIVE"]) <= longest /\ Len(q["NETWORK"]) <= longest
    BY <2>2, <2>3
  <2> HIDE DEF longest
  <2> QED BY <2>1, <2>4, <2>5
<1> HIDE DEF longest
<1>3. IsFiniteSet(Providers \X (1..longest))
  <2>1. IsFiniteSet(1..longest)
    BY <1>2, FS_Interval
  <2> QED BY <2>1, ProvidersFinite, FS_Product
<1>4. placesIn(q, c) \in SUBSET (Providers \X (1..longest))
  <2> SUFFICES ASSUME NEW p \in Providers, NEW i \in DOMAIN q[p]
               PROVE  i \in 1..longest
    BY DEF placesIn
  <2> QED BY <1>1, <1>2
<1>5. IsFiniteSet(placesIn(q, c))
  BY <1>3, <1>4, FS_Subset
<1> QED BY <1>5, FS_CardinalityType

LEMMA QueuedCount ==
  ASSUME NEW q \in [Providers -> Seq(Calls)], NEW c
  PROVE  placesIn(q, c)
           = UNION {{<<p, i>> : i \in {j \in DOMAIN q[p] : q[p][j] = c}}
                      : p \in Providers}
<1>1. \A p \in Providers : DOMAIN q[p] \subseteq Nat
  OBVIOUS
<1> DEFINE U == UNION {{<<p, i>> : i \in {j \in DOMAIN q[p] : q[p][j] = c}}
                             : p \in Providers}
<1>2. ASSUME NEW x \in placesIn(q, c) PROVE x \in U
  <2>1. PICK p \in Providers, i \in Nat : x = <<p, i>>
    BY DEF placesIn
  <2>2. i \in {j \in DOMAIN q[p] : q[p][j] = c}
    BY <2>1 DEF placesIn
  <2> QED BY <2>1, <2>2
<1>3. ASSUME NEW x \in U PROVE x \in placesIn(q, c)
  <2>1. PICK p \in Providers :
            x \in {<<p, i>> : i \in {j \in DOMAIN q[p] : q[p][j] = c}}
    OBVIOUS
  <2>2. PICK i \in DOMAIN q[p] : q[p][i] = c /\ x = <<p, i>>
    BY <2>1
  <2>3. i \in Nat
    BY <1>1
  <2> QED BY <2>2, <2>3 DEF placesIn
<1> QED BY <1>2, <1>3

LEMMA HandledFinite ==
  ASSUME NEW cu, NEW at, NEW c
  PROVE  /\ IsFiniteSet(handlersIn(cu, at, c))
         /\ Cardinality(handlersIn(cu, at, c)) \in Nat
<1>1. handlersIn(cu, at, c) \in SUBSET Threads
  BY DEF handlersIn
<1>2. IsFiniteSet(handlersIn(cu, at, c))
  BY <1>1, ThreadsFinite, FS_Subset
<1> QED BY <1>2, FS_CardinalityType

LEMMA AnswersFinite ==
  ASSUME NEW s \in Seq(ReplyType), NEW c
  PROVE  IsFiniteSet(answersIn(s, c)) /\ Cardinality(answersIn(s, c)) \in Nat
<1>1. Len(s) \in Nat /\ DOMAIN s = 1..Len(s)
  OBVIOUS
<1>2. answersIn(s, c) \in SUBSET (1..Len(s)) /\ IsFiniteSet(1..Len(s))
  BY <1>1, FS_Interval DEF answersIn
<1>3. IsFiniteSet(answersIn(s, c))
  BY <1>2, FS_Subset
<1> QED BY <1>3, FS_CardinalityType

\* One more place.
LEMMA QueuedPush ==
  ASSUME NEW q \in [Providers -> Seq(Calls)], NEW p \in Providers,
         NEW d \in Calls, NEW c
  PROVE  Cardinality(placesIn(pushed(q, p, d), c))
           = IF d = c THEN Cardinality(placesIn(q, c)) + 1
                      ELSE Cardinality(placesIn(q, c))
<1> DEFINE n == Len(q[p]) + 1
           r == pushed(q, p, d)
<1>1. /\ q[p] \in Seq(Calls) /\ Len(q[p]) \in Nat /\ DOMAIN q[p] = 1..Len(q[p])
      /\ n \in Nat /\ n \notin DOMAIN q[p]
  OBVIOUS
<1>2. /\ \A o \in Providers \ {p} : r[o] = q[o]
      /\ DOMAIN r[p] = DOMAIN q[p] \cup {n} /\ r[p][n] = d
      /\ \A i \in DOMAIN q[p] : r[p][i] = q[p][i]
  BY <1>1 DEF pushed
<1> HIDE DEF n, r
<1>3. <<p, n>> \notin placesIn(q, c)
  BY <1>1 DEF placesIn
<1>4. ASSUME d = c PROVE Cardinality(placesIn(r, c)) = Cardinality(placesIn(q, c)) + 1
  <2>1. placesIn(r, c) = placesIn(q, c) \cup {<<p, n>>}
    BY <1>1, <1>2, <1>4 DEF placesIn
  <2> QED BY <1>3, <2>1, QueuedFinite, FS_AddElement
<1>5. ASSUME d # c PROVE Cardinality(placesIn(r, c)) = Cardinality(placesIn(q, c))
  <2>1. placesIn(r, c) = placesIn(q, c)
    BY <1>1, <1>2, <1>5 DEF placesIn
  <2> QED BY <2>1
<1> QED BY <1>4, <1>5 DEF r

\* A one-to-one map between two sets, the second finite, makes them equally
\* large.
LEMMA SameSize ==
  ASSUME NEW S, IsFiniteSet(S), NEW T, NEW f \in [S -> T],
         \A x, y \in S : f[x] = f[y] => x = y,
         \A z \in T : \E x \in S : f[x] = z
  PROVE  Cardinality(T) = Cardinality(S)
<1>1. f \in Bijection(S, T)
  BY Fun_IsBij
<1>2. ExistsBijection(S, T)
  BY <1>1, Fun_ExistsBij
<1> QED BY <1>2, FS_Bijection

\* One place less.
LEMMA QueuedTake ==
  ASSUME NEW q \in [Providers -> Seq(Calls)], NEW p \in Providers,
         q[p] # <<>>, NEW c, NEW r, r = [q EXCEPT ![p] = Tail(@)]
  PROVE  /\ Head(q[p]) = c => Cardinality(placesIn(q, c)) = Cardinality(placesIn(r, c)) + 1
         /\ Head(q[p]) # c => Cardinality(placesIn(q, c)) = Cardinality(placesIn(r, c))
<1>1. /\ q[p] \in Seq(Calls) /\ Len(q[p]) \in Nat \ {0} /\ Head(q[p]) = q[p][1]
      /\ DOMAIN q[p] = 1..Len(q[p])
  BY EmptySeq
<1>2. /\ \A o \in Providers \ {p} : r[o] = q[o]
      /\ r[p] = Tail(q[p])
      /\ r \in [Providers -> Seq(Calls)]
  BY <1>1
<1>3. /\ DOMAIN r[p] = 1..(Len(q[p]) - 1)
      /\ \A i \in 1..(Len(q[p]) - 1) : r[p][i] = q[p][i + 1]
  BY <1>1, <1>2, HeadTailProperties
<1> DEFINE first == <<p, 1>>
           rest == placesIn(q, c) \ {first}
           f == [x \in placesIn(r, c) |->
                   IF x[1] = p THEN <<p, x[2] + 1>> ELSE x]
<1>4. \A x \in placesIn(r, c) : f[x] \in rest
  <2> SUFFICES ASSUME NEW x \in placesIn(r, c) PROVE f[x] \in rest
    OBVIOUS
  <2> PICK o \in Providers, i \in Nat : x = <<o, i>>
    BY DEF placesIn
  <2>1. CASE o = p
    <3>1. i \in 1..(Len(q[p]) - 1) /\ q[p][i + 1] = c /\ i + 1 \in DOMAIN q[p]
      BY <1>1, <1>3, <2>1 DEF placesIn
    <3>2. f[<<o, i>>] = <<p, i + 1>> /\ i + 1 \in Nat /\ i + 1 # 1
      BY <2>1, <3>1
    <3>3. <<p, i + 1>> \in placesIn(q, c)
      BY <3>1, <3>2 DEF placesIn
    <3> QED BY <3>2, <3>3
  <2>2. CASE o # p
    <3>1. f[<<o, i>>] = <<o, i>> /\ <<o, i>> # first
      BY <2>2
    <3>2. <<o, i>> \in placesIn(q, c)
      BY <1>2, <2>2 DEF placesIn
    <3> QED BY <3>1, <3>2
  <2> QED BY <2>1, <2>2
<1>5. f \in [placesIn(r, c) -> rest]
  BY <1>4
<1>6. ASSUME NEW x \in placesIn(r, c), NEW y \in placesIn(r, c), f[x] = f[y]
      PROVE  x = y
  <2>1. PICK o \in Providers, i \in Nat : x = <<o, i>>
    BY DEF placesIn
  <2>2. PICK w \in Providers, j \in Nat : y = <<w, j>>
    BY DEF placesIn
  <2> QED BY <1>6, <2>1, <2>2
<1>7. ASSUME NEW z \in rest PROVE \E x \in placesIn(r, c) : f[x] = z
  <2>1. PICK o \in Providers, i \in Nat : z = <<o, i>>
    BY DEF placesIn
  <2>2. /\ i \in DOMAIN q[o] /\ q[o][i] = c /\ z # first
    BY <1>7, <2>1 DEF placesIn
  <2>3. CASE o = p
    <3>1. i \in 2..Len(q[p])
      BY <1>1, <2>1, <2>2, <2>3
    <3>2. i - 1 \in 1..(Len(q[p]) - 1) /\ i - 1 \in Nat /\ (i - 1) + 1 = i
      BY <1>1, <3>1
    <3>3. <<p, i - 1>> \in placesIn(r, c)
      BY <1>3, <2>2, <2>3, <3>2 DEF placesIn
    <3>4. f[<<p, i - 1>>] = z
      BY <2>1, <2>3, <3>2, <3>3
    <3> QED BY <3>3, <3>4
  <2>4. CASE o # p
    <3>1. z \in placesIn(r, c)
      BY <1>2, <2>1, <2>2, <2>4 DEF placesIn
    <3>2. f[z] = z
      BY <2>1, <2>4, <3>1
    <3> QED BY <3>1, <3>2
  <2> QED BY <2>3, <2>4
<1> HIDE DEF f
<1>8. Cardinality(rest) = Cardinality(placesIn(r, c))
  BY <1>2, <1>5, <1>6, <1>7, QueuedFinite, SameSize, ZenonT(30)
<1>9. first \in placesIn(q, c) <=> Head(q[p]) = c
  BY <1>1 DEF placesIn
<1> HIDE DEF first
<1>10. /\ IsFiniteSet(placesIn(q, c)) /\ Cardinality(placesIn(q, c)) \in Nat
       /\ Cardinality(placesIn(r, c)) \in Nat
  BY <1>2, QueuedFinite
<1>11. Cardinality(rest) = IF first \in placesIn(q, c)
                           THEN Cardinality(placesIn(q, c)) - 1
                           ELSE Cardinality(placesIn(q, c))
  BY <1>10, FS_RemoveElement
<1> QED BY <1>8, <1>9, <1>10, <1>11

\* One thread changes what it does.
LEMMA HandledChange ==
  ASSUME NEW cu, NEW at, NEW du, NEW bt, NEW t \in Threads, NEW c,
         \A s \in Threads \ {t} : handles(du, bt, s, c) = handles(cu, at, s, c)
  PROVE  Cardinality(handlersIn(du, bt, c))
           = Cardinality(handlersIn(cu, at, c)) - handles(cu, at, t, c)
                                                + handles(du, bt, t, c)
<1> DEFINE A == handlersIn(cu, at, c)
           B == handlersIn(du, bt, c)
<1>1. IsFiniteSet(A) /\ IsFiniteSet(B) /\ Cardinality(A) \in Nat /\ Cardinality(B) \in Nat
  BY HandledFinite
<1>2. A \ {t} = B \ {t}
  <2>1. \A s \in Threads : /\ s \in A <=> handles(cu, at, s, c) = 1
                           /\ s \in B <=> handles(du, bt, s, c) = 1
    BY DEF handlersIn, handles
  <2>2. A \subseteq Threads /\ B \subseteq Threads
    BY DEF handlersIn
  <2> HIDE DEF A, B
  <2> QED BY <2>1, <2>2
<1>3. /\ handles(cu, at, t, c) = IF t \in A THEN 1 ELSE 0
      /\ handles(du, bt, t, c) = IF t \in B THEN 1 ELSE 0
  BY DEF handlersIn, handles
<1> HIDE DEF A, B
<1>4. /\ Cardinality(A \ {t}) = IF t \in A THEN Cardinality(A) - 1 ELSE Cardinality(A)
      /\ Cardinality(B \ {t}) = IF t \in B THEN Cardinality(B) - 1 ELSE Cardinality(B)
  BY <1>1, FS_RemoveElement
<1>5. Cardinality(B) = Cardinality(A) - (IF t \in A THEN 1 ELSE 0)
                                      + (IF t \in B THEN 1 ELSE 0)
  BY <1>1, <1>2, <1>4
<1> QED BY <1>3, <1>5 DEF A, B

\* One more answer.
LEMMA AnswersPost ==
  ASSUME NEW s \in Seq(ReplyType), NEW r \in ReplyType, NEW c
  PROVE  Cardinality(answersIn(Append(s, r), c))
           = Cardinality(answersIn(s, c)) + (IF r.call = c THEN 1 ELSE 0)
<1> DEFINE n == Len(s) + 1
           u == Append(s, r)
<1>1. /\ Len(s) \in Nat /\ DOMAIN s = 1..Len(s) /\ n \notin DOMAIN s
      /\ DOMAIN u = DOMAIN s \cup {n} /\ u[n] = r
      /\ \A i \in DOMAIN s : u[i] = s[i]
  OBVIOUS
<1> HIDE DEF u, n
<1>2. CASE r.call = c
  <2>1. answersIn(u, c) = answersIn(s, c) \cup {n} /\ n \notin answersIn(s, c)
    BY <1>1, <1>2 DEF answersIn
  <2> QED BY <1>2, <2>1, AnswersFinite, FS_AddElement  DEF u
<1>3. CASE r.call # c
  <2>1. answersIn(u, c) = answersIn(s, c)
    BY <1>1, <1>3 DEF answersIn
  <2> QED BY <1>3, <2>1, AnswersFinite  DEF u
<1> QED BY <1>2, <1>3

-----------------------------------------------------------------------------
(* How a step changes the numbers that NothingDuplicated is about.         *)

LEMMA Numbers ==
  ASSUME TypeOK, TypeOK', NEW c \in Calls
  PROVE  /\ queuedTimes(c) = Cardinality(placesIn(mQueue, c))
         /\ queuedTimes(c)' = Cardinality(placesIn(mQueue', c))
         /\ handledTimes(c) = Cardinality(handlersIn(cur, pc, c))
         /\ handledTimes(c)' = Cardinality(handlersIn(cur', pc', c))
         /\ answersTo(c) = Cardinality(answersIn(sent, c))
         /\ answersTo(c)' = Cardinality(answersIn(sent', c))
         /\ queuedTimes(c) \in Nat /\ queuedTimes(c)' \in Nat
         /\ handledTimes(c) \in Nat /\ handledTimes(c)' \in Nat
         /\ answersTo(c) \in Nat /\ answersTo(c)' \in Nat
         /\ fresh[c] \in Nat /\ fresh'[c] \in Nat
         /\ later[c] \in Nat /\ later'[c] \in Nat
         /\ pendingTimes(c) \in Nat /\ pendingTimes(c)' \in Nat
<1>1. /\ mQueue \in [Providers -> Seq(Calls)] /\ mQueue' \in [Providers -> Seq(Calls)]
      /\ sent \in Seq(ReplyType) /\ sent' \in Seq(ReplyType)
      /\ fresh \in [Calls -> Nat] /\ fresh' \in [Calls -> Nat]
      /\ later \in [Calls -> Nat] /\ later' \in [Calls -> Nat]
  BY DEF TypeOK
<1>2. /\ queuedTimes(c) = Cardinality(placesIn(mQueue, c))
      /\ queuedTimes(c)' = Cardinality(placesIn(mQueue', c))
  BY <1>1, QueuedCount DEF queuedTimes
<1>3. /\ handledTimes(c) = Cardinality(handlersIn(cur, pc, c))
      /\ handledTimes(c)' = Cardinality(handlersIn(cur', pc', c))
  BY DEF handledTimes, handlersIn
<1>4. /\ answersTo(c) = Cardinality(answersIn(sent, c))
      /\ answersTo(c)' = Cardinality(answersIn(sent', c))
  BY DEF answersTo, answersIn
<1>5. /\ queuedTimes(c) \in Nat /\ queuedTimes(c)' \in Nat
      /\ handledTimes(c) \in Nat /\ handledTimes(c)' \in Nat
      /\ answersTo(c) \in Nat /\ answersTo(c)' \in Nat
  BY <1>1, <1>2, <1>3, <1>4, QueuedFinite, HandledFinite, AnswersFinite
<1>6. /\ fresh[c] \in Nat /\ fresh'[c] \in Nat
      /\ later[c] \in Nat /\ later'[c] \in Nat
  BY <1>1
<1>7. pendingTimes(c) \in Nat /\ pendingTimes(c)' \in Nat
  BY <1>5, <1>6 DEF pendingTimes
<1> QED BY <1>2, <1>3, <1>4, <1>5, <1>6, <1>7

LEMMA Amounts ==
  ASSUME TypeOK, NEW c \in Calls
  PROVE  /\ queuedTimes(c) \in Nat /\ handledTimes(c) \in Nat
         /\ pendingTimes(c) \in Nat /\ answersTo(c) \in Nat
<1>1. /\ mQueue \in [Providers -> Seq(Calls)] /\ sent \in Seq(ReplyType)
      /\ fresh[c] \in Nat
  BY DEF TypeOK
<1>2. /\ queuedTimes(c) = Cardinality(placesIn(mQueue, c))
      /\ handledTimes(c) = Cardinality(handlersIn(cur, pc, c))
      /\ answersTo(c) = Cardinality(answersIn(sent, c))
  BY <1>1, QueuedCount DEF queuedTimes, handledTimes, handlersIn, answersTo, answersIn
<1>3. queuedTimes(c) \in Nat /\ handledTimes(c) \in Nat /\ answersTo(c) \in Nat
  BY <1>1, <1>2, QueuedFinite, HandledFinite, AnswersFinite
<1>4. pendingTimes(c) \in Nat
  BY <1>1, <1>3 DEF pendingTimes
<1> QED BY <1>3, <1>4

LEMMA PushCounts ==
  ASSUME TypeOK, TypeOK', NEW p \in Providers, NEW d \in Calls, NEW c \in Calls,
         mQueue' = [mQueue EXCEPT ![p] = Append(@, d)]
  PROVE  queuedTimes(c)' = queuedTimes(c) + (IF d = c THEN 1 ELSE 0)
<1>1. mQueue \in [Providers -> Seq(Calls)]
  BY DEF TypeOK
<1>2. mQueue' = pushed(mQueue, p, d)
  BY DEF pushed
<1>3. Cardinality(placesIn(mQueue', c)) = IF d = c THEN Cardinality(placesIn(mQueue, c)) + 1
                                          ELSE Cardinality(placesIn(mQueue, c))
  <2>1. Cardinality(placesIn(pushed(mQueue, p, d), c))
          = IF d = c THEN Cardinality(placesIn(mQueue, c)) + 1
                     ELSE Cardinality(placesIn(mQueue, c))
    BY <1>1, QueuedPush
  <2> QED BY ONLY <1>2, <2>1
<1>4. /\ queuedTimes(c) = Cardinality(placesIn(mQueue, c))
      /\ queuedTimes(c)' = Cardinality(placesIn(mQueue', c))
      /\ queuedTimes(c) \in Nat
  BY Numbers
<1> QED BY <1>3, <1>4

LEMMA TakeCounts ==
  ASSUME TypeOK, TypeOK', NEW p \in Providers, NEW c \in Calls,
         mQueue[p] # <<>>, mQueue' = [mQueue EXCEPT ![p] = Tail(@)]
  PROVE  queuedTimes(c) = queuedTimes(c)' + (IF Head(mQueue[p]) = c THEN 1 ELSE 0)
<1>1. mQueue \in [Providers -> Seq(Calls)]
  BY DEF TypeOK
<1>2. /\ Head(mQueue[p]) = c =>
           Cardinality(placesIn(mQueue, c)) = Cardinality(placesIn(mQueue', c)) + 1
      /\ Head(mQueue[p]) # c =>
           Cardinality(placesIn(mQueue, c)) = Cardinality(placesIn(mQueue', c))
  BY <1>1, QueuedTake
<1>3. /\ queuedTimes(c) = Cardinality(placesIn(mQueue, c))
      /\ queuedTimes(c)' = Cardinality(placesIn(mQueue', c))
      /\ queuedTimes(c)' \in Nat
  BY Numbers
<1> QED BY <1>2, <1>3

LEMMA ThreadCounts ==
  ASSUME TypeOK, TypeOK', NEW t \in Threads, NEW c \in Calls,
         \A s \in Threads \ {t} : handles(cur', pc', s, c) = handles(cur, pc, s, c)
  PROVE  handledTimes(c)' = handledTimes(c) - handles(cur, pc, t, c)
                                            + handles(cur', pc', t, c)
<1>1. Cardinality(handlersIn(cur', pc', c))
        = Cardinality(handlersIn(cur, pc, c)) - handles(cur, pc, t, c)
                                              + handles(cur', pc', t, c)
  BY HandledChange
<1>2. /\ handledTimes(c) = Cardinality(handlersIn(cur, pc, c))
      /\ handledTimes(c)' = Cardinality(handlersIn(cur', pc', c))
  BY Numbers
<1> QED BY <1>1, <1>2

LEMMA PostCounts ==
  ASSUME TypeOK, TypeOK', NEW r \in ReplyType, NEW c \in Calls,
         sent' = Append(sent, r)
  PROVE  answersTo(c)' = answersTo(c) + (IF r.call = c THEN 1 ELSE 0)
<1>1. sent \in Seq(ReplyType)
  BY DEF TypeOK
<1> QED BY <1>1, Numbers, AnswersPost

LEMMA QueuesSame ==
  ASSUME NEW c, mQueue' = mQueue
  PROVE  queuedTimes(c)' = queuedTimes(c)
BY DEF queuedTimes

LEMMA AnswersSame ==
  ASSUME NEW c, sent' = sent
  PROVE  answersTo(c)' = answersTo(c)
BY DEF answersTo

-----------------------------------------------------------------------------
(* The invariant behind NothingDuplicated and ListIsComplete.              *)

\* A thread between two requests has put the call it handled out of its mind.
IdleHaveNone == \A t \in Threads : pc[t] \in {"ready", "blocked"} => cur[t] = None

\* Only requests for one device are handed to PDM's one-shot calls.
PdmCallsKnown ==
  \A c \in Calls :
    pdmCall[c] \notin {"none", "lost"} =>
      req[c] # None /\ req[c].method \in {"GET_PROP", "EJECT"}

\* A message nobody sent is nowhere.  A message with no device change on its
\* hands, or one that PDM keeps clear of, is in one place at most.  What there
\* is of a message is paid for, and the second answer of a handler is its last.
CountedFor(c) ==
  /\ req[c] = None => pendingTimes(c) + answersTo(c) = 0
  /\ later[c] > 0 => subscribed[c]
  /\ PdmWaits \/ later[c] = 0 => pendingTimes(c) <= 1
  /\ \/ pendingTimes(c) + answersTo(c) <= 1 + later[c]
     \/ /\ req[c] # None /\ answeredTwice(req[c])
        /\ pendingTimes(c) = 0 /\ answersTo(c) <= 2

Counted == \A c \in Calls : CountedFor(c)

CountInv == IdleHaveNone /\ PdmCallsKnown /\ Counted

\* A step that adds nothing to a message.
LEMMA NothingAdded ==
  ASSUME TypeOK, TypeOK', NEW c \in Calls, CountedFor(c),
         req'[c] = req[c], later'[c] = later[c], subscribed[c] => subscribed'[c],
         pendingTimes(c)' <= pendingTimes(c),
         pendingTimes(c)' + answersTo(c)' <= pendingTimes(c) + answersTo(c)
  PROVE  CountedFor(c)'
<1> DEFINE P == pendingTimes(c)  A == answersTo(c)
           Q == pendingTimes(c)' B == answersTo(c)'
           twice == answeredTwice(req[c])
<1>1. P \in Nat /\ A \in Nat /\ Q \in Nat /\ B \in Nat /\ later[c] \in Nat
  BY Numbers
<1>2. answeredTwice(req'[c]) = twice
  OBVIOUS
<1>3. /\ req[c] = None => P + A = 0
      /\ later[c] > 0 => subscribed[c]
      /\ PdmWaits \/ later[c] = 0 => P <= 1
      /\ \/ P + A <= 1 + later[c]
         \/ req[c] # None /\ twice /\ P = 0 /\ A <= 2
  BY DEF CountedFor
<1>4. Q <= P /\ Q + B <= P + A
  OBVIOUS
<1> HIDE DEF P, A, Q, B, twice
<1>5. /\ req'[c] = None => Q + B = 0
      /\ later'[c] > 0 => subscribed'[c]
      /\ PdmWaits \/ later'[c] = 0 => Q <= 1
      /\ \/ Q + B <= 1 + later'[c]
         \/ req'[c] # None /\ twice /\ Q = 0 /\ B <= 2
  BY <1>1, <1>3, <1>4
<1> QED BY <1>2, <1>5 DEF CountedFor, P, A, Q, B, twice

\* A step that leaves every place of a message as it was.
LEMMA NothingMoves ==
  ASSUME TypeOK, TypeOK', NEW c \in Calls, CountedFor(c),
         req'[c] = req[c], fresh'[c] = fresh[c], later'[c] = later[c],
         subscribed'[c] = subscribed[c], mQueue' = mQueue, sent' = sent,
         pdmCall[c] \in {"none", "lost"} => pdmCall'[c] \in {"none", "lost"},
         \A s \in Threads : handles(cur', pc', s, c) = handles(cur, pc, s, c)
  PROVE  CountedFor(c)'
<1>1. Main \in Threads /\ handles(cur, pc, Main, c) \in Nat
  BY DEF Threads, handles
<1>2. handledTimes(c)' = handledTimes(c)
  <2>1. handledTimes(c)' = handledTimes(c) - handles(cur, pc, Main, c)
                                           + handles(cur', pc', Main, c)
    BY <1>1, ThreadCounts
  <2> QED BY <1>1, <2>1, Numbers
<1>3. queuedTimes(c)' = queuedTimes(c) /\ answersTo(c)' = answersTo(c)
  BY QueuesSame, AnswersSame
<1>4. pendingTimes(c)' <= pendingTimes(c)
  BY <1>2, <1>3, Numbers DEF pendingTimes
<1>5. pendingTimes(c)' + answersTo(c)' <= pendingTimes(c) + answersTo(c)
  BY <1>3, <1>4, Numbers
<1> QED BY <1>4, <1>5, NothingAdded

LEMMA NotifyCounts ==
  ASSUME IInv, IInv', CountInv, NEW t \in Threads, notify_one(t)
  PROVE  Counted'
<1> SUFFICES ASSUME NEW c \in Calls PROVE CountedFor(c)'
  BY DEF Counted
<1>1. TypeOK /\ TypeOK' /\ CountedFor(c)
  BY DEF IInv, CountInv, Counted
<1>2. \A s \in Threads : handles(cur', pc', s, c) = handles(cur, pc, s, c)
  BY <1>1, NoneAssumption DEF handles, notify_one, TypeOK
<1> QED BY <1>1, <1>2, NothingMoves DEF notify_one, pdmVars

LEMMA WaitCounts ==
  ASSUME IInv, IInv', CountInv, NEW p \in Providers,
         waitForRequest(p) \/ spuriousWakeup(p)
  PROVE  Counted'
<1> SUFFICES ASSUME NEW c \in Calls PROVE CountedFor(c)'
  BY DEF Counted
<1>1. TypeOK /\ TypeOK' /\ CountedFor(c)
  BY DEF IInv, CountInv, Counted
<1>2. /\ UNCHANGED <<req, fresh, later, subscribed, mQueue, sent, pdmCall>>
      /\ \A s \in Threads : handles(cur', pc', s, c) = handles(cur, pc, s, c)
  BY <1>1 DEF handles, waitForRequest, spuriousWakeup, TypeOK, queueVars, pdmVars
<1> QED BY <1>1, <1>2, NothingMoves

\* A stage of a listing goes on: it keeps the call.
LEMMA StageCounts ==
  ASSUME IInv, IInv', CountInv, NEW t \in Threads,
         pc[t] \in {"running", "replying"},
         pc' = [pc EXCEPT ![t] = "replying"]
           \/ pc' = [pc EXCEPT ![t] = "building"]
           \/ pc' = [pc EXCEPT ![t] = "hung"],
         UNCHANGED <<req, mQueue, cur, pdmVars, sent>>
  PROVE  Counted'
<1> SUFFICES ASSUME NEW c \in Calls PROVE CountedFor(c)'
  BY DEF Counted
<1>1. TypeOK /\ TypeOK' /\ CountedFor(c)
  BY DEF IInv, CountInv, Counted
<1>2. \A s \in Threads : handles(cur', pc', s, c) = handles(cur, pc, s, c)
  BY <1>1 DEF handles, TypeOK
<1> QED BY <1>1, <1>2, NothingMoves DEF pdmVars

LEMMA DispatchCounts ==
  ASSUME IInv, IInv', CountInv, NEW p \in Providers, dispatchHandler(p)
  PROVE  Counted'
<1> SUFFICES ASSUME NEW c \in Calls PROVE CountedFor(c)'
  BY DEF Counted
<1>1. TypeOK /\ TypeOK' /\ CountedFor(c)
  BY DEF IInv, CountInv, Counted
<1>2. /\ mQueue[p] # <<>> /\ mQueue' = [mQueue EXCEPT ![p] = Tail(@)]
      /\ cur' = [cur EXCEPT ![p] = Head(mQueue[p])]
      /\ pc' = [pc EXCEPT ![p] = "running"] /\ p \in Threads
      /\ UNCHANGED <<req, sent, pdmVars>>
      /\ pc \in [Threads -> ThreadStates] /\ cur \in [Threads -> Calls \cup {None}]
  BY <1>1 DEF dispatchHandler, Threads, TypeOK
<1>3. queuedTimes(c) = queuedTimes(c)' + (IF Head(mQueue[p]) = c THEN 1 ELSE 0)
  BY <1>1, <1>2, TakeCounts
<1>4. handledTimes(c)' = handledTimes(c) + (IF Head(mQueue[p]) = c THEN 1 ELSE 0)
  <2>1. \A s \in Threads \ {p} : handles(cur', pc', s, c) = handles(cur, pc, s, c)
    BY <1>2 DEF handles
  <2>2. handles(cur, pc, p, c) = 0
    BY <1>2, NoneAssumption DEF handles, CountInv, IdleHaveNone, dispatchHandler
  <2>3. handles(cur', pc', p, c) = IF Head(mQueue[p]) = c THEN 1 ELSE 0
    BY <1>2 DEF handles
  <2>4. handledTimes(c)' = handledTimes(c) - handles(cur, pc, p, c)
                                           + handles(cur', pc', p, c)
    BY <1>1, <1>2, <2>1, ThreadCounts
  <2> QED BY <1>1, <2>2, <2>3, <2>4, Numbers
<1>5. pendingTimes(c)' = pendingTimes(c) /\ answersTo(c)' = answersTo(c)
  BY <1>1, <1>2, <1>3, <1>4, Numbers, AnswersSame DEF pendingTimes, pdmVars
<1> QED BY <1>1, <1>2, <1>5, NothingAdded, Numbers DEF pdmVars

\* A dispatcher leaves its handler: one thread less has the message.
LEMMA LeaveCounts ==
  ASSUME TypeOK, TypeOK', NEW p \in Providers, NEW c \in Calls,
         leaveHandler(p), pc[p] \in Working
  PROVE  handledTimes(c) = handledTimes(c)' + (IF c = cur[p] THEN 1 ELSE 0)
<1>1. /\ p \in Threads
      /\ pc' = [pc EXCEPT ![p] = "ready"] /\ cur' = [cur EXCEPT ![p] = None]
      /\ pc \in [Threads -> ThreadStates] /\ cur \in [Threads -> Calls \cup {None}]
  BY DEF leaveHandler, Threads, TypeOK
<1>2. \A s \in Threads \ {p} : handles(cur', pc', s, c) = handles(cur, pc, s, c)
  BY <1>1 DEF handles
<1>3. handles(cur, pc, p, c) = IF c = cur[p] THEN 1 ELSE 0
  BY DEF handles, Working
<1>4. handles(cur', pc', p, c) = 0
  BY <1>1, NoneAssumption DEF handles
<1>5. handledTimes(c)' = handledTimes(c) - handles(cur, pc, p, c)
                                         + handles(cur', pc', p, c)
  BY <1>1, <1>2, ThreadCounts
<1> QED BY <1>3, <1>4, <1>5, Numbers

LEMMA UsbCounts ==
  ASSUME IInv, IInv', CountInv, getPropertiesMethod \/ ejectMethod \/ usbListStorages
  PROVE  Counted'
<1> SUFFICES ASSUME NEW c \in Calls PROVE CountedFor(c)'
  BY DEF Counted
<1>1. TypeOK /\ TypeOK' /\ CountedFor(c)
  BY DEF IInv, CountInv, Counted
<1>2. /\ "USB" \in Providers /\ leaveHandler("USB") /\ pc["USB"] \in Working
      /\ UNCHANGED <<req, mQueue, sent, later, subscribed>>
  BY DEF getPropertiesMethod, ejectMethod, usbListStorages, inHandler, Working,
         Providers, queueVars
<1>3. handledTimes(c) = handledTimes(c)' + (IF c = cur["USB"] THEN 1 ELSE 0)
  BY <1>1, <1>2, LeaveCounts
<1>4. queuedTimes(c)' = queuedTimes(c) /\ answersTo(c)' = answersTo(c)
  BY <1>2, QueuesSame, AnswersSame
<1>5. \/ /\ fresh'[c] = fresh[c]
         /\ pdmCall'[c] = pdmCall[c] \/ c = cur["USB"]
      \/ /\ pdmCall'[c] = pdmCall[c]
         /\ fresh'[c] = fresh[c] + (IF c = cur["USB"] THEN 1 ELSE 0)
  <2>1. pdmCall \in [Calls -> {"none", "writable", "space", "eject", "lost"}]
    BY <1>1 DEF TypeOK
  <2>2. fresh \in [Calls -> Nat]
    BY <1>1 DEF TypeOK
  <2> QED BY <2>1, <2>2 DEF getPropertiesMethod, ejectMethod, usbListStorages
<1>6. pendingTimes(c)' <= pendingTimes(c)
  BY <1>1, <1>3, <1>4, <1>5, Numbers DEF pendingTimes
<1> QED BY <1>1, <1>2, <1>4, <1>6, NothingAdded, Numbers

\* How many answers a handler gives, and when it gives two.
LEMMA HandlerAnswers ==
  ASSUME NEW p \in Providers, NEW r, NEW n \in answersOf(p, r)
  PROVE  n \in {0, 1, 2} /\ (n = 2 => answeredTwice(r))
<1>1. p \in {"INTERNAL", "USB", "GDRIVE", "NETWORK"}
  BY DEF Providers
<1> QED BY <1>1 DEF answersOf, internalAnswers, usbAnswers, gdriveAnswers,
                    networkAnswers

LEMMA RepeatPosts ==
  ASSUME NEW s \in Seq(ReplyType), NEW a \in ReplyType
  PROVE  /\ s \o [i \in 1..0 |-> a] = s
         /\ s \o [i \in 1..1 |-> a] = Append(s, a)
         /\ s \o [i \in 1..2 |-> a] = Append(Append(s, a), a)
<1>1. \A n \in {0, 1, 2} : /\ [i \in 1..n |-> a] \in Seq(ReplyType)
                           /\ Len([i \in 1..n |-> a]) = n
  OBVIOUS
<1>2. s \o [i \in 1..0 |-> a] = s
  BY <1>1
<1>3. s \o [i \in 1..1 |-> a] = Append(s, a)
  BY <1>1
<1>4. s \o [i \in 1..2 |-> a] = Append(Append(s, a), a)
  BY <1>1
<1> QED BY <1>2, <1>3, <1>4

LEMMA HandlerCounts ==
  ASSUME IInv, IInv', CountInv, NEW p \in Providers,
         handleUnknown(p) \/ handleRequests(p)
  PROVE  Counted'
<1> SUFFICES ASSUME NEW c \in Calls PROVE CountedFor(c)'
  BY DEF Counted
<1>1. TypeOK /\ TypeOK' /\ CountedFor(c)
  BY DEF IInv, CountInv, Counted
<1>2. /\ leaveHandler(p) /\ pc[p] = "running" /\ pc[p] \in Working
      /\ UNCHANGED <<req, mQueue, pdmVars>>
  BY DEF handleUnknown, handleRequests, inHandler, Working, queueVars
<1>3. p \in Threads /\ cur[p] \in Admitted /\ cur[p] \in Calls
  BY <1>2 DEF IInv, ThreadsAdmitted, Threads, Admitted
<1>4. handledTimes(c) = handledTimes(c)' + (IF c = cur[p] THEN 1 ELSE 0)
  BY <1>1, <1>2, LeaveCounts
<1>5. queuedTimes(c)' = queuedTimes(c)
  BY <1>2, QueuesSame
<1>6. pendingTimes(c) = pendingTimes(c)' + (IF c = cur[p] THEN 1 ELSE 0)
  BY <1>1, <1>2, <1>4, <1>5, Numbers DEF pendingTimes, pdmVars
<1>7. CASE handleUnknown(p)
  <2>1. answersTo(c)' = answersTo(c)
    BY <1>7, AnswersSame DEF handleUnknown
  <2> QED BY <1>1, <1>2, <1>6, <2>1, NothingAdded, Numbers DEF pdmVars
<1>8. CASE handleRequests(p)
  <2> DEFINE a == [call |-> cur[p], kind |-> "answer", sections |-> <<>>]
  <2>1. PICK n \in answersOf(p, req[cur[p]]) : sent' = sent \o [i \in 1..n |-> a]
    BY <1>8 DEF handleRequests
  <2>2. a \in ReplyType /\ a.call = cur[p]
    BY <1>3 DEF ReplyType, ReplyKinds, SectionLists
  <2> HIDE DEF a
  <2>3. n \in {0, 1, 2} /\ (n = 2 => answeredTwice(req[cur[p]]))
    BY HandlerAnswers
  <2>4. answersTo(c)' = answersTo(c) + (IF c = cur[p] THEN n ELSE 0)
    <3>1. sent \in Seq(ReplyType) /\ Append(sent, a) \in Seq(ReplyType)
      BY <1>1, <2>2 DEF TypeOK
    <3> DEFINE k(s) == Cardinality(answersIn(s, c))
    <3>2. /\ k(Append(sent, a)) = k(sent) + (IF a.call = c THEN 1 ELSE 0)
          /\ k(Append(Append(sent, a), a))
               = k(Append(sent, a)) + (IF a.call = c THEN 1 ELSE 0)
      BY <2>2, <3>1, AnswersPost
    <3>3. k(sent) = answersTo(c) /\ k(sent') = answersTo(c)' /\ answersTo(c) \in Nat
      BY <1>1, Numbers
    <3> HIDE DEF k
    <3>4. CASE n = 0
      <4>1. sent' = sent
        BY <2>1, <2>2, <3>1, <3>4, RepeatPosts
      <4> QED BY <3>3, <3>4, <4>1
    <3>5. CASE n = 1
      <4>1. sent' = Append(sent, a)
        BY <2>1, <2>2, <3>1, <3>5, RepeatPosts
      <4> QED BY <2>2, <3>2, <3>3, <3>5, <4>1
    <3>6. CASE n = 2
      <4>1. sent' = Append(Append(sent, a), a)
        BY <2>1, <2>2, <3>1, <3>6, RepeatPosts
      <4> QED BY <2>2, <3>2, <3>3, <3>6, <4>1
    <3> QED BY <2>3, <3>4, <3>5, <3>6
  <2>5. CASE c # cur[p] \/ n <= 1
    <3>1. pendingTimes(c)' + answersTo(c)' <= pendingTimes(c) + answersTo(c)
      BY <1>1, <1>6, <2>3, <2>4, <2>5, Numbers
    <3>2. pendingTimes(c)' <= pendingTimes(c)
      BY <1>1, <1>6, Numbers
    <3> QED BY <1>1, <1>2, <3>1, <3>2, NothingAdded DEF pdmVars
  <2>6. CASE c = cur[p] /\ n = 2
    <3>1. req[c] \in Requests /\ req[c].method # "LIST_STORAGES" /\ answeredTwice(req[c])
      BY <1>3, <2>3, <2>6 DEF Admitted, answeredTwice
    <3>2. ~subscribed[c] /\ later[c] = 0
      <4>1. c \notin Listings
        BY <3>1 DEF Listings
      <4>2. ~subscribed[c]
        BY <4>1 DEF IInv, PdmAdmitted
      <4> QED BY <1>1, <4>2, Numbers DEF CountedFor
    <3>3. pendingTimes(c) = 1 /\ answersTo(c) = 0
      <4>1. pendingTimes(c) >= 1 /\ pendingTimes(c) <= 1
        BY <1>1, <1>6, <2>6, <3>2, Numbers DEF CountedFor
      <4> QED BY <1>1, <3>2, <4>1, Numbers DEF CountedFor
    <3>4. pendingTimes(c)' = 0 /\ answersTo(c)' = 2
      BY <1>1, <1>6, <2>4, <2>6, <3>3, Numbers
    <3>5. req' = req /\ later'[c] = 0 /\ req[c] # None
      BY <1>2, <3>1, <3>2, NoneAssumption DEF pdmVars
    <3>6. answeredTwice(req'[c]) /\ req'[c] # None
      BY <3>1, <3>5
    <3> QED BY <3>4, <3>5, <3>6 DEF CountedFor
  <2> QED BY <2>3, <2>5, <2>6
<1> QED BY <1>7, <1>8

LEMMA OnReplyCounts ==
  ASSUME IInv, IInv', CountInv, NEW d \in Calls, onReply(d)
  PROVE  Counted'
<1> SUFFICES ASSUME NEW c \in Calls PROVE CountedFor(c)'
  BY DEF Counted
<1>1. TypeOK /\ TypeOK' /\ CountedFor(c)
  BY DEF IInv, CountInv, Counted
<1> DEFINE a == [call |-> d, kind |-> "answer", sections |-> <<>>]
<1>2. a \in ReplyType /\ a.call = d /\ sent' = Append(sent, a)
  BY DEF ReplyType, ReplyKinds, SectionLists, onReply, postToClient
<1> HIDE DEF a
<1>3. /\ UNCHANGED <<req, mQueue, pc, cur, fresh, subscribed, later>>
      /\ pdmCall[d] \notin {"none", "lost"}
      /\ pdmCall' = [pdmCall EXCEPT ![d] = "none"] /\ d \in DOMAIN pdmCall
  BY <1>1 DEF onReply, queueVars, TypeOK
<1>4. answersTo(c)' = answersTo(c) + (IF d = c THEN 1 ELSE 0)
  BY <1>1, <1>2, PostCounts
<1>5. handledTimes(c)' = handledTimes(c) /\ queuedTimes(c)' = queuedTimes(c)
  BY <1>3 DEF handledTimes, queuedTimes
<1>6. pendingTimes(c) = pendingTimes(c)' + (IF d = c THEN 1 ELSE 0)
  BY <1>1, <1>3, <1>5, Numbers DEF pendingTimes
<1>7. /\ pendingTimes(c)' <= pendingTimes(c)
      /\ pendingTimes(c)' + answersTo(c)' <= pendingTimes(c) + answersTo(c)
  BY <1>1, <1>4, <1>6, Numbers
<1> QED BY <1>1, <1>3, <1>7, NothingAdded

LEMMA AskAgainCounts ==
  ASSUME IInv, IInv', CountInv, NEW d \in Calls, onGetPropertiesReply(d)
  PROVE  Counted'
<1> SUFFICES ASSUME NEW c \in Calls PROVE CountedFor(c)'
  BY DEF Counted
<1>1. TypeOK /\ TypeOK' /\ CountedFor(c)
  BY DEF IInv, CountInv, Counted
<1>2. /\ UNCHANGED <<req, mQueue, pc, cur, fresh, subscribed, later, sent>>
      /\ pdmCall[c] \in {"none", "lost"} => pdmCall'[c] \in {"none", "lost"}
  BY <1>1 DEF onGetPropertiesReply, queueVars, TypeOK
<1> QED BY <1>1, <1>2, NothingMoves

LEMMA UnparsableCounts ==
  ASSUME IInv, IInv', CountInv, NEW d \in Calls, unparsableAnswer(d)
  PROVE  Counted'
<1> SUFFICES ASSUME NEW c \in Calls PROVE CountedFor(c)'
  BY DEF Counted
<1>1. TypeOK /\ TypeOK' /\ CountedFor(c)
  BY DEF IInv, CountInv, Counted
<1>2. /\ UNCHANGED <<req, mQueue, pc, cur, later, sent>>
      /\ subscribed[c] => subscribed'[c]
      /\ pdmCall[c] \in {"none", "lost"} => pdmCall'[c] \in {"none", "lost"}
      /\ fresh'[c] <= fresh[c]
  <2>1. /\ fresh \in [Calls -> Nat] /\ subscribed \in [Calls -> BOOLEAN]
        /\ pdmCall \in [Calls -> {"none", "writable", "space", "eject", "lost"}]
        /\ fresh[c] \in Nat
    BY <1>1 DEF TypeOK
  <2>2. UNCHANGED <<req, mQueue, pc, cur, later, sent>>
    BY DEF unparsableAnswer, queueVars
  <2>3. pdmCall' = [pdmCall EXCEPT ![d] = "lost"]
    BY DEF unparsableAnswer
  <2>4. \/ UNCHANGED <<fresh, subscribed>>
        \/ /\ fresh' = [fresh EXCEPT ![d] = @ - 1]
           /\ subscribed' = [subscribed EXCEPT ![d] = TRUE]
    BY DEF unparsableAnswer
  <2>5. fresh'[c] <= fresh[c]
    BY <2>1, <2>4
  <2>6. subscribed[c] => subscribed'[c]
    BY <2>1, <2>4
  <2>7. pdmCall[c] \in {"none", "lost"} => pdmCall'[c] \in {"none", "lost"}
    BY <2>1, <2>3
  <2> QED BY <2>2, <2>5, <2>6, <2>7
<1>3. /\ handledTimes(c)' = handledTimes(c) /\ queuedTimes(c)' = queuedTimes(c)
      /\ answersTo(c)' = answersTo(c)
  BY <1>2 DEF handledTimes, queuedTimes, answersTo
<1>4. pendingTimes(c)' <= pendingTimes(c)
  BY <1>1, <1>2, <1>3, Numbers DEF pendingTimes
<1> QED BY <1>1, <1>2, <1>3, <1>4, NothingAdded, Numbers

\* The device list pays for the round it starts.
LEMMA DeviceListCounts ==
  ASSUME IInv, IInv', CountInv, NEW d \in Calls, onListStoragesMethodReply(d)
  PROVE  Counted'
<1> SUFFICES ASSUME NEW c \in Calls PROVE CountedFor(c)'
  BY DEF Counted
<1>1. TypeOK /\ TypeOK' /\ CountedFor(c)
  BY DEF IInv, CountInv, Counted
<1>2. /\ UNCHANGED <<req, mQueue, pdmCall, sent>> /\ Main \in Threads
      /\ pc[Main] = "ready" /\ pc' = [pc EXCEPT ![Main] = "replying"]
      /\ cur' = [cur EXCEPT ![Main] = d]
      /\ pc \in [Threads -> ThreadStates] /\ cur \in [Threads -> Calls \cup {None}]
  BY <1>1 DEF onListStoragesMethodReply, queueVars, TypeOK, Threads
<1>3. handledTimes(c)' = handledTimes(c) + (IF c = d THEN 1 ELSE 0)
  <2>1. \A s \in Threads \ {Main} : handles(cur', pc', s, c) = handles(cur, pc, s, c)
    BY <1>2 DEF handles
  <2>2. handles(cur, pc, Main, c) = 0
    BY <1>2, NoneAssumption DEF handles, CountInv, IdleHaveNone
  <2>3. handles(cur', pc', Main, c) = IF c = d THEN 1 ELSE 0
    BY <1>2 DEF handles
  <2>4. handledTimes(c)' = handledTimes(c) - handles(cur, pc, Main, c)
                                           + handles(cur', pc', Main, c)
    BY <1>1, <1>2, <2>1, ThreadCounts
  <2> QED BY <1>1, <2>2, <2>3, <2>4, Numbers
<1>4. queuedTimes(c)' = queuedTimes(c) /\ answersTo(c)' = answersTo(c)
  BY <1>2, QueuesSame, AnswersSame
<1>5. CASE /\ fresh[d] > 0 /\ fresh' = [fresh EXCEPT ![d] = @ - 1]
           /\ subscribed' = [subscribed EXCEPT ![d] = TRUE] /\ later' = later
  <2>1. fresh \in [Calls -> Nat] /\ subscribed \in [Calls -> BOOLEAN]
    BY <1>1 DEF TypeOK
  <2>2. fresh'[c] = fresh[c] - (IF c = d THEN 1 ELSE 0)
    BY <1>5, <2>1
  <2>3. subscribed[c] => subscribed'[c]
    BY <1>5, <2>1
  <2>4. pendingTimes(c)' = pendingTimes(c)
    BY <1>1, <1>2, <1>3, <1>4, <2>2, Numbers DEF pendingTimes
  <2> QED BY <1>1, <1>2, <1>4, <1>5, <2>3, <2>4, NothingAdded, Numbers
<1>6. CASE /\ subscribed[d] /\ later' = [later EXCEPT ![d] = @ + 1]
           /\ PdmWaits => pendingTimes(d) = 0
           /\ UNCHANGED <<fresh, subscribed>>
  <2>1. pendingTimes(c)' = pendingTimes(c) + (IF c = d THEN 1 ELSE 0)
    BY <1>1, <1>2, <1>3, <1>4, <1>6, Numbers DEF pendingTimes
  <2>2. later \in [Calls -> Nat]
    BY <1>1 DEF TypeOK
  <2>3. CASE c # d
    BY <1>1, <1>2, <1>4, <1>6, <2>1, <2>2, <2>3, NothingAdded, Numbers
  <2>4. CASE c = d
    <3>1. later'[c] = later[c] + 1
      BY <1>6, <2>2, <2>4
    <3>2. req[c] # None /\ ~answeredTwice(req[c]) /\ req' = req
      <4>1. c \in Listings
        BY <1>6, <2>4 DEF IInv, PdmAdmitted
      <4> QED BY <1>2, <4>1, NoneAssumption
              DEF Listings, Admitted, answeredTwice
    <3>3. pendingTimes(c)' + answersTo(c)' <= 1 + later'[c]
      BY <1>1, <1>4, <2>1, <2>4, <3>1, <3>2, Numbers DEF CountedFor
    <3>4. PdmWaits \/ later'[c] = 0 => pendingTimes(c)' <= 1
      BY <1>1, <1>6, <2>1, <2>4, <3>1, Numbers
    <3>5. subscribed'[c] /\ req'[c] # None
      BY <1>6, <2>4, <3>2
    <3> QED BY <3>3, <3>4, <3>5 DEF CountedFor
  <2> QED BY <2>3, <2>4
<1> QED BY <1>5, <1>6 DEF onListStoragesMethodReply

LEMMA BuildCounts ==
  ASSUME IInv, IInv', CountInv, NEW t \in Threads, buildNextRequest(t)
  PROVE  Counted'
<1> SUFFICES ASSUME NEW c \in Calls PROVE CountedFor(c)'
  BY DEF Counted
<1>1. TypeOK /\ TypeOK' /\ CountedFor(c)
  BY DEF IInv, CountInv, Counted
<1> DEFINE p == getStorageDeviceType(params[cur[t]].storageType)
<1>2. cur[t] \in Listings /\ cur[t] \in Calls /\ p \in Providers
  BY StageIsProvider DEF buildNextRequest, IInv, ThreadsAdmitted, Listings, Admitted
<1>3. /\ pc[t] = "building" /\ pc' = [pc EXCEPT ![t] = "notifying"]
      /\ mQueue' = [mQueue EXCEPT ![p] = Append(@, cur[t])]
      /\ UNCHANGED <<req, cur, pdmVars, sent>>
      /\ pc \in [Threads -> ThreadStates]
  BY <1>1 DEF buildNextRequest, addRequest, TypeOK
<1> HIDE DEF p
<1>4. queuedTimes(c)' = queuedTimes(c) + (IF cur[t] = c THEN 1 ELSE 0)
  BY <1>1, <1>2, <1>3, PushCounts
<1>5. handledTimes(c) = handledTimes(c)' + (IF cur[t] = c THEN 1 ELSE 0)
  <2>1. \A s \in Threads \ {t} : handles(cur', pc', s, c) = handles(cur, pc, s, c)
    BY <1>3 DEF handles
  <2>2. /\ handles(cur, pc, t, c) = IF cur[t] = c THEN 1 ELSE 0
        /\ handles(cur', pc', t, c) = 0
    BY <1>3 DEF handles
  <2>3. handledTimes(c)' = handledTimes(c) - handles(cur, pc, t, c)
                                           + handles(cur', pc', t, c)
    BY <1>1, <2>1, ThreadCounts
  <2> QED BY <1>1, <2>2, <2>3, Numbers
<1>6. pendingTimes(c)' = pendingTimes(c) /\ answersTo(c)' = answersTo(c)
  BY <1>1, <1>3, <1>4, <1>5, Numbers, AnswersSame DEF pendingTimes, pdmVars
<1> QED BY <1>1, <1>3, <1>6, NothingAdded, Numbers DEF pdmVars

LEMMA ListAnswerCounts ==
  ASSUME IInv, IInv', CountInv, NEW t \in Threads, answerListOfStorages(t)
  PROVE  Counted'
<1> SUFFICES ASSUME NEW c \in Calls PROVE CountedFor(c)'
  BY DEF Counted
<1>1. TypeOK /\ TypeOK' /\ CountedFor(c)
  BY DEF IInv, CountInv, Counted
<1> DEFINE l == Append(params[cur[t]].listStorageResponse, params[cur[t]].response)
           a == [call |-> cur[t], kind |-> "answer", sections |-> l]
<1>2. cur[t] \in Listings /\ cur[t] \in Calls
  BY DEF answerListOfStorages, IInv, ThreadsAdmitted, Listings, Admitted
<1>3. /\ pc[t] = "replying" /\ pc' = [pc EXCEPT ![t] = "ready"]
      /\ cur' = [cur EXCEPT ![t] = None] /\ sent' = Append(sent, a)
      /\ UNCHANGED <<req, mQueue, pdmVars>>
      /\ pc \in [Threads -> ThreadStates] /\ cur \in [Threads -> Calls \cup {None}]
  BY <1>1 DEF answerListOfStorages, postToClient, queueVars, TypeOK
<1>4. a \in ReplyType /\ a.call = cur[t]
  <2>1. params[cur[t]] \in ParamsType
    BY <1>1, <1>2 DEF TypeOK
  <2>2. l \in SectionLists
    BY <2>1, AddSection DEF ParamsType
  <2> HIDE DEF l
  <2> QED BY <1>2, <2>2 DEF ReplyType, ReplyKinds
<1> HIDE DEF a
<1>5. answersTo(c)' = answersTo(c) + (IF cur[t] = c THEN 1 ELSE 0)
  BY <1>1, <1>3, <1>4, PostCounts
<1>6. handledTimes(c) = handledTimes(c)' + (IF cur[t] = c THEN 1 ELSE 0)
  <2>1. \A s \in Threads \ {t} : handles(cur', pc', s, c) = handles(cur, pc, s, c)
    BY <1>3 DEF handles
  <2>2. /\ handles(cur, pc, t, c) = IF cur[t] = c THEN 1 ELSE 0
        /\ handles(cur', pc', t, c) = 0
    BY <1>3, NoneAssumption DEF handles
  <2>3. handledTimes(c)' = handledTimes(c) - handles(cur, pc, t, c)
                                           + handles(cur', pc', t, c)
    BY <1>1, <2>1, ThreadCounts
  <2> QED BY <1>1, <2>2, <2>3, Numbers
<1>7. queuedTimes(c)' = queuedTimes(c)
  BY <1>3, QueuesSame
<1>8. pendingTimes(c) = pendingTimes(c)' + (IF cur[t] = c THEN 1 ELSE 0)
  BY <1>1, <1>3, <1>6, <1>7, Numbers, SMTT(30) DEF pendingTimes, pdmVars
<1>9. /\ pendingTimes(c)' <= pendingTimes(c)
      /\ pendingTimes(c)' + answersTo(c)' <= pendingTimes(c) + answersTo(c)
  BY <1>1, <1>5, <1>8, Numbers
<1> QED BY <1>1, <1>3, <1>9, NothingAdded DEF pdmVars

\* What nobody has sent is new when it arrives.
LEMMA NewIsNowhere ==
  ASSUME IInv, TypeOK', CountInv, NEW c \in Calls, req[c] = None
  PROVE  pendingTimes(c) = 0 /\ answersTo(c) = 0 /\ later[c] = 0
<1>1. TypeOK /\ CountedFor(c)
  BY DEF IInv, CountInv, Counted
<1>2. ~subscribed[c]
  <2>1. c \notin Listings
    BY NoneAssumption DEF Listings, Admitted
  <2> QED BY <2>1 DEF IInv, PdmAdmitted
<1> QED BY <1>1, <1>2, Numbers DEF CountedFor

LEMMA ArrivalCounts ==
  ASSUME TypeOK, TypeOK', NEW c \in Calls, req'[c] # None,
         later'[c] = 0, pendingTimes(c)' + answersTo(c)' = 1
  PROVE  CountedFor(c)'
<1>1. pendingTimes(c)' \in Nat /\ answersTo(c)' \in Nat
  BY Numbers
<1> QED BY <1>1 DEF CountedFor

LEMMA RefusalCounts ==
  ASSUME IInv, IInv', CountInv, NEW d \in Calls, NEW r \in Requests, receive(d, r),
         rejectionOf(r) # "none", postToClient(d, rejectionOf(r), <<>>),
         UNCHANGED <<queueVars, pc>>
  PROVE  Counted'
<1> SUFFICES ASSUME NEW c \in Calls PROVE CountedFor(c)'
  BY DEF Counted
<1>1. TypeOK /\ TypeOK' /\ CountedFor(c)
  BY DEF IInv, CountInv, Counted
<1> DEFINE a == [call |-> d, kind |-> rejectionOf(r), sections |-> <<>>]
<1>2. a \in ReplyType /\ a.call = d /\ sent' = Append(sent, a)
  <2>1. rejectionOf(r) \in ReplyKinds /\ <<>> \in SectionLists
    BY RejectionType, RequestsAssumption DEF SectionLists
  <2> QED BY <2>1 DEF ReplyType, postToClient
<1> HIDE DEF a
<1>3. /\ UNCHANGED <<cur, pc, mQueue, pdmVars>> /\ req[d] = None
      /\ req' = [req EXCEPT ![d] = r] /\ d \in DOMAIN req
  BY <1>1 DEF receive, queueVars, TypeOK
<1>4. answersTo(c)' = answersTo(c) + (IF d = c THEN 1 ELSE 0)
  BY <1>1, <1>2, PostCounts
<1>5. pendingTimes(c)' = pendingTimes(c)
  BY <1>3 DEF pendingTimes, handledTimes, queuedTimes, pdmVars
<1>6. CASE c = d
  <2>1. pendingTimes(c) = 0 /\ answersTo(c) = 0 /\ later[c] = 0
    BY <1>1, <1>3, <1>6, NewIsNowhere
  <2>2. req'[c] # None
    BY <1>3, <1>6, NoneAssumption
  <2> QED BY <1>1, <1>3, <1>4, <1>5, <1>6, <2>1, <2>2, ArrivalCounts DEF pdmVars
<1>7. CASE c # d
  BY <1>1, <1>3, <1>4, <1>5, <1>7, NothingAdded, Numbers DEF pdmVars
<1> QED BY <1>6, <1>7

LEMMA AcceptanceCounts ==
  ASSUME IInv, IInv', CountInv, NEW d \in Calls, NEW r \in Requests, receive(d, r),
         NEW p \in Providers, addRequest(Main, p, d), UNCHANGED sent
  PROVE  Counted'
<1> SUFFICES ASSUME NEW c \in Calls PROVE CountedFor(c)'
  BY DEF Counted
<1>1. TypeOK /\ TypeOK' /\ CountedFor(c)
  BY DEF IInv, CountInv, Counted
<1>2. /\ UNCHANGED <<cur, pdmVars, sent>> /\ req[d] = None /\ Main \in Threads
      /\ req' = [req EXCEPT ![d] = r] /\ d \in DOMAIN req
      /\ pc[Main] = "ready" /\ pc' = [pc EXCEPT ![Main] = "notifying"]
      /\ mQueue' = [mQueue EXCEPT ![p] = Append(@, d)]
      /\ pc \in [Threads -> ThreadStates]
  BY <1>1 DEF receive, addRequest, TypeOK, Threads
<1>3. queuedTimes(c)' = queuedTimes(c) + (IF d = c THEN 1 ELSE 0)
  BY <1>1, <1>2, PushCounts
<1>4. handledTimes(c)' = handledTimes(c)
  <2>1. \A s \in Threads \ {Main} : handles(cur', pc', s, c) = handles(cur, pc, s, c)
    BY <1>2 DEF handles
  <2>2. handles(cur, pc, Main, c) = 0 /\ handles(cur', pc', Main, c) = 0
    BY <1>2, NoneAssumption DEF handles, CountInv, IdleHaveNone
  <2>3. handledTimes(c)' = handledTimes(c) - handles(cur, pc, Main, c)
                                           + handles(cur', pc', Main, c)
    BY <1>1, <1>2, <2>1, ThreadCounts
  <2> QED BY <1>1, <2>2, <2>3, Numbers
<1>5. pendingTimes(c)' = pendingTimes(c) + (IF d = c THEN 1 ELSE 0)
  <2>1. fresh'[c] = fresh[c] /\ pdmCall'[c] = pdmCall[c]
    BY <1>2 DEF pdmVars
  <2>2. queuedTimes(c) \in Nat /\ handledTimes(c) \in Nat /\ fresh[c] \in Nat
    BY <1>1, Numbers
  <2> QED BY ONLY <1>3, <1>4, <2>1, <2>2 DEF pendingTimes
<1>6. answersTo(c)' = answersTo(c)
  BY <1>2, AnswersSame
<1>7. CASE c = d
  <2>1. pendingTimes(c) = 0 /\ answersTo(c) = 0 /\ later[c] = 0
    BY <1>1, <1>2, <1>7, NewIsNowhere
  <2>2. req'[c] # None
    BY <1>2, <1>7, NoneAssumption
  <2> QED BY <1>1, <1>2, <1>5, <1>6, <1>7, <2>1, <2>2, ArrivalCounts DEF pdmVars
<1>8. CASE c # d
  BY <1>1, <1>2, <1>5, <1>6, <1>8, NothingAdded, Numbers DEF pdmVars
<1> QED BY <1>7, <1>8

LEMMA DeviceMethodCounts ==
  ASSUME IInv, IInv', CountInv, NEW c \in Calls, NEW m, m # "LIST_STORAGES",
         deviceMethod(c, m)
  PROVE  Counted'
<1>1. PICK r \in Requests :
        /\ r.method = m
        /\ receive(c, r)
        /\ \/ /\ rejectionOf(r) # "none"
              /\ postToClient(c, rejectionOf(r), <<>>)
              /\ UNCHANGED <<queueVars, pc>>
           \/ /\ rejectionOf(r) = "none"
              /\ addRequest(Main, routeOf(r), c)
              /\ UNCHANGED sent
  BY DEF deviceMethod
<1>2. CASE rejectionOf(r) # "none"
  BY <1>1, <1>2, RefusalCounts
<1>3. CASE rejectionOf(r) = "none"
  <2>1. routeOf(r) \in Providers
    BY <1>1, <1>3, RequestsAssumption, RouteIsProvider
  <2> QED BY <1>1, <1>3, <2>1, AcceptanceCounts
<1> QED BY <1>2, <1>3

LEMMA ListStorageProvidersCounts ==
  ASSUME IInv, IInv', CountInv, NEW c \in Calls, listStorageProviders(c)
  PROVE  Counted'
<1>1. PICK r \in Requests :
        /\ receive(c, r)
        /\ \/ /\ rejectionOf(r) # "none"
              /\ postToClient(c, rejectionOf(r), <<>>)
              /\ UNCHANGED <<queueVars, pc>>
           \/ /\ addRequest(Main, "USB", c)
              /\ UNCHANGED sent
  BY DEF listStorageProviders
<1>2. "USB" \in Providers
  BY DEF Providers
<1> QED BY <1>1, <1>2, RefusalCounts, AcceptanceCounts

LEMMA NextCounts ==
  ASSUME IInv, IInv', CountInv, [Next]_vars
  PROVE  Counted'
<1>1. ASSUME NEW c \in Calls, LunaStep(c) PROVE Counted'
  BY <1>1, DeviceMethodCounts, ListStorageProvidersCounts
     DEF LunaStep, handleExtraCommand, list, getProperties, copy, move, remove,
         eject, rename
<1>2. ASSUME NEW c \in Calls, PdmStep(c) PROVE Counted'
  BY <1>2, AskAgainCounts, OnReplyCounts, DeviceListCounts, UnparsableCounts
     DEF PdmStep
<1>3. ASSUME NEW p \in Providers, QueueStep(p) PROVE Counted'
  BY <1>3, WaitCounts, DispatchCounts DEF QueueStep
<1>4. ASSUME NEW p \in Providers, HandlerStep(p) PROVE Counted'
  BY <1>4, HandlerCounts DEF HandlerStep
<1>5. ASSUME NEW t \in Threads, CallbackStep(t) PROVE Counted'
  <2>1. CASE onListOfStoragesReply(t)
    BY <2>1, StageCounts DEF onListOfStoragesReply, queueVars
  <2> QED BY <1>5, <2>1, BuildCounts, ListAnswerCounts, NotifyCounts DEF CallbackStep
<1>6. CASE UsbStep
  BY <1>6, UsbCounts DEF UsbStep
<1>7. CASE StageStep
  <2>1. PICK p \in {"INTERNAL", "GDRIVE", "NETWORK"} :
          \E section : listStoragesStage(p, section)
    BY <1>7 DEF StageStep, internalListStorages, gdriveListStorages, networkListStorages
  <2>2. p \in Threads
    BY DEF Threads, Providers
  <2> QED BY <2>1, <2>2, StageCounts DEF listStoragesStage, inHandler, queueVars
<1>8. CASE scanHangs
  <2>1. "NETWORK" \in Threads
    BY DEF Threads, Providers
  <2> QED BY <1>8, <2>1, StageCounts DEF scanHangs, inHandler, queueVars
<1>9. CASE UNCHANGED vars
  BY <1>9 DEF vars, CountInv, Counted, CountedFor, pendingTimes, queuedTimes,
              handledTimes, answersTo
<1> QED
  BY <1>1, <1>2, <1>3, <1>4, <1>5, <1>6, <1>7, <1>8, <1>9 DEF Next

\* Who leaves a handler or a callback forgets the call.
LEMMA IdlePreserved ==
  ASSUME TypeOK, IdleHaveNone, [Next]_vars
  PROVE  IdleHaveNone'
<1> USE DEF IdleHaveNone, TypeOK
<1>1. ASSUME NEW c \in Calls, LunaStep(c) PROVE IdleHaveNone'
  <2>1. cur' = cur /\ (pc' = pc \/ pc' = [pc EXCEPT ![Main] = "notifying"])
    BY <1>1 DEF LunaStep, handleExtraCommand, list, getProperties, copy, move,
         remove, eject, rename, deviceMethod, listStorageProviders, receive, addRequest
  <2> QED BY <2>1
<1>2. ASSUME NEW c \in Calls, PdmStep(c) PROVE IdleHaveNone'
  <2>1. \/ UNCHANGED <<pc, cur>>
        \/ pc' = [pc EXCEPT ![Main] = "replying"] /\ cur' = [cur EXCEPT ![Main] = c]
    BY <1>2 DEF PdmStep, onGetPropertiesReply, onReply, onListStoragesMethodReply,
                unparsableAnswer
  <2> QED BY <2>1
<1>3. ASSUME NEW p \in Providers, QueueStep(p) PROVE IdleHaveNone'
  <2>1. \/ /\ pc[p] \in {"ready", "blocked"} /\ cur' = cur
           /\ pc' = [pc EXCEPT ![p] = "blocked"] \/ pc' = [pc EXCEPT ![p] = "ready"]
        \/ /\ pc' = [pc EXCEPT ![p] = "running"]
           /\ cur' = [cur EXCEPT ![p] = Head(mQueue[p])]
    BY <1>3 DEF QueueStep, waitForRequest, dispatchHandler, spuriousWakeup
  <2> QED BY <2>1
<1>4. ASSUME NEW p \in Providers, HandlerStep(p) \/ UsbStep PROVE IdleHaveNone'
  <2>1. \E q \in Providers : leaveHandler(q)
    BY <1>4 DEF HandlerStep, handleUnknown, handleRequests, UsbStep,
                getPropertiesMethod, ejectMethod, usbListStorages, Providers
  <2> QED BY <2>1 DEF leaveHandler, Threads
<1>5. ASSUME NEW t \in Threads, CallbackStep(t) PROVE IdleHaveNone'
  <2>1. CASE notify_one(t)
    BY <2>1 DEF notify_one
  <2>2. CASE answerListOfStorages(t)
    BY <2>2 DEF answerListOfStorages
  <2>3. CASE onListOfStoragesReply(t) \/ buildNextRequest(t)
    <3>1. cur' = cur /\ (\/ pc' = [pc EXCEPT ![t] = "building"]
                         \/ pc' = [pc EXCEPT ![t] = "notifying"])
      BY <2>3 DEF onListOfStoragesReply, buildNextRequest, addRequest
    <3> QED BY <3>1
  <2> QED BY <1>5, <2>1, <2>2, <2>3 DEF CallbackStep
<1>6. CASE StageStep \/ scanHangs
  <2>1. cur' = cur /\ \E q : \/ pc' = [pc EXCEPT ![q] = "replying"]
                             \/ pc' = [pc EXCEPT ![q] = "hung"]
    BY <1>6 DEF StageStep, internalListStorages, gdriveListStorages,
                networkListStorages, listStoragesStage, scanHangs
  <2> QED BY <2>1
<1>7. CASE UNCHANGED vars
  BY <1>7 DEF vars
<1>8. "USB" \in Providers
  BY DEF Providers
<1> QED BY <1>1, <1>2, <1>3, <1>4, <1>5, <1>6, <1>7, <1>8 DEF Next

\* Only a method handler adds a message.
LEMMA RequestsOnlyArrive ==
  ASSUME [Next]_vars, ~ \E c \in Calls : LunaStep(c)
  PROVE  req' = req
BY DEF Next, vars, PdmStep, onGetPropertiesReply, onReply,
       onListStoragesMethodReply, unparsableAnswer, QueueStep, waitForRequest,
       dispatchHandler, spuriousWakeup, HandlerStep, handleUnknown,
       handleRequests, CallbackStep, onListOfStoragesReply, buildNextRequest,
       answerListOfStorages, notify_one, UsbStep, getPropertiesMethod,
       ejectMethod, usbListStorages, StageStep, internalListStorages,
       gdriveListStorages, networkListStorages, listStoragesStage, scanHangs

\* A message is received once.
LEMMA RequestsStay ==
  ASSUME TypeOK, [Next]_vars
  PROVE  \A c \in Calls : req[c] # None => req'[c] = req[c]
<1>1. ASSUME NEW c \in Calls, LunaStep(c)
      PROVE  \A d \in Calls : req[d] # None => req'[d] = req[d]
  <2>1. \E r : receive(c, r)
    BY <1>1 DEF LunaStep, handleExtraCommand, list, getProperties, copy, move,
         remove, eject, rename, deviceMethod, listStorageProviders
  <2> QED BY <2>1 DEF receive, TypeOK
<1>2. CASE ~ \E c \in Calls : LunaStep(c)
  BY <1>2, RequestsOnlyArrive
<1> QED BY <1>1, <1>2

LEMMA PdmCallsPreserved ==
  ASSUME IInv, PdmCallsKnown, [Next]_vars
  PROVE  PdmCallsKnown'
<1>1. \A c \in Calls : req[c] # None => req'[c] = req[c]
  BY RequestsStay DEF IInv
<1>2. SUFFICES ASSUME NEW c \in Calls, pdmCall'[c] \notin {"none", "lost"}
               PROVE  /\ req[c] # None /\ req[c].method \in {"GET_PROP", "EJECT"}
  BY <1>1 DEF PdmCallsKnown
<1>3. CASE pdmCall[c] \notin {"none", "lost"}
  BY <1>3 DEF PdmCallsKnown
<1>4. CASE pdmCall[c] \in {"none", "lost"}
  <2>1. pdmCall \in [Calls -> {"none", "writable", "space", "eject", "lost"}]
    BY DEF IInv, TypeOK
  <2>2. ~ \E d \in Calls : PdmStep(d)
    BY <1>2, <1>4, <2>1 DEF PdmStep, onGetPropertiesReply, onReply,
                            onListStoragesMethodReply, unparsableAnswer
  <2>3. pdmCall' # pdmCall
    BY <1>2, <1>4
  <2>4. getPropertiesMethod \/ ejectMethod
    <3> USE <2>2, <2>3 DEF Next, vars, pdmVars, LunaStep, handleExtraCommand, list, getProperties,
          copy, move, remove, eject, rename, deviceMethod, listStorageProviders,
          receive, QueueStep, waitForRequest,
          dispatchHandler, spuriousWakeup, HandlerStep, handleUnknown,
          handleRequests, CallbackStep, onListOfStoragesReply, buildNextRequest,
          answerListOfStorages, notify_one, UsbStep,
          usbListStorages, StageStep, internalListStorages,
          gdriveListStorages, networkListStorages, listStoragesStage, scanHangs
    <3> QED OBVIOUS
  <2>5. c = cur["USB"] /\ pc["USB"] = "running" /\ req[c].method \in {"GET_PROP", "EJECT"}
    BY <1>2, <1>4, <2>1, <2>4 DEF getPropertiesMethod, ejectMethod, inHandler
  <2>6. req[c] # None
    BY <2>5, NoneAssumption DEF IInv, ThreadsAdmitted, Threads, Providers, Admitted
  <2> QED BY <2>5, <2>6
<1> QED BY <1>3, <1>4

LEMMA InitCounts == Init => CountInv
<1> SUFFICES ASSUME Init PROVE CountInv
  OBVIOUS
<1>1. IdleHaveNone /\ PdmCallsKnown
  BY DEF Init, IdleHaveNone, PdmCallsKnown
<1>2. ASSUME NEW c \in Calls PROVE CountedFor(c)
  <2>1. queuedTimes(c) = 0
    <3>1. {{<<p, i>> : i \in {j \in DOMAIN mQueue[p] : mQueue[p][j] = c}}
              : p \in Providers} \subseteq {{}}
      BY DEF Init
    <3>2. UNION {{<<p, i>> : i \in {j \in DOMAIN mQueue[p] : mQueue[p][j] = c}}
              : p \in Providers} = {}
      BY <3>1
    <3> QED BY <3>2, FS_EmptySet DEF queuedTimes
  <2>2. handledTimes(c) = 0
    <3>1. {t \in Threads : cur[t] = c /\ pc[t] # "notifying"} = {}
      BY <1>2, NoneAssumption DEF Init
    <3> QED BY <3>1, FS_EmptySet DEF handledTimes
  <2>3. answersTo(c) = 0
    <3>1. {i \in DOMAIN sent : sent[i].call = c} = {}
      BY DEF Init
    <3> QED BY <3>1, FS_EmptySet DEF answersTo
  <2>4. pendingTimes(c) = 0 /\ later[c] = 0
    BY <2>1, <2>2 DEF Init, pendingTimes
  <2> QED BY <2>3, <2>4 DEF CountedFor
<1> QED BY <1>1, <1>2 DEF CountInv, Counted

LEMMA CountInvHolds == Spec => []CountInv
<1>1. IInv /\ IInv' /\ CountInv /\ [Next]_vars => CountInv'
  BY NextCounts, IdlePreserved, PdmCallsPreserved DEF CountInv, IInv
<1> QED BY <1>1, InitCounts, Admission, PTL DEF Spec

\* Nothing is carried out twice and nothing is answered while it is still
\* being worked on: over all queues, threads and PDM calls, what there is of a
\* message is paid for by the message itself, by a device list of PDM, or by
\* the double refusal of validateInterProviderOperation.
THEOREM NoDuplicates == Spec => []NothingDuplicated
<1>1. IInv /\ CountInv => NothingDuplicated
  <2> SUFFICES ASSUME IInv, CountInv, NEW c \in Calls
               PROVE  pendingTimes(c) + answersTo(c) <=
                        1 + later[c] + (IF req[c] # None /\ answeredTwice(req[c])
                                        THEN 1 ELSE 0)
    BY DEF NothingDuplicated
  <2>1. CountedFor(c) /\ TypeOK
    BY DEF CountInv, Counted, IInv
  <2>2. later[c] \in Nat
    BY <2>1 DEF TypeOK
  <2>3. pendingTimes(c) \in Nat /\ answersTo(c) \in Nat
    BY <2>1, Amounts
  <2> QED BY <2>1, <2>2, <2>3 DEF CountedFor
<1> QED BY <1>1, CountInvHolds, Admission, PTL

-----------------------------------------------------------------------------
(* The rounds of a listStorageProviders.                                   *)

\* A listing whose rounds PDM, or luck, keeps apart.
OneRound(c) == /\ req[c] # None /\ req[c].method = "LIST_STORAGES"
               /\ PdmWaits \/ later[c] = 0

\* The sections of the storages before this one are there.
SectionsSoFar(c) ==
  LET P == params[c]
  IN  /\ P.storageType \in StorageNames
      /\ P.storageType = "internal" => P.listStorageResponse = <<"usb">>
      /\ P.storageType = "cloud" => P.listStorageResponse = <<"usb", "internal">>
      /\ P.storageType = "network" =>
           P.listStorageResponse = <<"usb", "internal", "cloud">>

\* A queue or a dispatcher that has the call is that of the storage the shared
\* object names, and a stage that calls back has written its own section.
QueuedRight(c) ==
  \A p \in Providers : \A i \in DOMAIN mQueue[p] :
    mQueue[p][i] = c =>
      p = getStorageDeviceType(params[c].storageType) /\ SectionsSoFar(c)

HandledRight(c) ==
  \A t \in Threads : cur[t] = c =>
    /\ pc[t] \in {"running", "replying", "building"} => SectionsSoFar(c)
    /\ pc[t] = "running" => t = getStorageDeviceType(params[c].storageType)
    /\ pc[t] = "replying" => params[c].response = params[c].storageType

RoundInv == \A c \in Calls : OneRound(c) => QueuedRight(c) /\ HandledRight(c)

\* Where a message is counted, it is; where it is, it is counted.
LEMMA NotQueued ==
  ASSUME TypeOK, NEW c \in Calls, queuedTimes(c) = 0,
         NEW p \in Providers, NEW i \in DOMAIN mQueue[p]
  PROVE  mQueue[p][i] # c
<1>1. mQueue \in [Providers -> Seq(Calls)] /\ i \in Nat
  BY DEF TypeOK
<1>2. placesIn(mQueue, c) = {}
  <2>1. queuedTimes(c) = Cardinality(placesIn(mQueue, c)) /\ IsFiniteSet(placesIn(mQueue, c))
    BY <1>1, QueuedCount, QueuedFinite DEF queuedTimes
  <2> QED BY <2>1, FS_EmptySet
<1>3. mQueue[p][i] = c => <<p, i>> \in placesIn(mQueue, c)
  <2>1. <<p, i>> \in Providers \X Nat
    BY <1>1
  <2>2. <<p, i>>[1] = p /\ <<p, i>>[2] = i
    OBVIOUS
  <2> QED BY <2>1, <2>2 DEF placesIn
<1> QED BY <1>2, <1>3

LEMMA NotHandled ==
  ASSUME NEW c, handledTimes(c) = 0, NEW t \in Threads, cur[t] = c
  PROVE  pc[t] = "notifying"
<1>1. handledTimes(c) = Cardinality(handlersIn(cur, pc, c)) /\ IsFiniteSet(handlersIn(cur, pc, c))
  BY HandledFinite DEF handledTimes, handlersIn
<1>2. handlersIn(cur, pc, c) = {}
  BY <1>1, FS_EmptySet
<1> QED BY <1>2 DEF handlersIn

LEMMA HandledByOne ==
  ASSUME NEW c, handledTimes(c) <= 1, NEW t \in Threads, cur[t] = c, pc[t] # "notifying"
  PROVE  /\ handledTimes(c) = 1
         /\ \A s \in Threads \ {t} : cur[s] = c => pc[s] = "notifying"
<1> DEFINE H == handlersIn(cur, pc, c)
<1>1. handledTimes(c) = Cardinality(H) /\ IsFiniteSet(H) /\ Cardinality(H) \in Nat
  BY HandledFinite DEF handledTimes, handlersIn
<1>2. t \in H
  BY DEF handlersIn
<1> HIDE DEF H
<1>3. Cardinality(H) # 0
  BY <1>1, <1>2, FS_EmptySet
<1>4. Cardinality(H) = 1
  BY <1>1, <1>3
<1>5. \E x : H = {x}
  BY <1>1, <1>4, FS_Singleton
<1>6. H = {t}
  BY <1>2, <1>5
<1> QED BY <1>1, <1>4, <1>6 DEF H, handlersIn

\* A call that a thread handles is nowhere else.
LEMMA HeldHereOnly ==
  ASSUME IInv, CountInv, NEW t \in Threads, NEW c \in Calls, OneRound(c),
         cur[t] = c, pc[t] # "notifying"
  PROVE  /\ \A p \in Providers : \A i \in DOMAIN mQueue[p] : mQueue[p][i] # c
         /\ \A s \in Threads \ {t} : cur[s] = c => pc[s] = "notifying"
<1>1. TypeOK /\ pendingTimes(c) <= 1
  BY DEF IInv, CountInv, Counted, CountedFor, OneRound
<1>2. /\ queuedTimes(c) \in Nat /\ handledTimes(c) \in Nat /\ fresh[c] \in Nat
  BY <1>1, Amounts DEF TypeOK
<1>3. queuedTimes(c) + handledTimes(c) <= 1
  BY <1>1, <1>2 DEF pendingTimes
<1>4. handledTimes(c) <= 1
  BY <1>2, <1>3
<1>5. handledTimes(c) = 1 /\ \A s \in Threads \ {t} : cur[s] = c => pc[s] = "notifying"
  BY <1>4, HandledByOne
<1>6. queuedTimes(c) = 0
  BY <1>2, <1>3, <1>5
<1> QED BY <1>1, <1>5, <1>6, NotQueued

\* A call that PDM has yet to report on, or that is over, is nowhere.
LEMMA Nowhere ==
  ASSUME TypeOK, NEW c \in Calls,
         pendingTimes(c) = 0 \/ (pendingTimes(c) <= 1 /\ fresh[c] > 0)
  PROVE  /\ \A p \in Providers : \A i \in DOMAIN mQueue[p] : mQueue[p][i] # c
         /\ \A s \in Threads : cur[s] = c => pc[s] = "notifying"
<1>1. queuedTimes(c) \in Nat /\ handledTimes(c) \in Nat /\ fresh[c] \in Nat
  BY Amounts DEF TypeOK
<1>2. pendingTimes(c) \in Nat
      /\ queuedTimes(c) + handledTimes(c) + fresh[c] <= pendingTimes(c)
  <2>1. CASE pdmCall[c] \in {"none", "lost"}
    BY <1>1, <2>1 DEF pendingTimes
  <2>2. CASE pdmCall[c] \notin {"none", "lost"}
    BY <1>1, <2>2 DEF pendingTimes
  <2> QED BY <2>1, <2>2
<1>3. queuedTimes(c) = 0 /\ handledTimes(c) = 0
  BY <1>1, <1>2
<1> QED BY <1>3, NotQueued, NotHandled

\* A step that neither brings a call to a new place nor touches its object.
LEMMA RoundStays ==
  ASSUME NEW c \in Calls, QueuedRight(c), HandledRight(c), params'[c] = params[c],
         \A p \in Providers : \A i \in DOMAIN mQueue'[p] :
           mQueue'[p][i] = c => \E j \in DOMAIN mQueue[p] : mQueue[p][j] = c,
         \A t \in Threads :
           cur'[t] = c /\ pc'[t] \in {"running", "replying", "building"} =>
             cur[t] = c /\ pc[t] = pc'[t]
  PROVE  QueuedRight(c)' /\ HandledRight(c)'
<1>1. SectionsSoFar(c)' <=> SectionsSoFar(c)
  BY DEF SectionsSoFar
<1>2. QueuedRight(c)'
  BY <1>1 DEF QueuedRight
<1>3. HandledRight(c)'
  BY <1>1 DEF HandledRight
<1> QED BY <1>2, <1>3

\* A step that leaves a call nowhere but with a thread that is not before its
\* queue any more.
LEMMA RoundRestarts ==
  ASSUME NEW c \in Calls, NEW t \in Threads,
         \A p \in Providers : \A i \in DOMAIN mQueue'[p] : mQueue'[p][i] # c,
         \A s \in Threads \ {t} :
           cur'[s] = c => pc'[s] \notin {"running", "replying", "building"},
         cur'[t] = c => /\ SectionsSoFar(c)'
                        /\ pc'[t] # "running"
                        /\ pc'[t] = "replying" =>
                             params'[c].response = params'[c].storageType
  PROVE  QueuedRight(c)' /\ HandledRight(c)'
<1>1. QueuedRight(c)'
  BY DEF QueuedRight
<1>2. HandledRight(c)'
  BY DEF HandledRight
<1> QED BY <1>1, <1>2

\* PDM's later lists only ever grow in number.
LEMMA LaterGrows ==
  ASSUME TypeOK, [Next]_vars
  PROVE  \A c \in Calls : later'[c] = 0 => later[c] = 0
<1>1. ASSUME NEW c \in Calls, onListStoragesMethodReply(c)
      PROVE  \A d \in Calls : later'[d] = 0 => later[d] = 0
  <2>1. later \in [Calls -> Nat]
    BY DEF TypeOK
  <2>2. later' = later \/ later' = [later EXCEPT ![c] = @ + 1]
    BY <1>1 DEF onListStoragesMethodReply
  <2> QED BY <2>1, <2>2
<1>2. CASE ~ \E c \in Calls : onListStoragesMethodReply(c)
  <2>1. later' = later
    <3> USE <1>2 DEF Next, vars, pdmVars, LunaStep, handleExtraCommand, list,
          getProperties, copy, move, remove, eject, rename, deviceMethod,
          listStorageProviders, receive, PdmStep, onGetPropertiesReply, onReply,
          unparsableAnswer, QueueStep, waitForRequest,
          dispatchHandler, spuriousWakeup, HandlerStep, handleUnknown,
          handleRequests, CallbackStep, onListOfStoragesReply, buildNextRequest,
          answerListOfStorages, notify_one, UsbStep, getPropertiesMethod,
          ejectMethod, usbListStorages, StageStep, internalListStorages,
          gdriveListStorages, networkListStorages, listStoragesStage, scanHangs
    <3> QED OBVIOUS
  <2> QED BY <2>1
<1> QED BY <1>1, <1>2

LEMMA OneRoundStays ==
  ASSUME TypeOK, [Next]_vars, NEW c \in Calls, OneRound(c)', req[c] # None
  PROVE  OneRound(c)
BY RequestsStay, LaterGrows DEF OneRound

\* The messages whose rounds a step touches: the others' rounds stay.
LEMMA PassiveRounds ==
  ASSUME RoundInv, NEW c \in Calls, OneRound(c),
         UNCHANGED <<mQueue, params>>,
         \A t \in Threads :
           cur'[t] = c /\ pc'[t] \in {"running", "replying", "building"} =>
             cur[t] = c /\ pc[t] = pc'[t]
  PROVE  QueuedRight(c)' /\ HandledRight(c)'
<1>1. QueuedRight(c) /\ HandledRight(c)
  BY DEF RoundInv
<1> QED BY <1>1, RoundStays

LEMMA NotifyRounds ==
  ASSUME IInv, RoundInv, NEW t \in Threads, notify_one(t), NEW c \in Calls, OneRound(c)
  PROVE  QueuedRight(c)' /\ HandledRight(c)'
<1>1. \A s \in Threads :
        cur'[s] = c /\ pc'[s] \in {"running", "replying", "building"} =>
          cur[s] = c /\ pc[s] = pc'[s]
  BY DEF notify_one, IInv, TypeOK
<1> QED BY <1>1, PassiveRounds DEF notify_one

LEMMA WaitRounds ==
  ASSUME IInv, RoundInv, NEW p \in Providers, waitForRequest(p) \/ spuriousWakeup(p),
         NEW c \in Calls, OneRound(c)
  PROVE  QueuedRight(c)' /\ HandledRight(c)'
<1>1. \A s \in Threads :
        cur'[s] = c /\ pc'[s] \in {"running", "replying", "building"} =>
          cur[s] = c /\ pc[s] = pc'[s]
  BY DEF waitForRequest, spuriousWakeup, IInv, TypeOK
<1> QED BY <1>1, PassiveRounds DEF waitForRequest, spuriousWakeup, queueVars

LEMMA LeaveRounds ==
  ASSUME IInv, RoundInv, NEW p \in Providers, leaveHandler(p),
         UNCHANGED <<mQueue, params>>, NEW c \in Calls, OneRound(c)
  PROVE  QueuedRight(c)' /\ HandledRight(c)'
<1>1. \A s \in Threads :
        cur'[s] = c /\ pc'[s] \in {"running", "replying", "building"} =>
          cur[s] = c /\ pc[s] = pc'[s]
  BY DEF leaveHandler, IInv, TypeOK
<1> QED BY <1>1, PassiveRounds

LEMMA HangRounds ==
  ASSUME IInv, RoundInv, scanHangs, NEW c \in Calls, OneRound(c)
  PROVE  QueuedRight(c)' /\ HandledRight(c)'
<1>1. \A s \in Threads :
        cur'[s] = c /\ pc'[s] \in {"running", "replying", "building"} =>
          cur[s] = c /\ pc[s] = pc'[s]
  BY DEF scanHangs, IInv, TypeOK
<1> QED BY <1>1, PassiveRounds DEF scanHangs, queueVars

LEMMA PdmRounds ==
  ASSUME IInv, RoundInv, NEW c \in Calls, OneRound(c), NEW d \in Calls,
         onGetPropertiesReply(d) \/ onReply(d) \/ unparsableAnswer(d)
  PROVE  QueuedRight(c)' /\ HandledRight(c)'
BY PassiveRounds DEF onGetPropertiesReply, onReply, unparsableAnswer, queueVars

LEMMA DispatchRounds ==
  ASSUME IInv, RoundInv, NEW p \in Providers, dispatchHandler(p),
         NEW c \in Calls, OneRound(c)
  PROVE  QueuedRight(c)' /\ HandledRight(c)'
<1>1. QueuedRight(c) /\ HandledRight(c)
  BY DEF RoundInv
<1>2. /\ mQueue[p] \in Seq(Calls) /\ mQueue[p] # <<>> /\ p \in Threads
      /\ mQueue' = [mQueue EXCEPT ![p] = Tail(@)] /\ params' = params
      /\ cur' = [cur EXCEPT ![p] = Head(mQueue[p])]
      /\ pc' = [pc EXCEPT ![p] = "running"]
      /\ mQueue \in [Providers -> Seq(Calls)]
      /\ pc \in [Threads -> ThreadStates] /\ cur \in [Threads -> Calls \cup {None}]
  BY DEF dispatchHandler, IInv, TypeOK, Threads
<1>3. SectionsSoFar(c)' <=> SectionsSoFar(c)
  BY <1>2 DEF SectionsSoFar
<1>4. QueuedRight(c)'
  <2> SUFFICES ASSUME NEW q \in Providers, NEW i \in DOMAIN mQueue'[q], mQueue'[q][i] = c
               PROVE  \E j \in DOMAIN mQueue[q] : mQueue[q][j] = c
    BY <1>1, <1>2, <1>3 DEF QueuedRight
  <2>1. CASE q # p
    BY <1>2, <2>1
  <2>2. CASE q = p
    <3>1. mQueue'[p] = Tail(mQueue[p])
      BY <1>2
    <3>2. /\ Len(Tail(mQueue[p])) = Len(mQueue[p]) - 1
          /\ i \in 1..(Len(mQueue[p]) - 1) /\ mQueue'[p][i] = mQueue[p][i + 1]
      BY <1>2, <2>2, <3>1, HeadTailProperties
    <3>3. i + 1 \in DOMAIN mQueue[p]
      BY <1>2, <3>2
    <3> QED BY <2>2, <3>2, <3>3
  <2> QED BY <2>1, <2>2
<1>5. HandledRight(c)'
  <2> SUFFICES ASSUME NEW t \in Threads, cur'[t] = c
               PROVE  /\ pc'[t] \in {"running", "replying", "building"} => SectionsSoFar(c)
                      /\ pc'[t] = "running" =>
                           t = getStorageDeviceType(params[c].storageType)
                      /\ pc'[t] = "replying" =>
                           params[c].response = params[c].storageType
    BY <1>2, <1>3 DEF HandledRight
  <2>1. CASE t # p
    BY <1>1, <1>2, <2>1 DEF HandledRight
  <2>2. CASE t = p
    <3>1. 1 \in DOMAIN mQueue[p] /\ mQueue[p][1] = c
      BY <1>2, <2>2, EmptySeq
    <3>2. p = getStorageDeviceType(params[c].storageType) /\ SectionsSoFar(c)
      BY <1>1, <3>1 DEF QueuedRight
    <3>3. pc'[t] = "running"
      BY <1>2, <2>2
    <3> QED BY <2>2, <3>2, <3>3
  <2> QED BY <2>1, <2>2
<1> QED BY <1>4, <1>5

LEMMA StageRounds ==
  ASSUME IInv, CountInv, RoundInv, NEW p \in Providers, NEW section \in StorageNames,
         p = getStorageDeviceType(section), listStoragesStage(p, section),
         NEW c \in Calls, OneRound(c)
  PROVE  QueuedRight(c)' /\ HandledRight(c)'
<1>1. QueuedRight(c) /\ HandledRight(c)
  BY DEF RoundInv
<1>2. /\ pc[p] = "running" /\ p \in Threads /\ cur[p] \in Calls
      /\ pc' = [pc EXCEPT ![p] = "replying"] /\ cur' = cur /\ mQueue' = mQueue
      /\ params' = [params EXCEPT ![cur[p]].response = section]
  BY DEF listStoragesStage, inHandler, queueVars, IInv, TypeOK, Threads,
         ThreadsAdmitted, Admitted
<1>3. pc \in [Threads -> ThreadStates] /\ params \in [Calls -> ParamsType]
  BY DEF IInv, TypeOK
<1>4. CASE cur[p] = c
  <2>1. /\ \A q \in Providers : \A i \in DOMAIN mQueue[q] : mQueue[q][i] # c
        /\ \A s \in Threads \ {p} : cur[s] = c => pc[s] = "notifying"
    BY <1>2, <1>4, HeldHereOnly
  <2>2. SectionsSoFar(c) /\ p = getStorageDeviceType(params[c].storageType)
    BY <1>1, <1>2, <1>4 DEF HandledRight
  <2>3. params[c].storageType = section
    BY <2>2 DEF SectionsSoFar, StorageNames, getStorageDeviceType
  <2>4. /\ params'[c].storageType = params[c].storageType
        /\ params'[c].listStorageResponse = params[c].listStorageResponse
        /\ params'[c].response = section
    BY <1>2, <1>3, <1>4 DEF ParamsType
  <2>5. SectionsSoFar(c)'
    BY <2>2, <2>4 DEF SectionsSoFar
  <2>6. \A s \in Threads \ {p} :
          cur'[s] = c => pc'[s] \notin {"running", "replying", "building"}
    BY <1>2, <1>3, <2>1
  <2>7. pc'[p] = "replying"
    BY <1>2, <1>3
  <2> QED BY <1>2, <2>1, <2>3, <2>4, <2>5, <2>6, <2>7, RoundRestarts
<1>5. CASE cur[p] # c
  <2>1. params'[c] = params[c]
    BY <1>2, <1>3, <1>5
  <2>2. \A t \in Threads :
          cur'[t] = c /\ pc'[t] \in {"running", "replying", "building"} =>
            cur[t] = c /\ pc[t] = pc'[t]
    BY <1>2, <1>3, <1>5
  <2> QED BY <1>1, <1>2, <2>1, <2>2, RoundStays
<1> QED BY <1>4, <1>5

LEMMA DeviceListRounds ==
  ASSUME IInv, CountInv, RoundInv, NEW d \in Calls, onListStoragesMethodReply(d),
         NEW c \in Calls, OneRound(c), OneRound(c)'
  PROVE  QueuedRight(c)' /\ HandledRight(c)'
<1>1. QueuedRight(c) /\ HandledRight(c)
  BY DEF RoundInv
<1>2. /\ pc[Main] = "ready" /\ Main \in Threads
      /\ pc' = [pc EXCEPT ![Main] = "replying"]
      /\ cur' = [cur EXCEPT ![Main] = d] /\ mQueue' = mQueue
      /\ params' = [params EXCEPT ![d].response = "usb", ![d].storageType = "usb"]
  BY DEF onListStoragesMethodReply, queueVars, Threads
<1>3. /\ pc \in [Threads -> ThreadStates] /\ cur \in [Threads -> Calls \cup {None}]
      /\ params \in [Calls -> ParamsType] /\ TypeOK
  BY DEF IInv, TypeOK
<1>4. CASE d = c
  <2>1. pendingTimes(c) = 0 \/ (pendingTimes(c) <= 1 /\ fresh[c] > 0)
    <3>1. CASE fresh[c] > 0
      <4>1. pendingTimes(c) <= 1
        BY DEF CountInv, Counted, CountedFor, OneRound
      <4> QED BY <3>1, <4>1
    <3>2. CASE later[c] < MaxLater /\ (PdmWaits => pendingTimes(c) = 0)
               /\ later' = [later EXCEPT ![c] = @ + 1]
      <4>1. later'[c] # 0
        BY <1>3, <3>2 DEF TypeOK
      <4>2. PdmWaits
        BY <4>1 DEF OneRound
      <4> QED BY <3>2, <4>2
    <3> QED BY <1>4, <3>1, <3>2 DEF onListStoragesMethodReply
  <2>2. /\ \A q \in Providers : \A i \in DOMAIN mQueue[q] : mQueue[q][i] # c
        /\ \A s \in Threads : cur[s] = c => pc[s] = "notifying"
    BY <1>3, <2>1, Nowhere
  <2>3. params'[c].storageType = "usb" /\ params'[c].response = "usb"
    BY <1>2, <1>3, <1>4 DEF ParamsType
  <2>4. SectionsSoFar(c)'
    BY <2>3 DEF SectionsSoFar, StorageNames
  <2>5. \A s \in Threads \ {Main} :
          cur'[s] = c => pc'[s] \notin {"running", "replying", "building"}
    BY <1>2, <1>3, <2>2
  <2>6. pc'[Main] = "replying"
    BY <1>2, <1>3
  <2> QED BY <1>2, <2>2, <2>3, <2>4, <2>5, <2>6, RoundRestarts
<1>5. CASE d # c
  <2>1. params'[c] = params[c]
    BY <1>2, <1>3, <1>5
  <2>2. \A t \in Threads :
          cur'[t] = c /\ pc'[t] \in {"running", "replying", "building"} =>
            cur[t] = c /\ pc[t] = pc'[t]
    BY <1>2, <1>3, <1>5
  <2> QED BY <1>1, <1>2, <2>1, <2>2, RoundStays
<1> QED BY <1>4, <1>5

\* What Append makes of a short list.
LEMMA AppendToOne ==
  ASSUME NEW a, NEW b
  PROVE  Append(<<a>>, b) = <<a, b>>
<1> DEFINE S == {a, b}
           L == Append(<<a>>, b)
<1>1. L \in Seq(S) /\ Len(L) = 2 /\ <<a, b>> \in Seq(S) /\ Len(<<a, b>>) = 2
  OBVIOUS
<1>2. L[1] = a /\ L[2] = b
  OBVIOUS
<1>3. \A i \in 1..2 : i = 1 \/ i = 2
  OBVIOUS
<1>4. \A i \in 1..2 : L[i] = <<a, b>>[i]
  BY <1>2, <1>3
<1> HIDE DEF S, L
<1>5. L = <<a, b>>
  BY <1>1, <1>4, SeqEqual
<1> QED BY <1>5 DEF L

LEMMA AppendToTwo ==
  ASSUME NEW a, NEW b, NEW c
  PROVE  Append(<<a, b>>, c) = <<a, b, c>>
<1> DEFINE S == {a, b, c}
           L == Append(<<a, b>>, c)
<1>1. L \in Seq(S) /\ Len(L) = 3 /\ <<a, b, c>> \in Seq(S) /\ Len(<<a, b, c>>) = 3
  OBVIOUS
<1>2. L[1] = a /\ L[2] = b /\ L[3] = c
  OBVIOUS
<1>3. \A i \in 1..3 : i = 1 \/ i = 2 \/ i = 3
  OBVIOUS
<1>4. \A i \in 1..3 : L[i] = <<a, b, c>>[i]
  BY <1>2, <1>3
<1> HIDE DEF S, L
<1>5. L = <<a, b, c>>
  BY <1>1, <1>4, SeqEqual
<1> QED BY <1>5 DEF L

LEMMA AppendToThree ==
  ASSUME NEW a, NEW b, NEW c, NEW d
  PROVE  Append(<<a, b, c>>, d) = <<a, b, c, d>>
<1> DEFINE S == {a, b, c, d}
           L == Append(<<a, b, c>>, d)
<1>1. L \in Seq(S) /\ Len(L) = 4 /\ <<a, b, c, d>> \in Seq(S) /\ Len(<<a, b, c, d>>) = 4
  OBVIOUS
<1>2. L[1] = a /\ L[2] = b /\ L[3] = c /\ L[4] = d
  OBVIOUS
<1>3. \A i \in 1..4 : i = 1 \/ i = 2 \/ i = 3 \/ i = 4
  OBVIOUS
<1>4. \A i \in 1..4 : L[i] = <<a, b, c, d>>[i]
  BY <1>2, <1>3
<1> HIDE DEF S, L
<1>5. L = <<a, b, c, d>>
  BY <1>1, <1>4, SeqEqual
<1> QED BY <1>5 DEF L

LEMMA NextStageRounds ==
  ASSUME IInv, CountInv, RoundInv, NEW t \in Threads, onListOfStoragesReply(t),
         NEW c \in Calls, OneRound(c)
  PROVE  QueuedRight(c)' /\ HandledRight(c)'
<1> DEFINE P == params[cur[t]]
<1>1. QueuedRight(c) /\ HandledRight(c)
  BY DEF RoundInv
<1>2. /\ pc[t] = "replying" /\ cur[t] \in Calls /\ P.storageType # "network"
      /\ pc' = [pc EXCEPT ![t] = "building"] /\ cur' = cur /\ mQueue' = mQueue
      /\ params' = [params EXCEPT
            ![cur[t]].storageType = nextStage(P.storageType),
            ![cur[t]].listStorageResponse =
               IF P.storageType = "usb" THEN <<P.response>>
               ELSE Append(@, P.response)]
  BY DEF onListOfStoragesReply, queueVars, IInv, ThreadsAdmitted, Listings, Admitted
<1>3. pc \in [Threads -> ThreadStates] /\ params \in [Calls -> ParamsType]
  BY DEF IInv, TypeOK
<1>4. CASE cur[t] = c
  <2>1. /\ \A q \in Providers : \A i \in DOMAIN mQueue[q] : mQueue[q][i] # c
        /\ \A s \in Threads \ {t} : cur[s] = c => pc[s] = "notifying"
    BY <1>2, <1>4, HeldHereOnly
  <2>2. SectionsSoFar(c) /\ P.response = P.storageType
    BY <1>1, <1>2, <1>4 DEF HandledRight
  <2>3. /\ params'[c].storageType = nextStage(P.storageType)
        /\ params'[c].listStorageResponse =
             IF P.storageType = "usb" THEN <<P.response>>
             ELSE Append(P.listStorageResponse, P.response)
    BY <1>2, <1>3, <1>4 DEF ParamsType
  <2>4. SectionsSoFar(c)'
    <3>1. P.storageType \in {"usb", "internal", "cloud"}
      BY <1>2, <1>4, <2>2 DEF SectionsSoFar, StorageNames
    <3>2. CASE P.storageType = "usb"
      <4>1. params'[c].storageType = "internal" /\ params'[c].listStorageResponse = <<"usb">>
        BY <2>2, <2>3, <3>2 DEF nextStage
      <4> QED BY <4>1 DEF SectionsSoFar, StorageNames
    <3>3. CASE P.storageType = "internal"
      <4>1. P.listStorageResponse = <<"usb">>
        BY <1>4, <2>2, <3>3 DEF SectionsSoFar
      <4>2. params'[c].storageType = "cloud"
        BY <2>3, <3>3 DEF nextStage
      <4>3. params'[c].listStorageResponse = Append(<<"usb">>, "internal")
        BY <2>2, <2>3, <3>3, <4>1
      <4>4. Append(<<"usb">>, "internal") = <<"usb", "internal">>
        BY AppendToOne
      <4> QED BY <4>2, <4>3, <4>4 DEF SectionsSoFar, StorageNames
    <3>4. CASE P.storageType = "cloud"
      <4>1. P.listStorageResponse = <<"usb", "internal">>
        BY <1>4, <2>2, <3>4 DEF SectionsSoFar
      <4>2. params'[c].storageType = "network"
        BY <2>3, <3>4 DEF nextStage
      <4>3. params'[c].listStorageResponse = Append(<<"usb", "internal">>, "cloud")
        BY <2>2, <2>3, <3>4, <4>1
      <4>4. Append(<<"usb", "internal">>, "cloud") = <<"usb", "internal", "cloud">>
        BY AppendToTwo
      <4> QED BY <4>2, <4>3, <4>4 DEF SectionsSoFar, StorageNames
    <3> QED BY <3>1, <3>2, <3>3, <3>4
  <2>5. \A s \in Threads \ {t} :
          cur'[s] = c => pc'[s] \notin {"running", "replying", "building"}
    BY <1>2, <1>3, <2>1
  <2>6. pc'[t] = "building"
    BY <1>2, <1>3
  <2> QED BY <1>2, <2>1, <2>4, <2>5, <2>6, RoundRestarts
<1>5. CASE cur[t] # c
  <2>1. params'[c] = params[c]
    BY <1>2, <1>3, <1>5
  <2>2. \A s \in Threads :
          cur'[s] = c /\ pc'[s] \in {"running", "replying", "building"} =>
            cur[s] = c /\ pc[s] = pc'[s]
    BY <1>2, <1>3, <1>5
  <2> QED BY <1>1, <1>2, <2>1, <2>2, RoundStays
<1> QED BY <1>4, <1>5

\* Where a call is found after a push.
LEMMA FoundAfterPush ==
  ASSUME IInv, NEW g \in Providers, NEW d \in Calls, NEW c \in Calls,
         mQueue' = [mQueue EXCEPT ![g] = Append(@, d)],
         NEW p \in Providers, NEW i \in DOMAIN mQueue'[p], mQueue'[p][i] = c
  PROVE  \/ p = g /\ d = c
         \/ \E j \in DOMAIN mQueue[p] : mQueue[p][j] = c
<1>1. mQueue \in [Providers -> Seq(Calls)]
  BY DEF IInv, TypeOK
<1>2. CASE p # g
  BY <1>1, <1>2
<1>3. CASE p = g
  <2>1. mQueue'[g] = Append(mQueue[g], d) /\ mQueue[g] \in Seq(Calls)
    BY <1>1
  <2>2. /\ i \in 1..(Len(mQueue[g]) + 1)
        /\ \/ i \in 1..Len(mQueue[g]) /\ mQueue'[g][i] = mQueue[g][i]
           \/ i = Len(mQueue[g]) + 1 /\ mQueue'[g][i] = d
    BY <1>3, <2>1
  <2>3. CASE i \in 1..Len(mQueue[g]) /\ mQueue'[g][i] = mQueue[g][i]
    BY <1>3, <2>1, <2>3
  <2>4. CASE i = Len(mQueue[g]) + 1 /\ mQueue'[g][i] = d
    BY <1>3, <2>4
  <2> QED BY <2>2, <2>3, <2>4
<1> QED BY <1>2, <1>3

LEMMA BuildRounds ==
  ASSUME IInv, CountInv, RoundInv, NEW t \in Threads, buildNextRequest(t),
         NEW c \in Calls, OneRound(c)
  PROVE  QueuedRight(c)' /\ HandledRight(c)'
<1> DEFINE g == getStorageDeviceType(params[cur[t]].storageType)
<1>1. QueuedRight(c) /\ HandledRight(c)
  BY DEF RoundInv
<1>2. /\ pc[t] = "building" /\ cur[t] \in Calls /\ cur[t] \in Admitted
      /\ params[cur[t]].storageType \in StorageNames
      /\ pc' = [pc EXCEPT ![t] = "notifying"] /\ cur' = cur /\ params' = params
      /\ mQueue' = [mQueue EXCEPT ![g] = Append(@, cur[t])]
  BY DEF buildNextRequest, addRequest, IInv, ThreadsAdmitted, Listings, Admitted
<1>3. pc \in [Threads -> ThreadStates] /\ mQueue \in [Providers -> Seq(Calls)]
  BY DEF IInv, TypeOK
<1>4. g \in Providers
  BY <1>2 DEF getStorageDeviceType, StorageNames, Providers
<1>5. \A s \in Threads :
        cur'[s] = c /\ pc'[s] \in {"running", "replying", "building"} =>
          cur[s] = c /\ pc[s] = pc'[s]
  BY <1>2, <1>3
<1> HIDE DEF g
<1>6. \A p \in Providers : \A i \in DOMAIN mQueue'[p] :
        mQueue'[p][i] = c =>
          (p = g /\ cur[t] = c) \/ \E j \in DOMAIN mQueue[p] : mQueue[p][j] = c
  BY <1>2, <1>4, FoundAfterPush
<1>7. CASE cur[t] = c
  <2>1. SectionsSoFar(c) /\ g = getStorageDeviceType(params[c].storageType)
    BY <1>1, <1>2, <1>7 DEF HandledRight, g
  <2>2. /\ SectionsSoFar(c)' <=> SectionsSoFar(c)
        /\ params'[c] = params[c]
    BY <1>2 DEF SectionsSoFar
  <2>3. QueuedRight(c)'
    BY <1>1, <1>6, <2>1, <2>2 DEF QueuedRight
  <2>4. HandledRight(c)'
    BY <1>1, <1>5, <2>2 DEF HandledRight
  <2> QED BY <2>3, <2>4
<1>8. CASE cur[t] # c
  BY <1>1, <1>2, <1>5, <1>6, <1>8, RoundStays
<1> QED BY <1>7, <1>8

LEMMA ListAnswerRounds ==
  ASSUME IInv, CountInv, RoundInv, NEW t \in Threads, answerListOfStorages(t),
         NEW c \in Calls, OneRound(c)
  PROVE  QueuedRight(c)' /\ HandledRight(c)'
<1>1. QueuedRight(c) /\ HandledRight(c)
  BY DEF RoundInv
<1> DEFINE sections == Append(params[cur[t]].listStorageResponse, params[cur[t]].response)
<1>2. /\ pc[t] = "replying" /\ cur[t] \in Calls
      /\ pc' = [pc EXCEPT ![t] = "ready"] /\ cur' = [cur EXCEPT ![t] = None]
      /\ params' = [params EXCEPT ![cur[t]].listStorageResponse = sections]
      /\ mQueue' = mQueue
  BY DEF answerListOfStorages, queueVars, IInv, ThreadsAdmitted, Listings, Admitted
<1>3. /\ pc \in [Threads -> ThreadStates] /\ params \in [Calls -> ParamsType]
      /\ cur \in [Threads -> Calls \cup {None}]
  BY DEF IInv, TypeOK
<1> HIDE DEF sections
<1>4. CASE cur[t] = c
  <2>1. /\ \A q \in Providers : \A i \in DOMAIN mQueue[q] : mQueue[q][i] # c
        /\ \A s \in Threads \ {t} : cur[s] = c => pc[s] = "notifying"
    BY <1>2, <1>4, HeldHereOnly
  <2>2. \A s \in Threads \ {t} :
          cur'[s] = c => pc'[s] \notin {"running", "replying", "building"}
    BY <1>2, <1>3, <2>1
  <2>3. cur'[t] # c
    BY <1>2, <1>3, NoneAssumption
  <2> QED BY <1>2, <2>1, <2>2, <2>3, RoundRestarts
<1>5. CASE cur[t] # c
  <2>1. params'[c] = params[c]
    BY <1>2, <1>3, <1>5
  <2>2. \A s \in Threads :
          cur'[s] = c /\ pc'[s] \in {"running", "replying", "building"} =>
            cur[s] = c /\ pc[s] = pc'[s]
    BY <1>2, <1>3, <1>5
  <2> QED BY <1>1, <1>2, <2>1, <2>2, RoundStays
<1> QED BY <1>4, <1>5

\* A message that arrives does not touch the rounds of the others.
LEMMA OthersRounds ==
  ASSUME IInv, CountInv, RoundInv, NEW d \in Calls, NEW r, receive(d, r),
         UNCHANGED mQueue \/ \E p \in Providers : addRequest(Main, p, d),
         pc' = pc \/ pc' = [pc EXCEPT ![Main] = "notifying"],
         NEW c \in Calls, c # d, params'[c] = params[c], OneRound(c)'
  PROVE  QueuedRight(c)' /\ HandledRight(c)'
<1>1. /\ req'[c] = req[c] /\ later' = later /\ cur' = cur
  BY DEF receive, IInv, TypeOK, pdmVars
<1>2. OneRound(c)
  BY <1>1 DEF OneRound
<1>3. QueuedRight(c) /\ HandledRight(c)
  BY <1>2 DEF RoundInv
<1>4. \A p \in Providers : \A i \in DOMAIN mQueue'[p] :
        mQueue'[p][i] = c => \E j \in DOMAIN mQueue[p] : mQueue[p][j] = c
  <2>1. CASE UNCHANGED mQueue
    BY <2>1
  <2>2. CASE \E p \in Providers : addRequest(Main, p, d)
    BY <2>2, FoundAfterPush DEF addRequest
  <2> QED BY <2>1, <2>2
<1>5. \A t \in Threads :
        cur'[t] = c /\ pc'[t] \in {"running", "replying", "building"} =>
          cur[t] = c /\ pc[t] = pc'[t]
  BY <1>1 DEF IInv, TypeOK
<1> QED BY <1>3, <1>4, <1>5, RoundStays

LEMMA DeviceMethodRounds ==
  ASSUME IInv, CountInv, RoundInv, NEW d \in Calls, NEW m, m # "LIST_STORAGES",
         deviceMethod(d, m), NEW c \in Calls, OneRound(c)'
  PROVE  QueuedRight(c)' /\ HandledRight(c)'
<1>1. PICK r \in Requests :
        /\ r.method = m /\ receive(d, r) /\ UNCHANGED params
        /\ \/ UNCHANGED <<queueVars, pc>>
           \/ rejectionOf(r) = "none" /\ addRequest(Main, routeOf(r), d)
  BY DEF deviceMethod
<1>2. c # d
  BY <1>1 DEF receive, OneRound, IInv, TypeOK
<1>3. UNCHANGED mQueue \/ \E p \in Providers : addRequest(Main, p, d)
  BY <1>1, RequestsAssumption, RouteIsProvider DEF queueVars
<1>4. pc' = pc \/ pc' = [pc EXCEPT ![Main] = "notifying"]
  BY <1>1 DEF addRequest
<1> QED BY <1>1, <1>2, <1>3, <1>4, OthersRounds

LEMMA ListStorageProvidersRounds ==
  ASSUME IInv, IInv', CountInv, RoundInv, NEW d \in Calls, listStorageProviders(d),
         NEW c \in Calls, OneRound(c)'
  PROVE  QueuedRight(c)' /\ HandledRight(c)'
<1>1. PICK r \in Requests :
        /\ receive(d, r)
        /\ \/ UNCHANGED <<queueVars, pc, params>>
           \/ /\ params' = [params EXCEPT ![d].storageType = "usb"]
              /\ addRequest(Main, "USB", d)
  BY DEF listStorageProviders
<1>2. "USB" \in Providers /\ Main \in Threads
  BY DEF Providers, Threads
<1>3. /\ cur' = cur /\ (pc' = pc \/ pc' = [pc EXCEPT ![Main] = "notifying"])
      /\ UNCHANGED mQueue \/ \E p \in Providers : addRequest(Main, p, d)
  BY <1>1, <1>2 DEF receive, addRequest, queueVars
<1>4. CASE c # d
  <2>1. params'[c] = params[c]
    BY <1>1, <1>4 DEF IInv, TypeOK
  <2> QED BY <1>1, <1>3, <1>4, <2>1, OthersRounds
<1>5. CASE c = d
  <2>1. req[c] = None /\ TypeOK /\ TypeOK'
    BY <1>1, <1>5 DEF receive, IInv
  <2>2. /\ \A p \in Providers : \A i \in DOMAIN mQueue[p] : mQueue[p][i] # c
        /\ \A s \in Threads : cur[s] = c => pc[s] = "notifying"
    BY <2>1, NewIsNowhere, Nowhere
  <2>3. \A s \in Threads :
          cur'[s] = c => pc'[s] \notin {"running", "replying", "building"}
    BY <1>2, <1>3, <2>1, <2>2 DEF TypeOK
  <2>4. HandledRight(c)'
    BY <2>3 DEF HandledRight
  <2>5. QueuedRight(c)'
    <3>1. CASE UNCHANGED <<queueVars, pc, params>>
      BY <2>2, <3>1 DEF QueuedRight, queueVars
    <3>2. CASE /\ params' = [params EXCEPT ![d].storageType = "usb"]
               /\ addRequest(Main, "USB", d)
      <4>1. params'[c].storageType = "usb"
        BY <1>5, <2>1, <3>2 DEF TypeOK, ParamsType
      <4>2. SectionsSoFar(c)' /\ getStorageDeviceType(params'[c].storageType) = "USB"
        BY <4>1 DEF SectionsSoFar, StorageNames, getStorageDeviceType
      <4>3. \A p \in Providers : \A i \in DOMAIN mQueue'[p] :
              mQueue'[p][i] = c => p = "USB"
        BY <1>2, <2>2, <3>2, FoundAfterPush DEF addRequest
      <4> QED BY <4>2, <4>3 DEF QueuedRight
    <3> QED BY <1>1, <3>1, <3>2
  <2> QED BY <2>4, <2>5
<1> QED BY <1>4, <1>5

LEMMA NextRounds ==
  ASSUME IInv, IInv', CountInv, RoundInv, [Next]_vars
  PROVE  RoundInv'
<1> SUFFICES ASSUME NEW c \in Calls, OneRound(c)'
             PROVE  QueuedRight(c)' /\ HandledRight(c)'
  BY DEF RoundInv
<1>1. CASE \E d \in Calls : LunaStep(d)
  <2>1. PICK d \in Calls : LunaStep(d)
    BY <1>1
  <2>2. CASE listStorageProviders(d)
    BY <2>2, ListStorageProvidersRounds
  <2>3. CASE \E m : m # "LIST_STORAGES" /\ deviceMethod(d, m)
    BY <2>3, DeviceMethodRounds
  <2> QED
    BY <2>1, <2>2, <2>3 DEF LunaStep, handleExtraCommand, list, getProperties, copy,
                            move, remove, eject, rename
<1>2. CASE ~ \E d \in Calls : LunaStep(d)
  <2>1. req[c] # None
    BY <1>2, RequestsOnlyArrive DEF OneRound
  <2>2. OneRound(c)
    BY <2>1, OneRoundStays DEF IInv
  <2>3. ASSUME NEW d \in Calls, PdmStep(d) PROVE QueuedRight(c)' /\ HandledRight(c)'
    BY <2>2, <2>3, DeviceListRounds, PdmRounds DEF PdmStep
  <2>4. ASSUME NEW p \in Providers, QueueStep(p)
        PROVE  QueuedRight(c)' /\ HandledRight(c)'
    BY <2>2, <2>4, WaitRounds, DispatchRounds DEF QueueStep
  <2>5. ASSUME NEW p \in Providers, HandlerStep(p)
        PROVE  QueuedRight(c)' /\ HandledRight(c)'
    BY <2>2, <2>5, LeaveRounds DEF HandlerStep, handleUnknown, handleRequests, queueVars
  <2>6. ASSUME NEW t \in Threads, CallbackStep(t)
        PROVE  QueuedRight(c)' /\ HandledRight(c)'
    BY <2>2, <2>6, NextStageRounds, BuildRounds, ListAnswerRounds, NotifyRounds
       DEF CallbackStep
  <2>7. CASE UsbStep
    <3>1. "USB" \in Providers /\ leaveHandler("USB") /\ UNCHANGED <<mQueue, params>>
      BY <2>7 DEF UsbStep, getPropertiesMethod, ejectMethod, usbListStorages,
                  queueVars, Providers
    <3> QED BY <2>2, <3>1, LeaveRounds
  <2>8. CASE StageStep
    <3>1. /\ "INTERNAL" \in Providers /\ "GDRIVE" \in Providers /\ "NETWORK" \in Providers
          /\ "internal" \in StorageNames /\ "INTERNAL" = getStorageDeviceType("internal")
          /\ "cloud" \in StorageNames /\ "GDRIVE" = getStorageDeviceType("cloud")
          /\ "network" \in StorageNames /\ "NETWORK" = getStorageDeviceType("network")
      BY DEF Providers, StorageNames, getStorageDeviceType
    <3>2. CASE internalListStorages
      BY <2>2, <3>1, <3>2, StageRounds DEF internalListStorages
    <3>3. CASE gdriveListStorages
      BY <2>2, <3>1, <3>3, StageRounds DEF gdriveListStorages
    <3>4. CASE networkListStorages
      BY <2>2, <3>1, <3>4, StageRounds DEF networkListStorages
    <3> QED BY <2>8, <3>2, <3>3, <3>4 DEF StageStep
  <2>9. CASE scanHangs
    BY <2>2, <2>9, HangRounds
  <2>10. CASE UNCHANGED vars
    BY <2>2, <2>10, PassiveRounds DEF vars
  <2> QED
    BY <1>2, <2>3, <2>4, <2>5, <2>6, <2>7, <2>8, <2>9, <2>10 DEF Next
<1> QED BY <1>1, <1>2

LEMMA InitRounds == Init => RoundInv
BY DEF Init, RoundInv, OneRound

\* What the answer number i says, when it is the answer to a listing.
Complete(i) ==
  LET c == sent[i].call
  IN  /\ sent[i].kind = "answer"
      /\ req[c].method = "LIST_STORAGES"
      /\ PdmWaits \/ later[c] = 0
      => sent[i].sections = <<"usb", "internal", "cloud", "network">>

LEMMA AnsweredAreKnown ==
  ASSUME IInv, CountInv, NEW i \in DOMAIN sent
  PROVE  sent[i].call \in Calls /\ req[sent[i].call] # None
<1> DEFINE c == sent[i].call
<1>1. TypeOK /\ sent \in Seq(ReplyType)
  BY DEF IInv, TypeOK
<1>2. c \in Calls /\ CountedFor(c)
  <2>1. sent[i] \in ReplyType
    BY <1>1, LenProperties, ElementOfSeq
  <2>2. sent[i].call \in Calls
    BY <2>1 DEF ReplyType
  <2> QED BY <2>2 DEF CountInv, Counted
<1>3. answersTo(c) # 0
  <2>1. IsFiniteSet(answersIn(sent, c)) /\ answersTo(c) = Cardinality(answersIn(sent, c))
    BY <1>1, AnswersFinite DEF answersTo, answersIn
  <2>2. i \in answersIn(sent, c)
    BY DEF answersIn
  <2> QED BY <2>1, <2>2, FS_EmptySet
<1>4. pendingTimes(c) \in Nat /\ answersTo(c) \in Nat
  BY <1>1, <1>2, Amounts
<1> QED BY <1>2, <1>3, <1>4 DEF CountedFor

\* What was said is not said differently later.
LEMMA OldAnswers ==
  ASSUME IInv, CountInv, [Next]_vars, NEW i \in DOMAIN sent, Complete(i),
         sent'[i] = sent[i]
  PROVE  Complete(i)'
<1>1. sent[i].call \in Calls /\ req[sent[i].call] # None
  BY AnsweredAreKnown
<1>2. req'[sent[i].call] = req[sent[i].call]
  BY <1>1, RequestsStay DEF IInv
<1>3. later'[sent[i].call] = 0 => later[sent[i].call] = 0
  BY <1>1, LaterGrows DEF IInv
<1> QED BY <1>2, <1>3 DEF Complete

LEMMA PostedOne ==
  ASSUME NEW s \in Seq(ReplyType), NEW x \in ReplyType, NEW i \in DOMAIN Append(s, x)
  PROVE  (i \in DOMAIN s /\ Append(s, x)[i] = s[i]) \/ Append(s, x)[i] = x
OBVIOUS

LEMMA PostedSome ==
  ASSUME NEW s \in Seq(ReplyType), NEW x \in ReplyType, NEW n \in {0, 1, 2},
         NEW i \in DOMAIN (s \o [j \in 1..n |-> x])
  PROVE  \/ i \in DOMAIN s /\ (s \o [j \in 1..n |-> x])[i] = s[i]
         \/ (s \o [j \in 1..n |-> x])[i] = x
<1>1. Append(s, x) \in Seq(ReplyType)
  OBVIOUS
<1>2. CASE n = 0
  BY <1>2, RepeatPosts
<1>3. CASE n = 1
  BY <1>3, RepeatPosts, PostedOne
<1>4. CASE n = 2
  <2>1. s \o [j \in 1..n |-> x] = Append(Append(s, x), x)
    BY <1>4, RepeatPosts
  <2>2. \/ i \in DOMAIN Append(s, x) /\ Append(Append(s, x), x)[i] = Append(s, x)[i]
        \/ Append(Append(s, x), x)[i] = x
    BY <1>1, <2>1, PostedOne
  <2> QED BY <2>1, <2>2, PostedOne
<1> QED BY <1>2, <1>3, <1>4

\* An answer that says nothing of the devices is not one to a listing.
LEMMA OtherAnswer ==
  ASSUME NEW i, sent'[i].kind # "answer" \/ req'[sent'[i].call].method # "LIST_STORAGES"
  PROVE  Complete(i)'
BY DEF Complete

LEMMA RefusalsComplete ==
  ASSUME NEW d \in Calls, LunaStep(d), TypeOK, NEW i \in DOMAIN sent'
  PROVE  \/ i \in DOMAIN sent /\ sent'[i] = sent[i]
         \/ Complete(i)'
<1>1. PICK r \in Requests :
        \/ sent' = sent
        \/ /\ rejectionOf(r) # "none"
           /\ sent' = Append(sent, [call |-> d, kind |-> rejectionOf(r),
                                    sections |-> <<>>])
  BY DEF LunaStep, handleExtraCommand, list, getProperties, copy, move, remove,
         eject, rename, deviceMethod, listStorageProviders, postToClient
<1>2. CASE sent' = sent
  BY <1>2
<1>3. CASE /\ rejectionOf(r) # "none"
           /\ sent' = Append(sent, [call |-> d, kind |-> rejectionOf(r),
                                    sections |-> <<>>])
  <2> DEFINE x == [call |-> d, kind |-> rejectionOf(r), sections |-> <<>>]
  <2>1. rejectionOf(r) \in ReplyKinds \ {"answer"}
    BY <1>3 DEF rejectionOf, ReplyKinds
  <2>2. x \in ReplyType /\ x.kind # "answer"
    BY <2>1 DEF ReplyType, SectionLists
  <2>3. sent \in Seq(ReplyType) /\ sent' = Append(sent, x)
    BY <1>3 DEF TypeOK
  <2> HIDE DEF x
  <2>4. (i \in DOMAIN sent /\ sent'[i] = sent[i]) \/ sent'[i] = x
    BY <2>2, <2>3, PostedOne
  <2> QED BY <2>2, <2>4, OtherAnswer
<1> QED BY <1>1, <1>2, <1>3

LEMMA HandlerComplete ==
  ASSUME IInv, NEW p \in Providers, handleRequests(p), NEW i \in DOMAIN sent'
  PROVE  \/ i \in DOMAIN sent /\ sent'[i] = sent[i]
         \/ Complete(i)'
<1> DEFINE x == [call |-> cur[p], kind |-> "answer", sections |-> <<>>]
<1>1. /\ cur[p] \in Calls /\ req[cur[p]].method # "LIST_STORAGES" /\ req' = req
      /\ \E n \in answersOf(p, req[cur[p]]) : sent' = sent \o [j \in 1..n |-> x]
  BY DEF handleRequests, inHandler, IInv, ThreadsAdmitted, Threads, Admitted
<1>2. PICK n \in {0, 1, 2} : sent' = sent \o [j \in 1..n |-> x]
  BY <1>1, HandlerAnswers
<1>3. x \in ReplyType /\ x.call = cur[p]
  BY <1>1 DEF ReplyType, ReplyKinds, SectionLists
<1>4. sent \in Seq(ReplyType)
  BY DEF IInv, TypeOK
<1> HIDE DEF x
<1>5. (i \in DOMAIN sent /\ sent'[i] = sent[i]) \/ sent'[i] = x
  BY <1>2, <1>3, <1>4, PostedSome
<1> QED BY <1>1, <1>3, <1>5, OtherAnswer

LEMMA OnReplyComplete ==
  ASSUME IInv, CountInv, NEW d \in Calls, onReply(d), NEW i \in DOMAIN sent'
  PROVE  \/ i \in DOMAIN sent /\ sent'[i] = sent[i]
         \/ Complete(i)'
<1> DEFINE x == [call |-> d, kind |-> "answer", sections |-> <<>>]
<1>1. req' = req /\ sent' = Append(sent, x) /\ pdmCall[d] \notin {"none", "lost"}
  BY DEF onReply, postToClient
<1>2. req[d].method # "LIST_STORAGES"
  BY <1>1 DEF CountInv, PdmCallsKnown
<1>3. x \in ReplyType /\ x.call = d /\ sent \in Seq(ReplyType)
  BY DEF ReplyType, ReplyKinds, SectionLists, IInv, TypeOK
<1> HIDE DEF x
<1>4. (i \in DOMAIN sent /\ sent'[i] = sent[i]) \/ sent'[i] = x
  BY <1>1, <1>3, PostedOne
<1> QED BY <1>1, <1>2, <1>3, <1>4, OtherAnswer

LEMMA ListAnswerComplete ==
  ASSUME IInv, RoundInv, NEW t \in Threads, answerListOfStorages(t),
         NEW i \in DOMAIN sent'
  PROVE  \/ i \in DOMAIN sent /\ sent'[i] = sent[i]
         \/ Complete(i)'
<1> DEFINE c == cur[t]
           all == Append(params[c].listStorageResponse, params[c].response)
           x == [call |-> c, kind |-> "answer", sections |-> all]
<1>1. /\ pc[t] = "replying" /\ params[c].storageType = "network"
      /\ c \in Listings /\ c \in Calls
      /\ req' = req /\ later' = later /\ sent' = Append(sent, x)
  BY DEF answerListOfStorages, postToClient, pdmVars, IInv, ThreadsAdmitted,
         Listings, Admitted
<1>2. all \in SectionLists
  BY <1>1 DEF IInv, TypeOK, ParamsType, SectionLists
<1>3. PdmWaits \/ later[c] = 0 => all = <<"usb", "internal", "cloud", "network">>
  <2> SUFFICES ASSUME PdmWaits \/ later[c] = 0
               PROVE  all = <<"usb", "internal", "cloud", "network">>
    OBVIOUS
  <2>1. OneRound(c)
    BY <1>1, NoneAssumption DEF OneRound, Listings, Admitted
  <2>2. HandledRight(c)
    BY <1>1, <2>1 DEF RoundInv
  <2>3. SectionsSoFar(c) /\ params[c].response = "network"
    BY <1>1, <2>2 DEF HandledRight
  <2>4. params[c].listStorageResponse = <<"usb", "internal", "cloud">>
    BY <1>1, <2>3 DEF SectionsSoFar
  <2> QED BY <2>3, <2>4, AppendToThree
<1> HIDE DEF all
<1>4. x \in ReplyType /\ x.call = c /\ x.sections = all /\ sent \in Seq(ReplyType)
  BY <1>1, <1>2 DEF ReplyType, ReplyKinds, IInv, TypeOK
<1> HIDE DEF x
<1>5. (i \in DOMAIN sent /\ sent'[i] = sent[i]) \/ sent'[i] = x
  BY <1>1, <1>4, PostedOne
<1>6. CASE sent'[i] = x
  BY <1>1, <1>3, <1>4, <1>6 DEF Complete
<1> QED BY <1>5, <1>6

LEMMA NextComplete ==
  ASSUME IInv, CountInv, RoundInv, ListIsComplete, [Next]_vars
  PROVE  ListIsComplete'
<1>1. \A i \in DOMAIN sent : Complete(i)
  BY DEF ListIsComplete, Complete
<1> SUFFICES ASSUME NEW i \in DOMAIN sent'
             PROVE  Complete(i)'
  BY DEF ListIsComplete, Complete
<1>2. CASE i \in DOMAIN sent /\ sent'[i] = sent[i]
  BY <1>1, <1>2, OldAnswers
<1>3. CASE ~(i \in DOMAIN sent /\ sent'[i] = sent[i])
  <2>1. CASE \E d \in Calls : LunaStep(d)
    BY <1>3, <2>1, RefusalsComplete DEF IInv
  <2>2. CASE \E p \in Providers : handleRequests(p)
    BY <1>3, <2>2, HandlerComplete
  <2>3. CASE \E d \in Calls : onReply(d)
    BY <1>3, <2>3, OnReplyComplete
  <2>4. CASE \E t \in Threads : answerListOfStorages(t)
    BY <1>3, <2>4, ListAnswerComplete
  <2>5. CASE /\ ~ \E d \in Calls : LunaStep(d) \/ onReply(d)
             /\ ~ \E p \in Providers : handleRequests(p)
             /\ ~ \E t \in Threads : answerListOfStorages(t)
    <3>1. sent' = sent
      BY <2>5 DEF Next, vars, PdmStep, onGetPropertiesReply,
       onListStoragesMethodReply, unparsableAnswer, QueueStep, waitForRequest,
       dispatchHandler, spuriousWakeup, HandlerStep, handleUnknown,
       CallbackStep, onListOfStoragesReply, buildNextRequest,
       notify_one, UsbStep, getPropertiesMethod,
       ejectMethod, usbListStorages, StageStep, internalListStorages,
       gdriveListStorages, networkListStorages, listStoragesStage, scanHangs
    <3> QED BY <1>3, <3>1
  <2> QED BY <2>1, <2>2, <2>3, <2>4, <2>5
<1> QED BY <1>2, <1>3

\* Although the stages of a listStorageProviders and the rounds that PDM's
\* device lists start all write the same JSON object, an answer carries the
\* sections of the four providers in the order of the chain.  The stages are
\* kept apart by there being one request for the message (CountInv), and the
\* object names the storage whose queue or thread has that request (RoundInv).
THEOREM ListsComplete == Spec => []ListIsComplete
<1>1. Init => ListIsComplete
  BY DEF Init, ListIsComplete
<1>2. /\ IInv /\ IInv' /\ CountInv /\ RoundInv /\ ListIsComplete /\ [Next]_vars
      => RoundInv' /\ ListIsComplete'
  BY NextRounds, NextComplete
<1> QED BY <1>1, <1>2, InitRounds, CountInvHolds, Admission, PTL DEF Spec
=============================================================================
