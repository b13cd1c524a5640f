--------------------------- MODULE CallbackProofs ---------------------------
(***************************************************************************)
(* Theorems about the two components whose callbacks the main loop runs    *)
(* while another thread uses or destroys what they are about: UpnpScan,    *)
(* for any servers and any number of scans and announcements, and          *)
(* ClientWatch, for any set of watches.                                    *)
(***************************************************************************)
EXTENDS UpnpScan, ClientWatch, TLAPS

(***************************************************************************)
(* Scans.                                                                  *)
(***************************************************************************)
\* Every scan that clients asked for attaches one timer at most, and one that
\* is about to has not done so yet.
TimersCounted == timers <= scans /\ (pc = "client" => timers < scans)

\* What was pushed and what is about to be pushed was announced in this scan.
PushedIsHeard ==
  /\ Range(mScannedDevs) \subseteq heard
  /\ callback # Nothing => callback \in heard

ScanInv == TypeOK /\ TimersCounted /\ PushedIsHeard

\* A location that is pushed is one more in the list.
LEMMA RangeAppend ==
  ASSUME NEW S, NEW s \in Seq(S), NEW e
  PROVE  Range(Append(s, e)) = Range(s) \cup {e}
BY DEF Range

LEMMA InitScan == Init => ScanInv
<1> SUFFICES ASSUME Init PROVE ScanInv
  OBVIOUS
<1>1. TypeOK
  <2>1. mScannedDevs \in Seq(Locations) /\ answered \in Seq(Locations)
    BY DEF Init
  <2>2. timers \in 0 .. MaxScans /\ scans \in 0 .. MaxScans /\ arrivals \in 0 .. MaxHeard
    BY BoundsAssumption DEF Init
  <2> QED BY <2>1, <2>2 DEF Init, TypeOK
<1>2. TimersCounted /\ PushedIsHeard
  BY DEF Init, TimersCounted, PushedIsHeard, Range
<1> QED BY <1>1, <1>2 DEF ScanInv

LEMMA NextScan == ScanInv /\ [Next]_vars => ScanInv'
<1> SUFFICES ASSUME ScanInv, [Next]_vars PROVE ScanInv'
  OBVIOUS
<1> USE BoundsAssumption, NothingAssumption
<1>1. CASE startScan
  <2>1. TypeOK'
    <3>1. mScannedDevs' \in Seq(Locations)
      <4>1. <<>> \in Seq(Locations) /\ mScannedDevs \in Seq(Locations)
        BY DEF ScanInv, TypeOK
      <4> QED BY <1>1, <4>1 DEF startScan
    <3>2. heard' \subseteq Locations \cup OtherLocations
      BY <1>1 DEF ScanInv, TypeOK, startScan
    <3>3. scans' \in 0 .. MaxScans
      BY <1>1 DEF ScanInv, TypeOK, startScan
    <3>4. /\ pc' \in {"idle", "client", "run", "getScannedDevices"}
          /\ mScanCompFlag' \in BOOLEAN
      BY <1>1 DEF ScanInv, TypeOK, startScan
    <3> QED BY <1>1, <3>1, <3>2, <3>3, <3>4 DEF ScanInv, TypeOK, startScan, mainVars
  <2>2. TimersCounted'
    BY <1>1 DEF ScanInv, TypeOK, TimersCounted, startScan, mainVars
  <2>3. PushedIsHeard'
    BY <1>1 DEF ScanInv, PushedIsHeard, Range, startScan, mainVars
  <2> QED BY <2>1, <2>2, <2>3 DEF ScanInv
<1>2. CASE clientFails
  <2>1. TypeOK' /\ TimersCounted'
    BY <1>2 DEF ScanInv, TypeOK, TimersCounted, clientFails, mainVars
  <2>2. PushedIsHeard'
    BY <1>2 DEF ScanInv, PushedIsHeard, Range, clientFails, mainVars
  <2> QED BY <2>1, <2>2 DEF ScanInv
<1>3. CASE runLoop
  <2>1. TypeOK' /\ TimersCounted'
    BY <1>3 DEF ScanInv, TypeOK, TimersCounted, runLoop, mainVars
  <2>2. PushedIsHeard'
    BY <1>3 DEF ScanInv, PushedIsHeard, Range, runLoop, mainVars
  <2> QED BY <2>1, <2>2 DEF ScanInv
<1>4. CASE loopReturns
  <2>1. TypeOK' /\ TimersCounted'
    BY <1>4 DEF ScanInv, TypeOK, TimersCounted, loopReturns, mainVars
  <2>2. PushedIsHeard'
    BY <1>4 DEF ScanInv, PushedIsHeard, Range, loopReturns, mainVars
  <2> QED BY <2>1, <2>2 DEF ScanInv
<1>5. CASE getScannedDevices
  <2>1. TypeOK' /\ TimersCounted'
    BY <1>5 DEF ScanInv, TypeOK, TimersCounted, getScannedDevices, mainVars
  <2>2. PushedIsHeard'
    BY <1>5 DEF ScanInv, PushedIsHeard, Range, getScannedDevices, mainVars
  <2> QED BY <2>1, <2>2 DEF ScanInv
<1>6. ASSUME NEW l \in Locations \cup OtherLocations, announced(l)
      PROVE  ScanInv'
  <2>1. TypeOK' /\ TimersCounted'
    BY <1>6 DEF ScanInv, TypeOK, TimersCounted, announced
  <2>2. PushedIsHeard'
    BY <1>6 DEF ScanInv, PushedIsHeard, Range, announced
  <2> QED BY <2>1, <2>2 DEF ScanInv
<1>7. CASE on_resource_available
  <2>1. TypeOK' /\ TimersCounted'
    BY <1>7 DEF ScanInv, TypeOK, TimersCounted, on_resource_available
  <2>2. Range(mScannedDevs') \subseteq Range(mScannedDevs) \cup {callback}
    BY <1>7, RangeAppend DEF ScanInv, TypeOK, on_resource_available
  <2>3. PushedIsHeard'
    BY <1>7, <2>2 DEF ScanInv, PushedIsHeard, Range, on_resource_available
  <2> QED BY <2>1, <2>3 DEF ScanInv
<1>8. CASE quitTimer
  <2>1. timers' \in 0 .. MaxScans /\ timers' <= timers
    BY <1>8 DEF ScanInv, TypeOK, quitTimer
  <2>3. TypeOK'
    BY <1>8, <2>1 DEF ScanInv, TypeOK, quitTimer
  <2>4. TimersCounted'
    BY <1>8, <2>1 DEF ScanInv, TypeOK, TimersCounted, quitTimer
  <2>2. PushedIsHeard'
    BY <1>8 DEF ScanInv, PushedIsHeard, Range, quitTimer
  <2> QED BY <2>2, <2>3, <2>4 DEF ScanInv
<1>9. CASE UNCHANGED vars
  <2>1. TypeOK' /\ TimersCounted'
    BY <1>9 DEF ScanInv, TypeOK, TimersCounted, vars
  <2>2. PushedIsHeard'
    BY <1>9 DEF ScanInv, PushedIsHeard, Range, vars
  <2> QED BY <2>1, <2>2 DEF ScanInv
<1> QED BY <1>1, <1>2, <1>3, <1>4, <1>5, <1>6, <1>7, <1>8, <1>9 DEF Next

\* Whatever callbacks come between, the list of scanned devices holds nothing
\* but locations of media servers, and no more timers are attached than scans
\* were asked for.
THEOREM ScanTyped == Spec => []TypeOK
<1>1. ScanInv => TypeOK
  BY DEF ScanInv
<1> QED BY <1>1, InitScan, NextScan, PTL DEF Spec

\* For any number of scans and announcements and however late the main thread
\* pushes into the vector, discoverUPnPMediaServer answers only servers that
\* announced themselves during its own scan.
THEOREM ScansAreFresh == Spec => AnswerIsFresh
<1>1. ScanInv /\ [Next]_vars =>
        [pc = "getScannedDevices" /\ pc' = "idle" => Range(answered') \subseteq heard]_vars
  <2> SUFFICES ASSUME ScanInv, Next, pc = "getScannedDevices", pc' = "idle"
               PROVE  Range(answered') \subseteq heard
    OBVIOUS
  <2>1. getScannedDevices
    BY DEF Next, startScan, clientFails, runLoop, loopReturns, announced,
           on_resource_available, quitTimer
  <2> QED BY <2>1 DEF getScannedDevices, ScanInv, PushedIsHeard, Range
<1> QED BY <1>1, InitScan, NextScan, PTL DEF Spec, AnswerIsFresh

(***************************************************************************)
(* Watches.                                                                *)
(***************************************************************************)
Stages == {"none", "watching", "~MAIN", "~MAIN cancelled", "~HANDLER",
           "~HANDLER cancelled", "gone"}

WatchTypes ==
  /\ stage \in [Watches -> Stages]
  /\ mNotificationTimeout \in [Watches -> BOOLEAN]
  /\ source \in [Watches -> Nat]
  /\ mCookie \in [Watches -> BOOLEAN]

\* The status callback is registered only while there is a watch.
CookieInv == \A w \in Watches : mCookie[w] => stage[w] # "none"

\* On the main loop the destructor has removed the source before it lets go of
\* the status callback, and nothing adds one in between.
SourceRemoved ==
  \A w \in Watches : stage[w] \in {"~MAIN", "~MAIN cancelled"} => source[w] = 0

WatchInv ==
  WatchTypes /\ CookieInv /\ SourceRemoved /\ OneNotificationPending

LEMMA InitWatch == WatchInit => WatchInv
BY DEF WatchInit, WatchInv, WatchTypes, CookieInv, SourceRemoved,
       OneNotificationPending, Stages

\* A step of one watch leaves the others as they are.
LEMMA WatchStep ==
  ASSUME WatchInv, NEW w \in Watches,
         /\ stage' \in [Watches -> Stages]
         /\ mNotificationTimeout' \in [Watches -> BOOLEAN]
         /\ source' \in [Watches -> Nat]
         /\ mCookie' \in [Watches -> BOOLEAN],
         \A v \in Watches \ {w} :
           /\ stage'[v] = stage[v] /\ source'[v] = source[v]
           /\ mCookie'[v] = mCookie[v]
           /\ mNotificationTimeout'[v] = mNotificationTimeout[v],
         mCookie'[w] => stage'[w] # "none",
         stage'[w] \in {"~MAIN", "~MAIN cancelled"} => source'[w] = 0,
         stage'[w] \in {"none", "watching"} =>
           source'[w] = (IF mNotificationTimeout'[w] THEN 1 ELSE 0)
  PROVE  WatchInv'
<1>1. WatchTypes' /\ CookieInv'
  BY DEF WatchInv, WatchTypes, CookieInv
<1>2. SourceRemoved'
  BY DEF WatchInv, SourceRemoved
<1>3. OneNotificationPending'
  BY DEF WatchInv, OneNotificationPending
<1> QED BY <1>1, <1>2, <1>3 DEF WatchInv

LEMMA NextWatch == WatchInv /\ [WatchNext]_watchVars => WatchInv'
<1> SUFFICES ASSUME WatchInv, [WatchNext]_watchVars PROVE WatchInv'
  OBVIOUS
<1>s. stage \in [Watches -> Stages] /\ source \in [Watches -> Nat]
  BY DEF WatchInv, WatchTypes
<1>t. mNotificationTimeout \in [Watches -> BOOLEAN] /\ mCookie \in [Watches -> BOOLEAN]
  BY DEF WatchInv, WatchTypes
<1>w. \A w \in Watches :
        stage[w] \in {"none", "watching"} =>
          source[w] = (IF mNotificationTimeout[w] THEN 1 ELSE 0)
  BY DEF WatchInv, OneNotificationPending
<1>c. \A w \in Watches : mCookie[w] => stage[w] # "none"
  BY DEF WatchInv, CookieInv
<1>z. \A w \in Watches : stage[w] \in {"~MAIN", "~MAIN cancelled"} => source[w] = 0
  BY DEF WatchInv, SourceRemoved
<1>1. ASSUME NEW w \in Watches, startWatching(w) PROVE WatchInv'
  <2>1. /\ stage[w] = "none" /\ stage' = [stage EXCEPT ![w] = "watching"]
        /\ mCookie' = [mCookie EXCEPT ![w] = TRUE]
        /\ UNCHANGED <<mNotificationTimeout, source>>
    BY <1>1 DEF startWatching
  <2>2. source[w] = (IF mNotificationTimeout[w] THEN 1 ELSE 0)
    BY <1>w, <2>1
  <2>3. stage' \in [Watches -> Stages] /\ stage'[w] = "watching"
    BY <1>s, <2>1 DEF Stages
  <2>4. mCookie' \in [Watches -> BOOLEAN]
    BY <1>t, <2>1
  <2> QED BY <1>s, <1>t, <2>1, <2>2, <2>3, <2>4, WatchStep
<1>2. ASSUME NEW w \in Watches, clientChanges(w) PROVE WatchInv'
  <2>1. UNCHANGED <<stage, mCookie, mNotificationTimeout, source>>
    BY <1>2 DEF clientChanges
  <2> QED BY <2>1 DEF WatchInv, WatchTypes, CookieInv, SourceRemoved,
                      OneNotificationPending
<1>3. ASSUME NEW w \in Watches, serverStatusCallback(w) PROVE WatchInv'
  <2>1. /\ stage[w] \notin {"none", "~MAIN", "~MAIN cancelled"}
        /\ UNCHANGED <<stage, mCookie>>
    BY <1>3, <1>c DEF serverStatusCallback, mainLoopFree
  <2>2. CASE UNCHANGED <<mNotificationTimeout, source>>
    BY <2>1, <2>2 DEF WatchInv, WatchTypes, CookieInv, SourceRemoved,
                      OneNotificationPending
  <2>3. CASE /\ ~mNotificationTimeout[w]
             /\ mNotificationTimeout' = [mNotificationTimeout EXCEPT ![w] = TRUE]
             /\ source' = [source EXCEPT ![w] = source[w] + 1]
    <3>1. source' \in [Watches -> Nat] /\ source'[w] = source[w] + 1
      BY <1>s, <2>3
    <3>2. mNotificationTimeout' \in [Watches -> BOOLEAN] /\ mNotificationTimeout'[w]
      BY <1>t, <2>3
    <3>3. stage[w] = "watching" => source[w] = 0
      BY <1>w, <2>3
    <3>4. stage'[w] \in {"none", "watching"} =>
            source'[w] = (IF mNotificationTimeout'[w] THEN 1 ELSE 0)
      <4>1. stage'[w] \in {"none", "watching"} => source[w] = 0
        BY <2>1, <3>3
      <4>2. stage'[w] \in {"none", "watching"} => source'[w] = 1
        BY <3>1, <4>1
      <4> QED BY <3>2, <4>2
    <3>5. \A v \in Watches \ {w} :
            /\ source'[v] = source[v]
            /\ mNotificationTimeout'[v] = mNotificationTimeout[v]
      BY <1>s, <1>t, <2>3
    <3> QED BY <1>c, <1>s, <1>t, <2>1, <3>1, <3>2, <3>4, <3>5, WatchStep
  <2> QED BY <1>3, <2>2, <2>3
          DEF serverStatusCallback, triggerClientDroppedNotification
<1>4. ASSUME NEW w \in Watches, sendClientDroppedNotification(w) PROVE WatchInv'
  <2>1. /\ stage[w] \notin {"~MAIN", "~MAIN cancelled"}
        /\ source' = [source EXCEPT ![w] = source[w] - 1]
        /\ UNCHANGED <<stage, mCookie>>
    BY <1>4 DEF sendClientDroppedNotification, mainLoopFree
  <2>7. source[w] \in Nat
    BY <1>s
  <2>8. source[w] > 0
    BY <1>4 DEF sendClientDroppedNotification
  <2>2. /\ mNotificationTimeout' \in [Watches -> BOOLEAN]
        /\ \A v \in Watches \ {w} : mNotificationTimeout'[v] = mNotificationTimeout[v]
        /\ stage[w] # "gone" => ~mNotificationTimeout'[w]
    BY <1>4, <1>t DEF sendClientDroppedNotification
  <2>3. source[w] - 1 \in Nat
    BY <2>7, <2>8
  <2>4. stage[w] \in {"none", "watching"} => source[w] = 1
    <3>1. source[w] # 0
      BY <2>8
    <3> QED BY <1>w, <3>1
  <2>5. source' \in [Watches -> Nat] /\ source'[w] = source[w] - 1
    BY <1>s, <2>1, <2>3
  <2>6. stage'[w] \in {"none", "watching"} =>
          source'[w] = (IF mNotificationTimeout'[w] THEN 1 ELSE 0)
    <3>1. stage'[w] \in {"none", "watching"} => source[w] = 1 /\ ~mNotificationTimeout'[w]
      BY <2>1, <2>2, <2>4
    <3>2. source[w] = 1 => source'[w] = 0
      BY <2>5
    <3> QED BY <3>1, <3>2
  <2> QED BY <1>c, <1>s, <1>t, <2>1, <2>2, <2>5, <2>6, WatchStep
<1>5. ASSUME NEW w \in Watches, NEW t \in Destroyers, removeSource(w, t)
      PROVE  WatchInv'
  <2>1. PICK s \in {"~MAIN", "~HANDLER"} : stage' = [stage EXCEPT ![w] = s]
    BY <1>5 DEF removeSource
  <2>2. /\ stage[w] = "watching" /\ UNCHANGED <<mCookie, mNotificationTimeout>>
        /\ source' = [source EXCEPT ![w] = IF mNotificationTimeout[w] THEN 0 ELSE source[w]]
    BY <1>5 DEF removeSource
  <2>3. source' = [source EXCEPT ![w] = 0]
    BY <1>w, <2>2
  <2>4. stage'[w] = s /\ stage' \in [Watches -> Stages]
    BY <1>s, <2>1 DEF Stages
  <2>5. source'[w] = 0 /\ source' \in [Watches -> Nat]
    BY <1>s, <2>3
  <2> QED BY <1>s, <1>t, <2>1, <2>2, <2>3, <2>4, <2>5, WatchStep
<1>6. ASSUME NEW w \in Watches, cancelServerStatus(w) PROVE WatchInv'
  <2>1. PICK s \in {"~MAIN cancelled", "~HANDLER cancelled"} :
          /\ stage' = [stage EXCEPT ![w] = s]
          /\ s = "~MAIN cancelled" => stage[w] = "~MAIN"
    BY <1>6 DEF cancelServerStatus
  <2>2. /\ UNCHANGED <<mNotificationTimeout, source>>
        /\ mCookie' = [mCookie EXCEPT ![w] = FALSE]
    BY <1>6 DEF cancelServerStatus
  <2>3. stage'[w] = s /\ stage' \in [Watches -> Stages]
    BY <1>s, <2>1 DEF Stages
  <2>4. mCookie' \in [Watches -> BOOLEAN] /\ ~mCookie'[w]
    BY <1>t, <2>2
  <2> QED BY <1>s, <1>t, <1>z, <2>1, <2>2, <2>3, <2>4, WatchStep
<1>7. ASSUME NEW w \in Watches, freed(w) PROVE WatchInv'
  <2>1. /\ stage' = [stage EXCEPT ![w] = "gone"]
        /\ UNCHANGED <<mCookie, mNotificationTimeout, source>>
    BY <1>7 DEF freed
  <2>2. stage'[w] = "gone" /\ stage' \in [Watches -> Stages]
    BY <1>s, <2>1 DEF Stages
  <2> QED BY <1>s, <1>t, <2>1, <2>2, WatchStep
<1>8. CASE UNCHANGED watchVars
  BY <1>8 DEF watchVars, WatchInv, WatchTypes, CookieInv, SourceRemoved,
              OneNotificationPending
<1> QED BY <1>1, <1>2, <1>3, <1>4, <1>5, <1>6, <1>7, <1>8 DEF WatchNext, MainLoop

\* For any watches, dying on whichever thread: as long as a watch lives its
\* field mirrors GLib's sources, so a client that comes and goes has at most
\* one notification pending.
THEOREM NotificationsMirrored == WatchSpec => []OneNotificationPending
<1>1. WatchInv => OneNotificationPending
  BY DEF WatchInv
<1> QED BY <1>1, InitWatch, NextWatch, PTL DEF WatchSpec

\* For any watches: a destructor on the main loop leaves no timeout behind
\* that would run on the memory it is about to free.
THEOREM MainLoopIsSafe == WatchSpec => []NoLateNotification
<1>1. WatchInv => NoLateNotification
  BY DEF WatchInv, SourceRemoved, NoLateNotification
<1> QED BY <1>1, InitWatch, NextWatch, PTL DEF WatchSpec
=============================================================================
