------------------------------ MODULE UpnpScan ------------------------------
(***************************************************************************)
(* UpnpDiscover: the network provider's thread scans for media servers by  *)
(* running a second GMainLoop on the default context.  The main thread     *)
(* owns that context, so the callbacks and the timer that ends the scan    *)
(* run there, while the network thread waits inside g_main_loop_run.       *)
(*                                                                         *)
(* The timer's callback is g_main_loop_quit, which returns nothing where a *)
(* gboolean is expected: GLib drops the timer or keeps it, as the register *)
(* has it.                                                                 *)
(***************************************************************************)
EXTENDS Naturals, Sequences

CONSTANTS Locations,  \* description.xml locations of content directories
          OtherLocations, \* what else is announced on the network
          Nothing,    \* no callback under way
          MaxScans,   \* how many scans clients ask for
          MaxHeard    \* how many announcements arrive

ASSUME BoundsAssumption == MaxScans \in Nat /\ MaxHeard \in Nat
ASSUME NothingAssumption ==
  Nothing \notin Locations \cup OtherLocations
ASSUME OtherAssumption == Locations \cap OtherLocations = {}

VARIABLES
  pc,             \* the network thread
  mScanCompFlag,  \* a scan is under way
  mScannedDevs,   \* the locations heard of
  browser,        \* is there an active resource browser?
  running,        \* is_running of the second loop
  timers,         \* quit timers attached to the context
  callback,       \* the location the main thread is about to push
  answered,       \* what discoverUPnPMediaServer answered last
  heard,          \* the locations announced since the scan began
  scans, arrivals \* counted for the bounds

vars == <<pc, mScanCompFlag, mScannedDevs, browser, running, timers, callback,
          answered, heard, scans, arrivals>>
mainVars == <<callback, arrivals>>

Range(s) == {s[i] : i \in 1 .. Len(s)}

Init ==
  /\ pc = "idle"
  /\ mScanCompFlag = FALSE
  /\ mScannedDevs = <<>>
  /\ browser = FALSE
  /\ running = FALSE
  /\ timers = 0
  /\ callback = Nothing
  /\ answered = <<>>
  /\ heard = {}
  /\ scans = 0
  /\ arrivals = 0

(***************************************************************************)
(* The network thread.                                                     *)
(***************************************************************************)
\* MUTANT: the locations of the scan before are kept.
startScan_Keeps ==
  /\ pc = "idle"
  /\ scans < MaxScans
  /\ scans' = scans + 1
  /\ IF mScanCompFlag
     THEN /\ pc' = "getScannedDevices"
          /\ UNCHANGED <<mScanCompFlag, mScannedDevs, heard>>
     ELSE /\ pc' = "client"
          /\ mScanCompFlag' = TRUE
          /\ heard' = IF callback = Nothing THEN {} ELSE {callback}
          /\ UNCHANGED mScannedDevs
  /\ UNCHANGED <<browser, running, timers, answered, mainVars>>

\* A callback that is under way belongs to the scan that it will push into.
startScan ==
  /\ pc = "idle"
  /\ scans < MaxScans
  /\ scans' = scans + 1
  /\ IF mScanCompFlag
     THEN /\ pc' = "getScannedDevices"
          /\ UNCHANGED <<mScanCompFlag, mScannedDevs, heard>>
     ELSE /\ pc' = "client"
          /\ mScanCompFlag' = TRUE
          /\ mScannedDevs' = <<>>
          /\ heard' = IF callback = Nothing THEN {} ELSE {callback}
  /\ UNCHANGED <<browser, running, timers, answered, mainVars>>

\* gssdp_client_new fails: startScan returns with the flag still set.
clientFails ==
  /\ pc = "client"
  /\ pc' = "getScannedDevices"
  /\ UNCHANGED <<mScanCompFlag, mScannedDevs, browser, running, timers,
                 answered, heard, scans, mainVars>>

\* MUTANT: no timer ends the scan.
runLoop_NoTimer ==
  /\ pc = "client"
  /\ browser' = TRUE
  /\ running' = TRUE
  /\ pc' = "run"
  /\ UNCHANGED <<mScanCompFlag, mScannedDevs, timers, answered, heard, scans,
                 mainVars>>

\* The browser is made active, the timer attached and the loop run: the two
\* seconds of the timer do not pass in between.
runLoop ==
  /\ pc = "client"
  /\ browser' = TRUE
  /\ timers' = timers + 1
  /\ running' = TRUE
  /\ pc' = "run"
  /\ UNCHANGED <<mScanCompFlag, mScannedDevs, answered, heard, scans, mainVars>>

\* g_main_loop_run returns; browser and client are let go.
loopReturns ==
  /\ pc = "run"
  /\ ~running
  /\ browser' = FALSE
  /\ mScanCompFlag' = FALSE
  /\ pc' = "getScannedDevices"
  /\ UNCHANGED <<mScannedDevs, running, timers, answered, heard, scans, mainVars>>

\* It spins while the flag is set; the caller then answers the list.
getScannedDevices ==
  /\ pc = "getScannedDevices"
  /\ ~mScanCompFlag
  /\ answered' = mScannedDevs
  /\ pc' = "idle"
  /\ UNCHANGED <<mScanCompFlag, mScannedDevs, browser, running, timers, heard,
                 scans, mainVars>>

(***************************************************************************)
(* The main thread.                                                        *)
(***************************************************************************)
\* A signal is emitted while the browser is there ...
announced(l) ==
  /\ browser
  /\ callback = Nothing
  /\ arrivals < MaxHeard
  /\ arrivals' = arrivals + 1
  /\ callback' = l
  /\ heard' = heard \cup {l}
  /\ UNCHANGED <<pc, mScanCompFlag, mScannedDevs, browser, running, timers,
                 answered, scans>>

\* MUTANT: whatever is announced is taken for a media server.
on_resource_available_All ==
  /\ callback # Nothing
  /\ mScannedDevs' = Append(mScannedDevs, callback)
  /\ callback' = Nothing
  /\ UNCHANGED <<pc, mScanCompFlag, browser, running, timers, answered, heard,
                 scans, arrivals>>

\* ... and its callback pushes the location of a content directory, maybe
\* after the loop returned.  A vector that is read at that moment is read
\* before or after the push.
on_resource_available ==
  /\ callback # Nothing
  /\ mScannedDevs' = IF callback \in Locations
                     THEN Append(mScannedDevs, callback) ELSE mScannedDevs
  /\ callback' = Nothing
  /\ UNCHANGED <<pc, mScanCompFlag, browser, running, timers, answered, heard,
                 scans, arrivals>>

quitTimer ==
  /\ timers > 0
  /\ running' = FALSE
  /\ timers' \in {timers - 1, timers}
  /\ UNCHANGED <<pc, mScanCompFlag, mScannedDevs, browser, callback, answered,
                 heard, scans, arrivals>>

Next ==
  \/ startScan \/ clientFails \/ runLoop \/ loopReturns \/ getScannedDevices
  \/ \E l \in Locations \cup OtherLocations : announced(l)
  \/ on_resource_available \/ quitTimer

\* GLib runs a timer that is due, the operating system schedules the network
\* thread.  Nothing makes servers announce themselves or clients scan.
Fairness ==
  /\ WF_vars(quitTimer)
  /\ WF_vars(loopReturns)
  /\ WF_vars(getScannedDevices)

Spec == Init /\ [][Next]_vars /\ Fairness

(***************************************************************************)
(* Properties.                                                             *)
(***************************************************************************)
\* The list of scanned devices holds nothing but locations of media servers.
TypeOK ==
  /\ pc \in {"idle", "client", "run", "getScannedDevices"}
  /\ mScanCompFlag \in BOOLEAN
  /\ browser \in BOOLEAN
  /\ running \in BOOLEAN
  /\ timers \in 0 .. MaxScans
  /\ callback \in Locations \cup OtherLocations \cup {Nothing}
  /\ mScannedDevs \in Seq(Locations)
  /\ answered \in Seq(Locations)
  /\ heard \subseteq Locations \cup OtherLocations
  /\ scans \in 0 .. MaxScans
  /\ arrivals \in 0 .. MaxHeard

\* A scan reports only servers that announced themselves during that scan,
\* or whose callback was already under way as it began, even though the
\* main thread may still push into the list after the loop has returned.
AnswerIsFresh ==
  [][pc = "getScannedDevices" /\ pc' = "idle" => Range(answered') \subseteq heard]_vars

\* A scan that got its client ends and is answered: its timer is still there
\* when the loop runs, whatever timers of earlier scans did.
ScanEnds == (pc = "run") ~> (pc = "idle")
=============================================================================
