----------------------------- MODULE ClientWatch -----------------------------
(***************************************************************************)
(* LSUtils::ClientWatch: every request keeps one to learn that its client  *)
(* has gone.  LS2 and the GLib timeout call it on the main loop; the last  *)
(* shared_ptr to it dies with the RequestData, on the main loop when the   *)
(* dispatcher was quick and otherwise on the thread of the handler.        *)
(***************************************************************************)
EXTENDS Naturals

CONSTANT Watches

\* The threads that may drop the last shared_ptr.
Destroyers == {"MAIN", "HANDLER"}

VARIABLES
  stage,                 \* where the watch is in its life
  connected,             \* is the client on the bus?
  told,                  \* has LS2 reported the current status to the watch?
  mCookie,               \* is the server status callback registered?
  mNotificationTimeout,  \* the field: is a notification pending?
  source                 \* GLib: timeout sources with this watch as user_data

watchVars == <<stage, connected, told, mCookie, mNotificationTimeout, source>>

\* A destructor on the main loop keeps every callback away until it is over.
mainLoopFree == \A w \in Watches : stage[w] \notin {"~MAIN", "~MAIN cancelled"}

\* The constructor: take a reference on the message, register for its sender.
startWatching(w) ==
  /\ mainLoopFree
  /\ stage[w] = "none"
  /\ stage' = [stage EXCEPT ![w] = "watching"]
  /\ mCookie' = [mCookie EXCEPT ![w] = TRUE]
  /\ UNCHANGED <<connected, told, mNotificationTimeout, source>>

\* The client leaves the bus, or comes back (external).
clientChanges(w) ==
  /\ connected' = [connected EXCEPT ![w] = ~@]
  /\ told' = [told EXCEPT ![w] = FALSE]
  /\ UNCHANGED <<stage, mCookie, mNotificationTimeout, source>>

\* Mutant: no look at a notification that is still pending.
triggerClientDroppedNotification_Again(w) ==
  /\ mNotificationTimeout' = [mNotificationTimeout EXCEPT ![w] = TRUE]
  /\ source' = [source EXCEPT ![w] = @ + 1]

triggerClientDroppedNotification(w) ==
  IF mNotificationTimeout[w]
  THEN UNCHANGED <<mNotificationTimeout, source>>
  ELSE /\ mNotificationTimeout' = [mNotificationTimeout EXCEPT ![w] = TRUE]
       /\ source' = [source EXCEPT ![w] = @ + 1]

serverStatusCallback(w) ==
  /\ mainLoopFree
  /\ mCookie[w]
  /\ ~told[w]
  /\ told' = [told EXCEPT ![w] = TRUE]
  /\ IF connected[w] THEN UNCHANGED <<mNotificationTimeout, source>>
     ELSE triggerClientDroppedNotification(w)
  /\ UNCHANGED <<stage, connected, mCookie>>

\* The timeout: it clears the field, and does not call mCallback.
sendClientDroppedNotification(w) ==
  /\ mainLoopFree
  /\ source[w] > 0
  /\ source' = [source EXCEPT ![w] = @ - 1]
  /\ mNotificationTimeout' =
       [mNotificationTimeout EXCEPT ![w] = stage[w] = "gone" /\ @]
  /\ UNCHANGED <<stage, connected, told, mCookie>>

\* Mutant: the pending source is left to fire.
removeSource_Keeps(w, t) ==
  /\ t = "MAIN" => mainLoopFree
  /\ stage[w] = "watching"
  /\ stage' = [stage EXCEPT ![w] = IF t = "MAIN" THEN "~MAIN" ELSE "~HANDLER"]
  /\ UNCHANGED <<connected, told, mCookie, mNotificationTimeout, source>>

\* ~ClientWatch, first part: g_source_remove of a pending notification.
removeSource(w, t) ==
  /\ t = "MAIN" => mainLoopFree
  /\ stage[w] = "watching"
  /\ stage' = [stage EXCEPT ![w] = IF t = "MAIN" THEN "~MAIN" ELSE "~HANDLER"]
  /\ source' = [source EXCEPT ![w] = IF mNotificationTimeout[w] THEN 0 ELSE @]
  /\ UNCHANGED <<connected, told, mCookie, mNotificationTimeout>>

\* Then LSCancelServerStatus.
cancelServerStatus(w) ==
  /\ stage[w] \in {"~MAIN", "~HANDLER"}
  /\ mCookie' = [mCookie EXCEPT ![w] = FALSE]
  /\ stage' = [stage EXCEPT ![w] = IF @ = "~MAIN" THEN "~MAIN cancelled"
                                   ELSE "~HANDLER cancelled"]
  /\ UNCHANGED <<connected, told, mNotificationTimeout, source>>

\* Then the message reference, and the memory.
freed(w) ==
  /\ stage[w] \in {"~MAIN cancelled", "~HANDLER cancelled"}
  /\ stage' = [stage EXCEPT ![w] = "gone"]
  /\ UNCHANGED <<connected, told, mCookie, mNotificationTimeout, source>>

WatchInit ==
  /\ stage = [w \in Watches |-> "none"]
  /\ connected = [w \in Watches |-> TRUE]
  /\ told = [w \in Watches |-> TRUE]
  /\ mCookie = [w \in Watches |-> FALSE]
  /\ mNotificationTimeout = [w \in Watches |-> FALSE]
  /\ source = [w \in Watches |-> 0]

MainLoop(w) == serverStatusCallback(w) \/ sendClientDroppedNotification(w)

WatchNext ==
  \E w \in Watches :
    \/ startWatching(w) \/ clientChanges(w) \/ MainLoop(w)
    \/ \E t \in Destroyers : removeSource(w, t)
    \/ cancelServerStatus(w) \/ freed(w)

WatchSpec == WatchInit /\ [][WatchNext]_watchVars
-----------------------------------------------------------------------------
(* Properties.                                                             *)

\* The field mirrors GLib's sources as long as the watch lives: a client that
\* comes and goes is notified once per pending notification, and the
\* destructor knows of every source it has to remove.
OneNotificationPending ==
  \A w \in Watches :
    stage[w] \in {"none", "watching"} =>
      source[w] = (IF mNotificationTimeout[w] THEN 1 ELSE 0)

\* A destructor on the main loop meets no callback half-way: once it has
\* cancelled the server status, no timeout is left that would run on the
\* memory it is about to free.
NoLateNotification ==
  \A w \in Watches : stage[w] = "~MAIN cancelled" => source[w] = 0

\* The destructor's "Don't send any pending notifications as that will fail",
\* for a watch that dies on the thread of its handler: there too no source
\* outlives the watch.
PendingNotificationRemoved ==
  \A w \in Watches : stage[w] = "gone" => source[w] = 0
=============================================================================
