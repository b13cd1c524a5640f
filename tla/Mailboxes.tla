------------------------------ MODULE Mailboxes ------------------------------
(***************************************************************************)
(* What the request path promises, without threads, mutexes, condition     *)
(* variables and JSON objects: a mailbox for every provider.  A request is *)
(* refused or posted to one box when it arrives.  Only the head of a box   *)
(* is worked on; when it leaves, it has been answered, or lies at the end  *)
(* of another box, or is out of the house, with somebody who may report    *)
(* back.  SAFService implements this (Mail there).                         *)
(***************************************************************************)
EXTENDS Naturals, Sequences

CONSTANTS Calls,      \* the messages of the clients
          Providers,  \* who has a mailbox
          Outside,    \* the providers that may hand a request out
          MaxAnswers  \* bound: answers one request may get from one provider

VARIABLES
  known,    \* the messages received
  box,      \* [Providers -> Seq(Calls)]: the request at work, then the others
  out,      \* the messages someone outside may still report on
  answered  \* the messages answered, in order

mail == <<known, box, out, answered>>

Init ==
  /\ known = {}
  /\ box = [p \in Providers |-> <<>>]
  /\ out = {}
  /\ answered = <<>>

Refuse(c) ==
  /\ c \notin known
  /\ known' = known \cup {c}
  /\ answered' = Append(answered, c)
  /\ UNCHANGED <<box, out>>

Post(c, p) ==
  /\ c \notin known
  /\ known' = known \cup {c}
  /\ box' = [box EXCEPT ![p] = Append(@, c)]
  /\ UNCHANGED <<out, answered>>

\* The head of the box is done, with as many answers as it takes.
Serve(p) ==
  /\ box[p] # <<>>
  /\ box' = [box EXCEPT ![p] = Tail(@)]
  /\ \E n \in 0..MaxAnswers :
       answered' = answered \o [i \in 1..n |-> Head(box[p])]
  /\ UNCHANGED <<known, out>>

HandOut(p) ==
  /\ box[p] # <<>>
  /\ box' = [box EXCEPT ![p] = Tail(@)]
  /\ out' = out \cup {Head(box[p])}
  /\ UNCHANGED <<known, answered>>

\* The head of the box goes on to the end of a box, its own included.
PassOn(p, q) ==
  /\ box[p] # <<>>
  /\ box' = [[box EXCEPT ![p] = Tail(@)] EXCEPT ![q] = Append(@, Head(box[p]))]
  /\ UNCHANGED <<known, out, answered>>

\* A report from outside: the request is posted again, or answered, and more
\* reports on it may follow or not.
Report(c, p) ==
  /\ c \in out
  /\ box' = [box EXCEPT ![p] = Append(@, c)]
  /\ UNCHANGED <<known, out, answered>>

ReportedAnswer(c) ==
  /\ c \in out
  /\ answered' = Append(answered, c)
  /\ out' \in {out, out \ {c}}
  /\ UNCHANGED <<known, box>>

Forget(c) ==
  /\ c \in out
  /\ out' = out \ {c}
  /\ UNCHANGED <<known, box, answered>>

Next ==
  \/ \E c \in Calls : Refuse(c) \/ ReportedAnswer(c) \/ Forget(c)
  \/ \E c \in Calls, p \in Providers : Post(c, p) \/ Report(c, p)
  \/ \E p \in Providers : Serve(p)
  \/ \E p \in Outside : HandOut(p)
  \/ \E p, q \in Providers : PassOn(p, q)

Spec == Init /\ [][Next]_mail
=============================================================================
