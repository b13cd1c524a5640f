----------------------------- MODULE UpnpBrowse -----------------------------
(***************************************************************************)
(* UpnpOperation: list and getProperties of a UPnP drive.  The network     *)
(* thread fetches the server's description, walks the path one SOAP Browse *)
(* call per name, and lists the container it arrives at.  Every call takes *)
(* up to 300 ms, may fail, and meets the server as it is at that moment:   *)
(* its objects come, go and change their titles between the calls.         *)
(*                                                                         *)
(* A path is any text: the words after its first slash, some of them empty *)
(* where slashes follow each other.  A server answers with the children of *)
(* the object asked for and does not use an id twice.  Its ids are texts;  *)
(* of an id the code keeps the number it begins with, and it asks for that *)
(* number.  No id begins with a minus sign.                                *)
(***************************************************************************)
EXTENDS Integers, Sequences

CONSTANTS Servers,     \* description URLs, one for each drive
          Ids,         \* object ids other than the root's, which is 0
          Number,      \* [Servers -> [Ids -> the number the id begins with]]
          Unreadable,  \* [Servers -> the objects that stoi throws on]
          Titles,      \* titles of objects
          Words,       \* what may stand between the slashes of a path
          Empty,       \* nothing between two slashes, or at the end
          Shortened,   \* [Words -> word]: without its first character
          Paths,       \* the paths asked for, by their words
          NoTitle,     \* the title of an object that is not there
          NoUrl,       \* an empty control URL
          FirstTrees,  \* [Servers -> the trees it may have at first]
          MaxChanges   \* how often servers change

Root == 0
Gone == -1   \* "no id": the parent of an object that is not there

\* An id that is just a number is that number here, and no other id is: the
\* ids "2" and "2$8" are 2 and, say, 28, and the number of both is 2.
ASSUME IdsAssumption == /\ Ids \subseteq Nat \ {Root}
                        /\ Number \in [Servers -> [Ids -> Nat]]
                        /\ Unreadable \in [Servers -> SUBSET Ids]
ASSUME ServersAssumption == NoUrl \notin Servers
ASSUME WordsAssumption == Empty \notin Words /\ Titles \subseteq Words
                          /\ Shortened \in [Words -> Words \cup {Empty}]
ASSUME PathsAssumption == Paths \subseteq Seq(Words \cup {Empty})
ASSUME ChangesAssumption == MaxChanges \in Nat

Absent == [parent |-> Gone, title |-> NoTitle]
Objects == [parent : Ids \cup {Root}, title : Titles] \cup {Absent}

\* No object is its own ancestor, whichever way it is reached.
wellFounded(t) ==
  \A c \in Ids : t[c].parent \in Ids =>
                   t[c].parent < c /\ t[t[c].parent] # Absent

ASSUME TreesAssumption ==
  \A s \in Servers : \A t \in FirstTrees[s] : t \in [Ids -> Objects] /\ wellFounded(t)

VARIABLES
  tree,         \* [Servers -> [Ids -> parent and title]]
  changes,      \* how often they changed
  pc,           \* the next call of the network thread
  req,          \* the request it is at, or was at last
  mControlUrl,  \* the server the calls go to
  mDirPathNames,  \* the names to walk
  met,          \* history: the objects that the names done have led to
  contId,       \* the number that stands for the container arrived at
  answer,       \* the reply to that request
  quiet,        \* has the server not changed since the request began?
  failed        \* did one of its calls fail?

vars == <<tree, changes, pc, req, mControlUrl, mDirPathNames, met, contId,
          answer, quiet, failed>>
serverVars == <<tree, changes>>

Requests == [op : {"list", "getProperties"}, server : Servers, path : Paths]
NoRequest == [op |-> "none", server |-> NoUrl, path |-> <<>>]

Replies == [sent : BOOLEAN, ok : BOOLEAN, files : SUBSET Ids]
NoReply == [sent |-> FALSE, ok |-> FALSE, files |-> {}]

\* The names that getContainerId reads from a path.  After an empty word it
\* skips two characters instead of one: two slashes, or a slash and the first
\* character of the word behind it.  Where there are no two characters, substr
\* throws: the last name is Empty.
namesIn(path) ==
  LET n == Len(path)
      names[i \in 1..(n + 1)] ==
        [cut \in BOOLEAN |->
          IF i > n THEN <<>>
          ELSE LET word == IF cut THEN Shortened[path[i]] ELSE path[i]
               IN  IF word # Empty THEN <<word>> \o names[i + 1][FALSE]
                   ELSE IF i = n THEN <<Empty>>
                   ELSE IF path[i + 1] # Empty THEN names[i + 1][TRUE]
                   ELSE IF i + 1 = n THEN <<Empty>>
                   ELSE names[i + 2][FALSE]]
  IN  names[1][FALSE]

splitThrows(path) == \E i \in DOMAIN namesIn(path) : namesIn(path)[i] = Empty

\* What a container holds.
content(s, x) == {c \in Ids : tree[s][c].parent = x}

\* What a server says to Browse for number n: nothing, if that is no id of it.
browse(s, n) ==
  {c \in content(s, n) : n = Root \/ (n \in Ids /\ Number[s][n] = n)}

\* Does that answer hold an id, a restricted or a childCount without a number?
\* All its objects are read before one is looked for.
stoiFails(s, n) == browse(s, n) \cap Unreadable[s] # {}

Init ==
  /\ tree \in [Servers -> [Ids -> Objects]]
  /\ \A s \in Servers : tree[s] \in FirstTrees[s]
  /\ changes = 0
  /\ pc = "idle"
  /\ req = NoRequest
  /\ mControlUrl = NoUrl
  /\ mDirPathNames = <<>>
  /\ met = <<>>
  /\ contId = Gone
  /\ answer = NoReply
  /\ quiet = TRUE
  /\ failed = FALSE

(***************************************************************************)
(* The network thread.                                                     *)
(***************************************************************************)
\* list takes a path that begins with a slash and does not end with one;
\* getProperties takes any.
takes(op, p) == op = "list" => p # <<>> /\ p[Len(p)] # Empty

\* MUTANT: the container is the root until another is found.
request_RootFirst(op, s, p) ==
  /\ pc = "idle"
  /\ takes(op, p)
  /\ req' = [op |-> op, server |-> s, path |-> p]
  /\ pc' = "describe"
  /\ mControlUrl' = NoUrl
  /\ met' = <<>>
  /\ contId' = Root
  /\ answer' = NoReply
  /\ quiet' = TRUE
  /\ failed' = FALSE
  /\ UNCHANGED <<mDirPathNames, serverVars>>

\* The drive is known; list refuses a path it does not take, or
\* getContainerId begins.
request(op, s, p) ==
  /\ pc = "idle"
  /\ req' = [op |-> op, server |-> s, path |-> p]
  /\ met' = <<>>
  /\ contId' = Gone
  /\ quiet' = TRUE
  /\ failed' = FALSE
  /\ \/ /\ takes(op, p)
        /\ pc' = "describe"
        /\ mControlUrl' = NoUrl
        /\ answer' = NoReply
     \/ /\ ~takes(op, p)
        /\ answer' = [sent |-> TRUE, ok |-> FALSE, files |-> {}]
        /\ UNCHANGED <<pc, mControlUrl>>
  /\ UNCHANGED <<mDirPathNames, serverVars>>

\* send of CurlClient returns an error: no connection, or no answer within
\* 300 ms.
sendFails == failed' = TRUE

walkOrList(names) == IF names = <<>> THEN "list" ELSE "walk"

\* MUTANT: the names of the request before are kept.
getDescription_KeepsNames ==
  /\ pc = "describe"
  /\ \/ /\ ~splitThrows(req.path)
        /\ mControlUrl' = req.server
        /\ mDirPathNames' = mDirPathNames \o namesIn(req.path)
        /\ pc' = walkOrList(mDirPathNames')
        /\ UNCHANGED failed
     \/ /\ sendFails
        /\ pc' = "list"
        /\ UNCHANGED <<mControlUrl, mDirPathNames>>
  /\ UNCHANGED <<req, met, contId, answer, quiet, serverVars>>

\* The description gives the control URL, and the path is split.  Without a
\* description, or with no name to walk, there is no container.
getDescription ==
  /\ pc = "describe"
  /\ \/ /\ ~splitThrows(req.path)
        /\ mControlUrl' = req.server
        /\ mDirPathNames' = namesIn(req.path)
        /\ pc' = walkOrList(mDirPathNames')
        /\ UNCHANGED failed
     \/ /\ sendFails
        /\ pc' = "list"
        /\ UNCHANGED <<mControlUrl, mDirPathNames>>
  /\ UNCHANGED <<req, met, contId, answer, quiet, serverVars>>

\* Nothing catches the exception of the split: the handler ends unanswered,
\* with the names it had come to.
substrThrows ==
  /\ pc = "describe"
  /\ splitThrows(req.path)
  /\ mControlUrl' = req.server
  /\ mDirPathNames' = SubSeq(namesIn(req.path), 1, Len(namesIn(req.path)) - 1)
  /\ pc' = "idle"
  /\ UNCHANGED <<req, met, contId, answer, quiet, failed, serverVars>>

\* The walk begins at the root although contId is still -1.
from == IF met = <<>> THEN Root ELSE contId

\* The name to look for.
dirName == mDirPathNames[Len(met) + 1]

\* MUTANT: the loop is left before contId is given the id that is missing.
getNextDirId_KeepsParent ==
  /\ pc = "walk"
  /\ \/ \E c \in browse(mControlUrl, from) :
          /\ ~stoiFails(mControlUrl, from)
          /\ tree[mControlUrl][c].title = dirName
          /\ contId' = Number[mControlUrl][c]
          /\ met' = Append(met, c)
          /\ pc' = IF Len(met') = Len(mDirPathNames) THEN "list" ELSE "walk"
          /\ UNCHANGED failed
     \/ /\ ~stoiFails(mControlUrl, from)
        /\ \A c \in browse(mControlUrl, from) : tree[mControlUrl][c].title # dirName
        /\ pc' = "list"
        /\ UNCHANGED <<contId, met, failed>>
     \/ sendFails /\ pc' = "list" /\ UNCHANGED <<contId, met>>
  /\ UNCHANGED <<req, mControlUrl, mDirPathNames, answer, quiet, serverVars>>

\* The number of the first child with the title, or -1, which ends the walk.
getNextDirId ==
  /\ pc = "walk"
  /\ \/ \E c \in browse(mControlUrl, from) :
          /\ ~stoiFails(mControlUrl, from)
          /\ tree[mControlUrl][c].title = dirName
          /\ contId' = Number[mControlUrl][c]
          /\ met' = Append(met, c)
          /\ pc' = IF Len(met') = Len(mDirPathNames) THEN "list" ELSE "walk"
          /\ UNCHANGED failed
     \/ /\ ~stoiFails(mControlUrl, from)
        /\ \A c \in browse(mControlUrl, from) : tree[mControlUrl][c].title # dirName
        /\ contId' = Gone
        /\ pc' = "list"
        /\ UNCHANGED <<met, failed>>
     \/ sendFails /\ contId' = Gone /\ pc' = "list" /\ UNCHANGED met
  /\ UNCHANGED <<req, mControlUrl, mDirPathNames, answer, quiet, serverVars>>

\* MUTANT: a list that did not come is answered as an empty folder.
replyFor_EmptyIsFine(devs) ==
  {[sent |-> TRUE, ok |-> TRUE, files |-> devs]}

\* list fails on an empty answer; getProperties succeeds and describes the
\* first child, if there is one.
replyFor(devs) ==
  IF req.op = "list" THEN {[sent |-> TRUE, ok |-> devs # {}, files |-> devs]}
  ELSE {[sent |-> TRUE, ok |-> TRUE, files |-> f] :
          f \in IF devs = {} THEN {{}} ELSE {{c} : c \in devs}}

\* -1 and an empty URL go to the wire too, and nothing comes back.
listDirContents ==
  /\ pc = "list"
  /\ \/ /\ mControlUrl # NoUrl /\ contId # Gone
        /\ ~stoiFails(mControlUrl, contId)
        /\ answer' \in replyFor(browse(mControlUrl, contId))
        /\ UNCHANGED failed
     \/ /\ mControlUrl = NoUrl \/ contId = Gone
        /\ answer' \in replyFor({})
        /\ UNCHANGED failed
     \/ answer' \in replyFor({}) /\ sendFails
  /\ pc' = "idle"
  /\ UNCHANGED <<req, mControlUrl, mDirPathNames, met, contId, quiet, serverVars>>

\* Nothing catches the exception of stoi: the handler ends unanswered, in the
\* walk or at its end.
stoiThrows ==
  /\ \/ pc = "walk" /\ stoiFails(mControlUrl, from)
     \/ /\ pc = "list" /\ mControlUrl # NoUrl /\ contId # Gone
        /\ stoiFails(mControlUrl, contId)
  /\ pc' = "idle"
  /\ UNCHANGED <<req, mControlUrl, mDirPathNames, met, contId, answer, quiet,
                 failed, serverVars>>

(***************************************************************************)
(* The servers.                                                            *)
(***************************************************************************)
serverChanges(s, c, object) ==
  /\ changes < MaxChanges
  /\ object # tree[s][c]
  /\ tree' = [tree EXCEPT ![s][c] = object]
  /\ wellFounded(tree'[s])
  /\ changes' = changes + 1
  /\ quiet' = (quiet /\ (pc = "idle" \/ s # req.server))
  /\ UNCHANGED <<pc, req, mControlUrl, mDirPathNames, met, contId, answer, failed>>

Next ==
  \/ \E op \in {"list", "getProperties"}, s \in Servers, p \in Paths :
       request(op, s, p)
  \/ getDescription \/ substrThrows \/ getNextDirId \/ listDirContents \/ stoiThrows
  \/ \E s \in Servers, c \in Ids, object \in Objects : serverChanges(s, c, object)

Spec == Init /\ [][Next]_vars

(***************************************************************************)
(* Properties.                                                             *)
(***************************************************************************)
\* The walk's state is well formed: it is at a number or nowhere, nowhere
\* before its first name, and it is never beyond the last name.
TypeOK ==
  /\ tree \in [Servers -> [Ids -> Objects]]
  /\ changes \in 0 .. MaxChanges
  /\ pc \in {"idle", "describe", "walk", "list"}
  /\ req \in Requests \cup {NoRequest}
  /\ mControlUrl \in Servers \cup {NoUrl}
  /\ mDirPathNames \in Seq(Words)
  /\ met \in Seq(Ids)
  /\ Len(met) <= Len(mDirPathNames)
  /\ pc = "walk" => Len(met) < Len(mDirPathNames)
  /\ contId \in Nat \cup {Gone}
  /\ met = <<>> => contId = Gone
  /\ answer \in Replies
  /\ quiet \in BOOLEAN
  /\ failed \in BOOLEAN

Answers == pc = "list" /\ pc' = "idle" /\ answer'.sent

\* The containers that the first names of a path lead to on a server.
reached(s, p) ==
  LET to[k \in 0 .. Len(p)] ==
        IF k = 0 THEN {Root}
        ELSE {c \in Ids : tree[s][c].parent \in to[k - 1] /\ tree[s][c].title = p[k]}
  IN  to

at(s, p) == reached(s, p)[Len(p)]

\* The ids on the way there are just numbers.
exactIds(s, p) ==
  \A k \in 1 .. Len(p) : \A c \in reached(s, p)[k] : Number[s][c] = c

uniqueTitles(s) ==
  \A c, d \in Ids : /\ tree[s][c] = tree[s][d]
                    /\ tree[s][c] # Absent
                    => c = d

\* What is answered are objects of the server the drive stands for, and every
\* name read from the path has led to an object, the last one to the object
\* whose number was listed: a name that is missing, a call that fails half-way
\* or a request for another server or with another path before this one never
\* turns into a listing.  That number is the object's own id only where the id
\* is just a number.
WholePathOrNothing ==
  [][(Answers /\ answer'.files # {}) =>
       /\ mDirPathNames = namesIn(req.path)
       /\ Len(met) = Len(mDirPathNames) /\ met # <<>>
       /\ answer'.files \subseteq
            browse(req.server, Number[req.server][met[Len(met)]])]_vars

\* Every word of the path is a name.
plain(path) == path \in Seq(Words)

\* If the server did not change meanwhile, the path is a plain one and the ids
\* on it are just numbers, what list answers is the content of a container at
\* that very path, getProperties describes an object in it, and when no call
\* failed and titles are unique nothing that is there is missed.
SettledAnswerIsTrue ==
  [][(/\ Answers /\ quiet
      /\ req.path # <<>> /\ plain(req.path) /\ exactIds(req.server, req.path)) =>
       /\ answer'.files # {} =>
            \E x \in at(req.server, req.path) :
              IF req.op = "list" THEN answer'.files = content(req.server, x)
              ELSE answer'.files \subseteq content(req.server, x)
       /\ (answer'.files = {} /\ ~failed' /\ uniqueTitles(req.server)) =>
            \A x \in at(req.server, req.path) : content(req.server, x) = {}]_vars

\* list never answers a failed call with success: an empty folder and a
\* folder that could not be read both come back as an error.
FailedListSaysSo ==
  (req.op = "list" /\ answer.sent /\ failed) => ~answer.ok

(***************************************************************************)
(* What the code's own texts say and the code does not meet: violated when *)
(* added to the configuration of a run.  README, section 3.                *)
(***************************************************************************)
\* "Invalid Path" is what list says of a path that it cannot walk: a listing
\* that comes is of the path it names as its fullPath, empty words aside.
\* The word behind an empty one loses its first character.
ListsItsFullPath ==
  [][(/\ Answers /\ quiet /\ req.op = "list" /\ answer'.files # {}
      /\ exactIds(req.server, req.path)) =>
       \E x \in at(req.server, SelectSeq(req.path, LAMBDA w : w # Empty)) :
         answer'.files = content(req.server, x)]_vars

\* The same of paths without an empty word, for servers with any ids.  Where
\* an id is "2$8", stoi makes 2 of it, and container 2 is listed, which may be
\* the parent of the one the path names.
ListsPlainPaths ==
  [][(/\ Answers /\ quiet /\ req.op = "list" /\ answer'.files # {}
      /\ plain(req.path)) =>
       \E x \in at(req.server, req.path) : answer'.files = content(req.server, x)]_vars
=============================================================================
