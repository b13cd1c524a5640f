-------------------------- MODULE UpnpBrowseProofs --------------------------
(***************************************************************************)
(* What a listing of a media server can be, for any servers, trees, paths  *)
(* and failures: what every name of the path has led to or nothing, an     *)
(* error when a call failed, and the truth when the server stays as it is. *)
(* The types and the last of these rest on what namesIn makes of a path.   *)
(***************************************************************************)
EXTENDS UpnpBrowse, SequenceTheorems, WellFoundedInduction, TLAPS

\* Where the walk is: nowhere before it begins; while it lasts it has the
\* names and the server of its own request; and when it has arrived at a
\* container every name has led to an object, and the container is the number
\* of the last of them.
WalkInv ==
  /\ met \in Seq(Ids)
  /\ pc = "describe" => contId = Gone /\ met = <<>>
  /\ pc = "walk" => mDirPathNames = namesIn(req.path) /\ mControlUrl = req.server
  /\ pc = "list" /\ contId # Gone =>
       /\ mDirPathNames = namesIn(req.path) /\ mControlUrl = req.server
       /\ Len(met) = Len(mDirPathNames) /\ met # <<>>
       /\ contId = Number[req.server][met[Len(met)]]

\* A call that fails ends the walk nowhere, and there is no answer before the
\* end.
FailInv ==
  /\ pc \in {"describe", "walk"} => ~failed
  /\ pc = "list" /\ contId # Gone => ~failed
  /\ pc # "idle" => ~answer.sent
  /\ FailedListSaysSo

LEMMA InitBrowses == Init => WalkInv /\ FailInv
<1>1. <<>> \in Seq(Ids)
  OBVIOUS
<1> QED BY <1>1 DEF Init, WalkInv, FailInv, FailedListSaysSo, NoReply, NoRequest

LEMMA NamesStay == req' = req => namesIn(req.path)' = namesIn(req.path)
OBVIOUS

LEMMA ServersLeaveWalk ==
  ASSUME WalkInv, FailInv,
         UNCHANGED <<pc, req, mControlUrl, mDirPathNames, met, contId, answer, failed>>
  PROVE  WalkInv' /\ FailInv'
BY NamesStay DEF WalkInv, FailInv, FailedListSaysSo

\* Nothing is in an answer that nothing was listed for.
LEMMA RepliesShowDevs ==
  ASSUME NEW devs, NEW r \in replyFor(devs)
  PROVE  /\ r.files \subseteq devs
         /\ req.op = "list" /\ devs = {} => ~r.ok
<1>1. CASE req.op = "list"
  <2>1. r = [sent |-> TRUE, ok |-> devs # {}, files |-> devs]
    BY <1>1 DEF replyFor
  <2>2. r.files = devs
    BY <2>1
  <2>3. r.ok = (devs # {})
    BY <2>1, Zenon
  <2>4. devs = {} => ~r.ok
    BY <2>3, Zenon
  <2> QED BY <2>2, <2>4
<1>2. CASE req.op # "list" /\ devs = {}
  BY <1>2 DEF replyFor
<1>3. CASE req.op # "list" /\ devs # {}
  <2>1. replyFor(devs) = {[sent |-> TRUE, ok |-> TRUE, files |-> f] : f \in {{c} : c \in devs}}
    BY <1>3 DEF replyFor
  <2>2. PICK c \in devs : r = [sent |-> TRUE, ok |-> TRUE, files |-> {c}]
    BY <2>1
  <2>3. r.files = {c}
    BY <2>2
  <2> QED BY <1>3, <2>3
<1> QED BY <1>1, <1>2, <1>3

LEMMA RequestWalks ==
  ASSUME WalkInv, FailInv, NEW op, NEW s, NEW p, request(op, s, p)
  PROVE  WalkInv' /\ FailInv'
<1>1. met' = <<>> /\ met' \in Seq(Ids) /\ contId' = Gone
  BY DEF request
<1>2. CASE takes(op, p)
  BY <1>1, <1>2 DEF request, WalkInv, FailInv, FailedListSaysSo, NoReply
<1>3. CASE ~takes(op, p)
  BY <1>1, <1>3 DEF request, WalkInv, FailInv, FailedListSaysSo
<1> QED BY <1>2, <1>3

LEMMA DescriptionWalks ==
  ASSUME WalkInv, FailInv, getDescription \/ substrThrows
  PROVE  WalkInv' /\ FailInv'
<1>1. CASE getDescription
  <2>1. /\ pc = "describe" /\ contId = Gone /\ ~failed /\ ~answer.sent
        /\ met \in Seq(Ids) /\ UNCHANGED <<req, met, contId, answer>>
    BY <1>1 DEF getDescription, WalkInv, FailInv
  <2>2. pc' \in {"walk", "list"}
    BY <1>1 DEF getDescription, walkOrList
  <2>3. pc' = "walk" => /\ mDirPathNames' = namesIn(req.path)
                        /\ mControlUrl' = req.server /\ failed' = failed
    BY <1>1 DEF getDescription
  <2>4. namesIn(req.path)' = namesIn(req.path)
    BY <2>1, NamesStay
  <2>5. WalkInv'
    BY <2>1, <2>2, <2>3, <2>4 DEF WalkInv
  <2>6. FailInv'
    BY <2>1, <2>2, <2>3 DEF FailInv, FailedListSaysSo
  <2> QED BY <2>5, <2>6
<1>2. CASE substrThrows
  BY <1>2 DEF substrThrows, WalkInv, FailInv, FailedListSaysSo
<1> QED BY <1>1, <1>2

\* One object further.
LEMMA MetGrows ==
  ASSUME NEW q \in Seq(Ids), NEW c \in Ids
  PROVE  /\ Append(q, c) \in Seq(Ids) /\ Len(Append(q, c)) = Len(q) + 1
         /\ Append(q, c) # <<>> /\ Append(q, c)[Len(Append(q, c))] = c
         /\ Len(q) \in Nat
BY AppendProperties, LenProperties

LEMMA NextDirWalks ==
  ASSUME WalkInv, FailInv, getNextDirId \/ stoiThrows
  PROVE  WalkInv' /\ FailInv'
<1>1. CASE getNextDirId
  <2>1. /\ pc = "walk" /\ ~failed /\ ~answer.sent
        /\ mDirPathNames = namesIn(req.path) /\ mControlUrl = req.server
        /\ UNCHANGED <<req, mControlUrl, mDirPathNames, answer>>
    BY <1>1 DEF getNextDirId, WalkInv, FailInv
  <2>2. namesIn(req.path)' = namesIn(req.path)
    BY <2>1, NamesStay
  <2>3. \/ \E c \in Ids :
             /\ contId' = Number[req.server][c] /\ met' = Append(met, c)
             /\ pc' = IF Len(met') = Len(mDirPathNames) THEN "list" ELSE "walk"
             /\ failed' = failed
        \/ contId' = Gone /\ pc' = "list" /\ met' = met
    BY <1>1, <2>1 DEF getNextDirId, browse, content
  <2>4. \/ /\ met' \in Seq(Ids) /\ met' # <<>>
           /\ contId' = Number[req.server][met'[Len(met')]]
           /\ pc' = IF Len(met') = Len(mDirPathNames) THEN "list" ELSE "walk"
           /\ failed' = failed
        \/ contId' = Gone /\ pc' = "list" /\ met' \in Seq(Ids)
    BY <2>3, MetGrows DEF WalkInv
  <2>5. WalkInv'
    BY <2>1, <2>2, <2>4 DEF WalkInv
  <2>6. FailInv'
    BY <2>1, <2>4 DEF FailInv, FailedListSaysSo
  <2> QED BY <2>5, <2>6
<1>2. CASE stoiThrows
  BY <1>2 DEF stoiThrows, WalkInv, FailInv, FailedListSaysSo
<1> QED BY <1>1, <1>2

LEMMA ListingAnswers ==
  ASSUME WalkInv, FailInv, listDirContents
  PROVE  WalkInv' /\ FailInv'
<1>1. pc = "list" /\ pc' = "idle" /\ UNCHANGED <<req, met>>
  BY DEF listDirContents
<1>2. (failed' = failed /\ ~failed) \/ (req.op = "list" => ~answer'.ok)
  <2>1. CASE contId # Gone /\ failed' = failed
    BY <1>1, <2>1 DEF FailInv
  <2>2. CASE answer' \in replyFor({})
    BY <2>2, RepliesShowDevs
  <2> QED BY <2>1, <2>2 DEF listDirContents
<1>3. FailedListSaysSo'
  BY <1>1, <1>2 DEF FailedListSaysSo
<1> QED BY <1>1, <1>3 DEF WalkInv, FailInv

LEMMA NextBrowses == WalkInv /\ FailInv /\ [Next]_vars => WalkInv' /\ FailInv'
<1> SUFFICES ASSUME WalkInv, FailInv, [Next]_vars
             PROVE  WalkInv' /\ FailInv'
  OBVIOUS
<1>1. ASSUME NEW op \in {"list", "getProperties"}, NEW s \in Servers,
             NEW p \in Paths, request(op, s, p)
      PROVE  WalkInv' /\ FailInv'
  BY <1>1, RequestWalks
<1>2. CASE getDescription \/ substrThrows
  BY <1>2, DescriptionWalks
<1>3. CASE getNextDirId \/ stoiThrows
  BY <1>3, NextDirWalks
<1>4. CASE listDirContents
  BY <1>4, ListingAnswers
<1>5. ASSUME NEW s \in Servers, NEW c \in Ids, NEW object \in Objects,
             serverChanges(s, c, object)
      PROVE  WalkInv' /\ FailInv'
  BY <1>5, ServersLeaveWalk DEF serverChanges
<1>6. CASE UNCHANGED vars
  BY <1>6, ServersLeaveWalk DEF vars
<1> QED BY <1>1, <1>2, <1>3, <1>4, <1>5, <1>6 DEF Next

\* A folder that could not be read is never listed as an empty one, whatever
\* calls to whatever servers fail.
THEOREM FailuresAreSaid == Spec => []FailedListSaysSo
<1>1. FailInv => FailedListSaysSo
  BY DEF FailInv
<1> QED BY <1>1, InitBrowses, NextBrowses, PTL DEF Spec

\* Only the last call of a request answers.
LEMMA OnlyListingAnswers ==
  ASSUME FailInv, [Next]_vars, Answers
  PROVE  listDirContents /\ pc = "list"
<1>1. pc = "list" /\ pc' = "idle" /\ answer'.sent /\ ~answer.sent
  BY DEF Answers, FailInv
<1>2. ~stoiThrows
  BY <1>1 DEF stoiThrows
<1> QED BY <1>1, <1>2 DEF Next, vars, request, getDescription, substrThrows,
                          getNextDirId, serverChanges

LEMMA FilesFromListing ==
  ASSUME WalkInv, FailInv, [Next]_vars, Answers, answer'.files # {}
  PROVE  /\ mDirPathNames = namesIn(req.path)
         /\ Len(met) = Len(mDirPathNames) /\ met # <<>>
         /\ answer'.files \subseteq
              browse(req.server, Number[req.server][met[Len(met)]])
<1>1. listDirContents
  BY OnlyListingAnswers
<1>2. answer' \notin replyFor({})
  BY RepliesShowDevs
<1>3. contId # Gone /\ answer' \in replyFor(browse(mControlUrl, contId))
  BY <1>1, <1>2 DEF listDirContents
<1>4. answer'.files \subseteq browse(mControlUrl, contId)
  BY <1>3, RepliesShowDevs
<1> QED BY <1>3, <1>4 DEF WalkInv, Answers

\* A listing is of the drive's own server, of the number of the object that
\* the last of all the names has led to, with any servers, ids, paths and
\* changes of the servers.
THEOREM WholePathOnly == Spec => WholePathOrNothing
<1>1. WalkInv /\ FailInv /\ [Next]_vars =>
        [(Answers /\ answer'.files # {}) =>
           /\ mDirPathNames = namesIn(req.path)
           /\ Len(met) = Len(mDirPathNames) /\ met # <<>>
           /\ answer'.files \subseteq
                browse(req.server, Number[req.server][met[Len(met)]])]_vars
  BY FilesFromListing
<1> QED BY <1>1, InitBrowses, NextBrowses, PTL DEF Spec, WholePathOrNothing

-----------------------------------------------------------------------------
(***************************************************************************)
(* The names read from a path.                                             *)
(***************************************************************************)
\* A set of numbers has a least one, and a bounded one a greatest: what
\* inductions over a path rest on.
LEMMA NatLeast ==
  ASSUME NEW T \in SUBSET Nat, T # {}
  PROVE  \E m \in T : \A n \in T : m <= n
<1>1. \E m \in T : \A n \in T : ~(<<n, m>> \in OpToRel(<, Nat))
  BY WFMin, NatLessThanWellFounded, Zenon
<1>2. \E m \in T : \A n \in T : ~(n < m)
  BY <1>1, Zenon DEF OpToRel
<1> QED
  BY <1>2

LEMMA NatGreatest ==
  ASSUME NEW n \in Nat, NEW T \in SUBSET (0 .. n), T # {}
  PROVE  \E m \in T : \A x \in T : x <= m
<1> DEFINE U == {d \in 0 .. n : n - d \in T}
<1>1. U \in SUBSET Nat /\ U # {}
  <2>1. PICK x \in T : TRUE
    OBVIOUS
  <2>2. x \in 0 .. n /\ n - x \in 0 .. n /\ n - (n - x) = x
    OBVIOUS
  <2>3. n - x \in U
    BY <2>2
  <2>4. U \in SUBSET Nat
    OBVIOUS
  <2> HIDE DEF U
  <2> QED BY <2>3, <2>4
<1>2. PICK d \in U : \A c \in U : d <= c
  BY <1>1, NatLeast
<1>3. ASSUME NEW x \in T PROVE x <= n - d
  <2>1. x \in 0 .. n /\ n - x \in 0 .. n /\ n - (n - x) = x
    OBVIOUS
  <2>2. n - x \in U
    BY <2>1
  <2>3. d <= n - x /\ d \in 0 .. n
    BY <1>2, <2>2
  <2> QED BY <2>1, <2>3
<1> QED BY <1>2, <1>3

\* The names from the i-th word of the path on, by those of later words, f.
namesFrom(path, f, i, cut) ==
  LET word == IF cut THEN Shortened[path[i]] ELSE path[i]
  IN  IF i > Len(path) THEN <<>>
      ELSE IF word # Empty THEN <<word>> \o f[i + 1][FALSE]
      ELSE IF i = Len(path) THEN <<Empty>>
      ELSE IF path[i + 1] # Empty THEN f[i + 1][TRUE]
      ELSE IF i + 1 = Len(path) THEN <<Empty>>
      ELSE f[i + 2][FALSE]

LEMMA NamesLocal ==
  ASSUME NEW path, Len(path) \in Nat, NEW i \in 1 .. (Len(path) + 1), NEW cut,
         NEW f, NEW g,
         \A j \in (i + 1) .. (Len(path) + 1) : \A c \in BOOLEAN : f[j][c] = g[j][c]
  PROVE  namesFrom(path, f, i, cut) = namesFrom(path, g, i, cut)
<1>1. CASE i > Len(path)
  BY <1>1 DEF namesFrom
<1>2. CASE i <= Len(path)
  <2>1. f[i + 1][FALSE] = g[i + 1][FALSE] /\ f[i + 1][TRUE] = g[i + 1][TRUE]
    <3>1. i + 1 \in (i + 1) .. (Len(path) + 1) /\ TRUE \in BOOLEAN /\ FALSE \in BOOLEAN
      BY <1>2
    <3> QED BY <3>1, Zenon
  <2>2. i # Len(path) /\ i + 1 # Len(path) => f[i + 2][FALSE] = g[i + 2][FALSE]
    <3>1. i # Len(path) /\ i + 1 # Len(path) => i + 2 \in (i + 1) .. (Len(path) + 1)
      BY <1>2
    <3>2. FALSE \in BOOLEAN
      OBVIOUS
    <3> QED BY <3>1, <3>2, Zenon
  <2> QED BY <1>2, <2>1, <2>2 DEF namesFrom
<1> QED BY <1>1, <1>2

\* The recursive definition has a function that meets it.
LEMMA NamesEquation ==
  ASSUME NEW path, Len(path) \in Nat
  PROVE  \E f : /\ namesIn(path) = f[1][FALSE]
                /\ \A i \in 1 .. (Len(path) + 1) : \A cut \in BOOLEAN :
                     f[i][cut] = namesFrom(path, f, i, cut)
<1> DEFINE n == Len(path)
           Meets(f, m) == \A i \in m .. (n + 1) : \A cut \in BOOLEAN :
                            f[i][cut] = namesFrom(path, f, i, cut)
           F(f) == [i \in 1 .. (n + 1) |->
                      [cut \in BOOLEAN |-> namesFrom(path, f, i, cut)]]
           Missing == {m \in 1 .. (n + 1) : \A f : ~Meets(f, m)}
<1>1. ASSUME NEW f, NEW m \in 1 .. (n + 1), \A i \in (m + 1) .. (n + 1) :
               \A cut \in BOOLEAN : f[i][cut] = namesFrom(path, f, i, cut)
      PROVE  \E g : Meets(g, m)
  <2> DEFINE new == [cut \in BOOLEAN |-> namesFrom(path, f, m, cut)]
             g == [i \in 1 .. (n + 1) |-> IF i = m THEN new ELSE f[i]]
  <2>1. \A i \in (m + 1) .. (n + 1) : \A c \in BOOLEAN : f[i][c] = g[i][c]
    OBVIOUS
  <2>2. ASSUME NEW i \in m .. (n + 1), NEW cut \in BOOLEAN
        PROVE  g[i][cut] = namesFrom(path, g, i, cut)
    <3>1. i \in 1 .. (n + 1)
      OBVIOUS
    <3>2. \A j \in (i + 1) .. (n + 1) : \A c \in BOOLEAN : f[j][c] = g[j][c]
      BY <2>1
    <3> HIDE DEF g, Meets
    <3>3. namesFrom(path, f, i, cut) = namesFrom(path, g, i, cut)
      BY <3>1, <3>2, NamesLocal
    <3>4. CASE i = m
      <4>1. g[i][cut] = new[cut]
        BY <3>1, <3>4 DEF g
      <4> QED BY <3>3, <3>4, <4>1
    <3>5. CASE i # m
      <4>1. i \in (m + 1) .. (n + 1)
        BY <3>5
      <4>2. f[i][cut] = namesFrom(path, f, i, cut)
        BY <1>1, <4>1
      <4> QED BY <2>1, <3>3, <4>1, <4>2
    <3> QED BY <3>4, <3>5
  <2> HIDE DEF g
  <2> QED BY <2>2
<1>2. Missing = {}
  <2> SUFFICES ASSUME Missing # {} PROVE FALSE
    OBVIOUS
  <2>1. n + 1 \in Nat /\ Missing \in SUBSET (0 .. (n + 1))
    OBVIOUS
  <2>2. PICK m \in Missing : \A x \in Missing : x <= m
    <3> HIDE DEF Missing
    <3> QED BY <2>1, NatGreatest
  <2>3. m \in 1 .. (n + 1) /\ \A f : ~Meets(f, m)
    OBVIOUS
  <2>4. CASE m = n + 1
    <3>1. (m + 1) .. (n + 1) = {}
      BY <2>4
    <3> HIDE DEF Meets
    <3>2. \E g : Meets(g, m)
      BY <1>1, <2>3, <3>1
    <3> QED BY <2>3, <3>2
  <2>5. CASE m # n + 1
    <3>1. m + 1 \in 1 .. (n + 1)
      BY <2>3, <2>5
    <3>2. m + 1 \notin Missing
      <4>1. m \in Nat /\ ~(m + 1 <= m)
        BY <2>3
      <4> HIDE DEF Missing
      <4> QED BY <2>2, <4>1
    <3>3. PICK f : Meets(f, m + 1)
      BY <3>1, <3>2
    <3>4. \A i \in (m + 1) .. (n + 1) :
            \A cut \in BOOLEAN : f[i][cut] = namesFrom(path, f, i, cut)
      BY <3>3
    <3> HIDE DEF Meets
    <3>5. \E g : Meets(g, m)
      BY <1>1, <2>3, <3>4
    <3> QED BY <2>3, <3>5
  <2> QED BY <2>4, <2>5
<1>3. \E f : f = F(f)
  <2>1. 1 \in 1 .. (n + 1)
    OBVIOUS
  <2>2. PICK f : Meets(f, 1)
    BY <1>2, <2>1
  <2> DEFINE g == [i \in 1 .. (n + 1) |-> [cut \in BOOLEAN |-> f[i][cut]]]
  <2>3. \A i \in 1 .. (n + 1) : \A c \in BOOLEAN : f[i][c] = g[i][c]
    OBVIOUS
  <2>4. ASSUME NEW i \in 1 .. (n + 1), NEW cut \in BOOLEAN
        PROVE  f[i][cut] = namesFrom(path, g, i, cut)
    <3>1. f[i][cut] = namesFrom(path, f, i, cut)
      BY <2>2
    <3>2. \A j \in (i + 1) .. (n + 1) : \A c \in BOOLEAN : f[j][c] = g[j][c]
      BY <2>3
    <3> HIDE DEF g
    <3> QED BY <3>1, <3>2, NamesLocal
  <2>5. g = F(g)
    <3>1. \A i \in 1 .. (n + 1) : [cut \in BOOLEAN |-> f[i][cut]]
                                  = [cut \in BOOLEAN |-> namesFrom(path, g, i, cut)]
      BY <2>4
    <3> QED BY <3>1
  <2> HIDE DEF g, F
  <2> QED BY <2>5
<1>4. namesIn(path) = (CHOOSE f : f = F(f))[1][FALSE]
  BY DEF namesIn, namesFrom
<1> DEFINE h == CHOOSE f : f = F(f)
<1>5. h = F(h)
  <2> HIDE DEF F
  <2> QED BY <1>3
<1>6. \A i \in 1 .. (n + 1) : \A cut \in BOOLEAN :
        h[i][cut] = namesFrom(path, h, i, cut)
  <2> HIDE DEF h
  <2>1. \A i \in 1 .. (n + 1) : h[i] = [cut \in BOOLEAN |-> namesFrom(path, h, i, cut)]
    BY <1>5
  <2> QED BY <2>1
<1> HIDE DEF h
<1> QED BY <1>4, <1>6 DEF h

\* Names, the last of which may be Empty.
NameLists == {q \in Seq(Words \cup {Empty}) : \A k \in 1 .. (Len(q) - 1) : q[k] \in Words}

LEMMA OneMoreName ==
  ASSUME NEW w \in Words, NEW q \in NameLists
  PROVE  <<w>> \o q \in NameLists
<1> DEFINE W == Words \cup {Empty}
           a == <<w>>
           b == <<w>> \o q
<1>1. a \in Seq(W) /\ Len(a) = 1 /\ a[1] = w
  OBVIOUS
<1>2. q \in Seq(W) /\ Len(q) \in Nat /\ \A k \in 1 .. (Len(q) - 1) : q[k] \in Words
  BY LenProperties DEF NameLists
<1>3. /\ b \in Seq(W) /\ Len(b) = 1 + Len(q)
      /\ \A i \in 1 .. 1 + Len(q) : b[i] = IF i <= 1 THEN a[i] ELSE q[i - 1]
  <2> HIDE DEF a
  <2>1. a \o q \in Seq(W) /\ Len(a \o q) = Len(a) + Len(q)
        /\ \A i \in 1 .. Len(a) + Len(q) :
             (a \o q)[i] = IF i <= Len(a) THEN a[i] ELSE q[i - Len(a)]
    BY <1>1, <1>2, ConcatProperties
  <2>2. b = a \o q
    BY DEF a
  <2> HIDE DEF b
  <2> QED BY <1>1, <2>1, <2>2
<1> HIDE DEF a, b
<1>4. ASSUME NEW k \in 1 .. (Len(b) - 1) PROVE b[k] \in Words
  <2>1. k \in 1 .. Len(q) /\ k \in 1 .. 1 + Len(q)
    BY <1>2, <1>3
  <2>2. CASE k = 1
    BY <1>1, <1>3, <2>1, <2>2
  <2>3. CASE k # 1
    <3>1. k - 1 \in 1 .. (Len(q) - 1) /\ ~(k <= 1)
      BY <1>2, <2>1, <2>3
    <3>2. b[k] = q[k - 1]
      BY <1>3, <2>1, <3>1
    <3> QED BY <1>2, <3>1, <3>2
  <2> QED BY <2>2, <2>3
<1> QED BY <1>3, <1>4 DEF NameLists, b

LEMMA FewNames == <<>> \in NameLists /\ <<Empty>> \in NameLists
<1>1. <<>> \in Seq(Words \cup {Empty}) /\ Len(<<>>) = 0
  OBVIOUS
<1>2. <<Empty>> \in Seq(Words \cup {Empty}) /\ Len(<<Empty>>) = 1
  OBVIOUS
<1> QED BY <1>1, <1>2 DEF NameLists

\* Only the last name can be Empty.
LEMMA NamesTyped ==
  ASSUME NEW path \in Seq(Words \cup {Empty})
  PROVE  namesIn(path) \in NameLists
<1> DEFINE n == Len(path)
<1>1. n \in Nat /\ \A i \in 1 .. n : path[i] \in Words \cup {Empty}
  BY LenProperties, ElementOfSeq
<1>2. PICK f : /\ namesIn(path) = f[1][FALSE]
               /\ \A i \in 1 .. (n + 1) : \A cut \in BOOLEAN :
                    f[i][cut] = namesFrom(path, f, i, cut)
  BY <1>1, NamesEquation
<1> DEFINE Fine(i) == /\ f[i][FALSE] \in NameLists
                      /\ i <= n /\ path[i] # Empty => f[i][TRUE] \in NameLists
           Bad == {i \in 1 .. (n + 1) : ~Fine(i)}
<1>3. ASSUME NEW i \in 1 .. (n + 1), \A j \in (i + 1) .. (n + 1) : Fine(j)
      PROVE  Fine(i)
  <2>1. CASE i > n
    <3>1. f[i][FALSE] = <<>>
      BY <1>1, <1>2, <2>1 DEF namesFrom
    <3>2. ~(i <= n)
      <4>1. i \in Nat /\ n \in Nat
        BY <1>1
      <4> HIDE DEF n
      <4> QED BY <2>1, <4>1
    <3> QED BY <3>1, <3>2, FewNames
  <2>2. CASE i <= n
    <3>1. i \in 1 .. n /\ i + 1 \in (i + 1) .. (n + 1) /\ path[i] \in Words \cup {Empty}
      BY <1>1, <2>2
    <3>2. Fine(i + 1)
      BY <1>3, <3>1
    <3>3. i # n /\ i + 1 # n => i + 2 \in (i + 1) .. (n + 1) /\ f[i + 2][FALSE] \in NameLists
      <4> SUFFICES ASSUME i # n, i + 1 # n
                   PROVE  i + 2 \in (i + 1) .. (n + 1) /\ f[i + 2][FALSE] \in NameLists
        OBVIOUS
      <4>1. i + 2 \in (i + 1) .. (n + 1)
        BY <1>1, <3>1
      <4> QED BY <1>3, <4>1
    <3>4. i # n => i + 1 <= n
      BY <1>1, <3>1
    <3>5. ASSUME NEW cut \in BOOLEAN, cut => path[i] # Empty
          PROVE  f[i][cut] \in NameLists
      <4> DEFINE word == IF cut THEN Shortened[path[i]] ELSE path[i]
      <4>1. word \in Words \cup {Empty}
        BY <3>1, <3>5, WordsAssumption
      <4>2. f[i][cut] = IF word # Empty THEN <<word>> \o f[i + 1][FALSE]
                        ELSE IF i = n THEN <<Empty>>
                        ELSE IF path[i + 1] # Empty THEN f[i + 1][TRUE]
                        ELSE IF i + 1 = n THEN <<Empty>>
                        ELSE f[i + 2][FALSE]
        <5>1. f[i][cut] = namesFrom(path, f, i, cut) /\ ~(i > n)
          BY <1>1, <1>2, <3>1
        <5> QED BY <5>1 DEF namesFrom
      <4> HIDE DEF word, n
      <4>3. CASE word # Empty
        <5>1. word \in Words /\ f[i + 1][FALSE] \in NameLists
          BY <3>2, <4>1, <4>3
        <5>2. <<word>> \o f[i + 1][FALSE] \in NameLists
          BY <5>1, OneMoreName
        <5> QED BY <4>2, <4>3, <5>2
      <4>4. CASE word = Empty
        <5>1. i # n /\ path[i + 1] # Empty => f[i + 1][TRUE] \in NameLists
          BY <3>2, <3>4
        <5> QED BY <3>3, <4>2, <4>4, <5>1, FewNames
      <4> QED BY <4>3, <4>4
    <3> QED BY <3>5
  <2>3. i > n \/ i <= n
    <3>1. i \in Nat /\ n \in Nat
      BY <1>1
    <3> HIDE DEF n
    <3> QED BY <3>1
  <2> QED BY <2>1, <2>2, <2>3
<1>4. Bad = {}
  <2> SUFFICES ASSUME Bad # {} PROVE FALSE
    OBVIOUS
  <2>1. n + 1 \in Nat /\ Bad \in SUBSET (0 .. (n + 1))
    <3>1. n \in Nat /\ Bad \subseteq 1 .. (n + 1)
      BY <1>1
    <3> HIDE DEF n, Bad
    <3> QED BY <3>1
  <2>2. PICK i \in Bad : \A x \in Bad : x <= i
    <3> HIDE DEF Bad
    <3> QED BY <2>1, NatGreatest
  <2>3. i \in 1 .. (n + 1) /\ ~Fine(i)
    OBVIOUS
  <2>4. ASSUME NEW j \in (i + 1) .. (n + 1) PROVE Fine(j)
    <3>1. j \in 1 .. (n + 1) /\ ~(j <= i)
      BY <1>1, <2>3
    <3>2. j \notin Bad
      <4> HIDE DEF Bad
      <4> QED BY <2>2, <3>1
    <3> QED BY <3>1, <3>2
  <2> HIDE DEF Fine
  <2> QED BY <1>3, <2>3, <2>4
<1>5. Fine(1)
  <2>1. 1 \in 1 .. (n + 1)
    BY <1>1
  <2> HIDE DEF Fine
  <2> QED BY <1>4, <2>1
<1> QED BY <1>2, <1>5

\* A path of words is read as it is.
LEMMA PlainNames ==
  ASSUME NEW path \in Seq(Words)
  PROVE  namesIn(path) = path
<1> DEFINE n == Len(path)
           rest(i) == SubSeq(path, i, n)
<1>1. n \in Nat /\ \A i \in 1 .. n : path[i] \in Words /\ path[i] # Empty
  BY LenProperties, ElementOfSeq, WordsAssumption
<1>2. PICK f : /\ namesIn(path) = f[1][FALSE]
               /\ \A i \in 1 .. (n + 1) : \A cut \in BOOLEAN :
                    f[i][cut] = namesFrom(path, f, i, cut)
  BY <1>1, NamesEquation
<1> DEFINE Bad == {i \in 1 .. (n + 1) : f[i][FALSE] # rest(i)}
<1>3. ASSUME NEW i \in 1 .. (n + 1)
      PROVE  /\ rest(i) \in Seq(Words) /\ Len(rest(i)) = n - i + 1
             /\ \A k \in 1 .. n - i + 1 : rest(i)[k] = path[i + k - 1]
  <2>1. \A k \in i .. n : path[k] \in Words
    BY <1>1
  <2>2. i \in Int /\ n \in Int /\ (IF i <= n THEN n - i + 1 ELSE 0) = n - i + 1
    BY <1>1
  <2> QED BY <2>1, <2>2, SubSeqProperties
<1>4. ASSUME NEW i \in 1 .. (n + 1), \A j \in (i + 1) .. (n + 1) : f[j][FALSE] = rest(j)
      PROVE  f[i][FALSE] = rest(i)
  <2>1. f[i][FALSE] = namesFrom(path, f, i, FALSE)
    BY <1>2
  <2>2. CASE i > n
    <3>1. f[i][FALSE] = <<>>
      BY <1>1, <2>1, <2>2 DEF namesFrom
    <3>2. i \in Int /\ n \in Int /\ n < i
      BY <1>1, <2>2
    <3>3. rest(i) = <<>>
      BY <3>2, SubSeqEmpty
    <3> QED BY <3>1, <3>3
  <2>3. CASE i <= n
    <3>1. i \in 1 .. n /\ i + 1 \in 1 .. (n + 1) /\ i + 1 \in (i + 1) .. (n + 1) /\ ~(i > n)
      BY <1>1, <2>3
    <3>2. f[i + 1][FALSE] = rest(i + 1)
      BY <1>4, <3>1
    <3>3. f[i][FALSE] = <<path[i]>> \o f[i + 1][FALSE]
      BY <1>1, <2>1, <3>1 DEF namesFrom
    <3> DEFINE a == <<path[i]>>
               b == rest(i + 1)
               c == rest(i)
    <3>4. a \in Seq(Words) /\ Len(a) = 1 /\ a[1] = path[i]
      BY <1>1, <3>1
    <3>5. /\ b \in Seq(Words) /\ Len(b) = n - i
          /\ \A k \in 1 .. n - i : b[k] = path[i + 1 + k - 1]
      <4> HIDE DEF rest
      <4>1. /\ b \in Seq(Words) /\ Len(b) = n - (i + 1) + 1
            /\ \A k \in 1 .. n - (i + 1) + 1 : b[k] = path[i + 1 + k - 1]
        BY <1>3, <3>1
      <4>2. n - (i + 1) + 1 = n - i
        BY <1>1, <3>1
      <4> HIDE DEF b
      <4> QED BY <4>1, <4>2
    <3>6. /\ c \in Seq(Words) /\ Len(c) = n - i + 1
          /\ \A k \in 1 .. n - i + 1 : c[k] = path[i + k - 1]
      BY <1>3
    <3> HIDE DEF a, b, c, rest
    <3>7. /\ a \o b \in Seq(Words) /\ Len(a \o b) = Len(a) + Len(b)
          /\ \A k \in 1 .. Len(a) + Len(b) :
               (a \o b)[k] = IF k <= Len(a) THEN a[k] ELSE b[k - Len(a)]
      BY <3>4, <3>5, ConcatProperties
    <3>8. Len(a \o b) = Len(c)
      BY <1>1, <3>1, <3>4, <3>5, <3>6, <3>7
    <3>9. ASSUME NEW k \in 1 .. Len(a \o b) PROVE (a \o b)[k] = c[k]
      <4>1. k \in 1 .. n - i + 1 /\ k \in 1 .. Len(a) + Len(b)
        BY <3>6, <3>7, <3>8
      <4>2. c[k] = path[i + k - 1]
        BY <3>6, <4>1
      <4>3. CASE k = 1
        <5>1. i + k - 1 = i
          BY <3>1, <4>3
        <5>2. (a \o b)[k] = a[1]
          BY <3>4, <3>7, <4>1, <4>3
        <5> QED BY <3>4, <4>2, <5>1, <5>2
      <4>4. CASE k # 1
        <5>1. k - 1 \in 1 .. n - i /\ ~(k <= 1) /\ i + 1 + (k - 1) - 1 = i + k - 1
          BY <1>1, <3>1, <4>1, <4>4
        <5>2. (a \o b)[k] = b[k - 1]
          BY <3>4, <3>7, <4>1, <5>1
        <5>3. b[k - 1] = path[i + 1 + (k - 1) - 1]
          BY <3>5, <5>1
        <5> QED BY <4>2, <5>1, <5>2, <5>3
      <4> QED BY <4>3, <4>4
    <3>10. a \o b = c
      BY <3>6, <3>7, <3>8, <3>9, SeqEqual
    <3> QED BY <3>2, <3>3, <3>10 DEF a, b, c
  <2>4. i > n \/ i <= n
    <3>1. i \in Nat /\ n \in Nat
      BY <1>1
    <3> HIDE DEF n
    <3> QED BY <3>1
  <2> QED BY <2>2, <2>3, <2>4
<1>5. Bad = {}
  <2> SUFFICES ASSUME Bad # {} PROVE FALSE
    OBVIOUS
  <2>1. n + 1 \in Nat /\ Bad \in SUBSET (0 .. (n + 1))
    <3>1. n \in Nat /\ Bad \subseteq 1 .. (n + 1)
      BY <1>1
    <3> HIDE DEF n, Bad
    <3> QED BY <3>1
  <2>2. PICK i \in Bad : \A x \in Bad : x <= i
    <3> HIDE DEF Bad
    <3> QED BY <2>1, NatGreatest
  <2>3. i \in 1 .. (n + 1) /\ f[i][FALSE] # rest(i)
    OBVIOUS
  <2>4. ASSUME NEW j \in (i + 1) .. (n + 1) PROVE f[j][FALSE] = rest(j)
    <3>1. j \in 1 .. (n + 1) /\ ~(j <= i)
      BY <1>1, <2>3
    <3>2. j \notin Bad
      <4> HIDE DEF Bad
      <4> QED BY <2>2, <3>1
    <3> QED BY <3>1, <3>2
  <2> HIDE DEF rest
  <2> QED BY <1>4, <2>3, <2>4
<1>6. f[1][FALSE] = rest(1)
  <2>1. 1 \in 1 .. (n + 1)
    BY <1>1
  <2> HIDE DEF rest
  <2> QED BY <1>5, <2>1
<1>7. rest(1) = path
  <2>1. 1 \in 1 .. (n + 1) /\ n - 1 + 1 = n /\ \A k \in 1 .. n : 1 + k - 1 = k
    BY <1>1
  <2>2. /\ rest(1) \in Seq(Words) /\ Len(rest(1)) = n
        /\ \A k \in 1 .. n : rest(1)[k] = path[k]
    <3> HIDE DEF rest
    <3> QED BY <1>3, <2>1
  <2> HIDE DEF rest
  <2> QED BY <2>2, SeqEqual
<1> QED BY <1>2, <1>6, <1>7

-----------------------------------------------------------------------------
(***************************************************************************)
(* The walk's state is well formed.                                        *)
(***************************************************************************)
\* A request that is under way is one that was asked, and its walk begins at
\* the first name.
TypeInv ==
  /\ TypeOK
  /\ pc # "idle" => req \in Requests
  /\ pc = "describe" => met = <<>>
  /\ pc = "walk" => mControlUrl \in Servers

LEMMA InitTyped == Init => TypeInv
<1> SUFFICES ASSUME Init PROVE TypeInv
  OBVIOUS
<1>1. /\ mDirPathNames = <<>> /\ met = <<>>
      /\ Len(met) <= Len(mDirPathNames)
      /\ mDirPathNames \in Seq(Words) /\ met \in Seq(Ids)
  BY DEF Init
<1>2. answer \in Replies
  BY DEF Init, NoReply, Replies
<1>3. quiet \in BOOLEAN /\ failed \in BOOLEAN
  BY DEF Init
<1>4. /\ tree \in [Servers -> [Ids -> Objects]] /\ changes \in 0 .. MaxChanges
      /\ pc = "idle" /\ req = NoRequest /\ mControlUrl = NoUrl /\ contId = Gone
  BY ChangesAssumption DEF Init
<1> QED BY <1>1, <1>2, <1>3, <1>4 DEF TypeInv, TypeOK

LEMMA RequestTyped ==
  ASSUME TypeInv, NEW op \in {"list", "getProperties"}, NEW s \in Servers,
         NEW p \in Paths, request(op, s, p)
  PROVE  TypeInv'
<1>1. /\ req' \in Requests /\ met' = <<>> /\ contId' = Gone
      /\ UNCHANGED <<mDirPathNames, tree, changes>>
  <2>1. p \in Seq(Words \cup {Empty})
    BY PathsAssumption
  <2> QED BY <2>1 DEF request, Requests, serverVars
<1>2. pc' \in {"idle", "describe"} /\ mControlUrl' \in Servers \cup {NoUrl}
  <2>1. /\ pc = "idle"
        /\ \/ pc' = "describe" /\ mControlUrl' = NoUrl
           \/ pc' = pc /\ mControlUrl' = mControlUrl
    BY DEF request
  <2>2. mControlUrl \in Servers \cup {NoUrl}
    BY DEF TypeInv, TypeOK
  <2> QED BY <2>1, <2>2
<1>3. answer' \in Replies
  <2>1. NoReply \in Replies /\ [sent |-> TRUE, ok |-> FALSE, files |-> {}] \in Replies
    BY DEF NoReply, Replies
  <2>2. answer' = NoReply \/ answer' = [sent |-> TRUE, ok |-> FALSE, files |-> {}]
    BY DEF request
  <2> QED BY <2>1, <2>2
<1>4. quiet' \in BOOLEAN /\ failed' \in BOOLEAN
  BY DEF request
<1>5. Len(mDirPathNames) \in Nat
  BY LenProperties DEF TypeInv, TypeOK
<1>6. /\ tree' \in [Servers -> [Ids -> Objects]] /\ changes' \in 0 .. MaxChanges
      /\ mDirPathNames' \in Seq(Words) /\ Len(mDirPathNames') = Len(mDirPathNames)
  BY <1>1 DEF TypeInv, TypeOK
<1>7. met' \in Seq(Ids) /\ Len(met') <= Len(mDirPathNames')
  BY <1>1, <1>5, <1>6
<1> QED BY <1>1, <1>2, <1>3, <1>4, <1>6, <1>7 DEF TypeInv, TypeOK

LEMMA DescriptionTyped ==
  ASSUME TypeInv, getDescription \/ substrThrows
  PROVE  TypeInv'
<1>1. /\ pc = "describe" /\ met = <<>> /\ Len(met) = 0 /\ req \in Requests
      /\ UNCHANGED <<req, met, contId, answer, quiet, tree, changes>>
      /\ failed' \in BOOLEAN
  BY DEF getDescription, substrThrows, sendFails, serverVars, TypeInv, TypeOK
<1>2. /\ req.path \in Seq(Words \cup {Empty}) /\ req.server \in Servers
  BY <1>1, PathsAssumption DEF Requests
<1> DEFINE q == namesIn(req.path)
<1>3. /\ q \in Seq(Words \cup {Empty}) /\ \A k \in 1 .. (Len(q) - 1) : q[k] \in Words
      /\ Len(q) \in Nat /\ DOMAIN q = 1 .. Len(q)
  <2>1. q \in NameLists
    BY <1>2, NamesTyped
  <2> QED BY <2>1, LenProperties DEF NameLists
<1>4. ~splitThrows(req.path) => q \in Seq(Words)
  <2> SUFFICES ASSUME ~splitThrows(req.path) PROVE q \in Seq(Words)
    OBVIOUS
  <2>1. \A i \in 1 .. Len(q) : q[i] # Empty
    BY <1>3 DEF splitThrows
  <2> HIDE DEF q
  <2>2. \A i \in 1 .. Len(q) : q[i] \in Words
    BY <1>3, <2>1, ElementOfSeq
  <2> QED BY <1>3, <2>2
<1>5. SubSeq(q, 1, Len(q) - 1) \in Seq(Words)
  <2> HIDE DEF q
  <2>1. 1 \in Int /\ Len(q) - 1 \in Int
    BY <1>3
  <2> QED BY <1>3, <2>1, SubSeqProperties
<1>6. CASE getDescription
  <2>1. \/ /\ q \in Seq(Words) /\ mDirPathNames' = q /\ mControlUrl' = req.server
           /\ pc' = walkOrList(q)
        \/ mDirPathNames' = mDirPathNames /\ mControlUrl' = mControlUrl /\ pc' = "list"
    BY <1>4, <1>6 DEF getDescription
  <2>2. mDirPathNames' \in Seq(Words) /\ mControlUrl' \in Servers \cup {NoUrl}
    BY <1>2, <2>1 DEF TypeInv, TypeOK
  <2>3. Len(mDirPathNames') \in Nat
    BY <2>2, LenProperties
  <2>4. pc' \in {"walk", "list"} /\ (pc' = "walk" => 0 < Len(mDirPathNames'))
    <3>1. CASE pc' = "list"
      BY <3>1
    <3>2. CASE pc' = walkOrList(q) /\ mDirPathNames' = q
      <4>1. q # <<>> => Len(q) # 0
        <5> HIDE DEF q
        <5> QED BY <1>3, EmptySeq
      <4> QED BY <1>3, <3>2, <4>1 DEF walkOrList
    <3> QED BY <2>1, <3>1, <3>2
  <2>5. pc' = "walk" => mControlUrl' \in Servers
    BY <1>2, <1>6 DEF getDescription
  <2> HIDE DEF q
  <2> QED BY <1>1, <2>2, <2>3, <2>4, <2>5 DEF TypeInv, TypeOK
<1>7. CASE substrThrows
  <2>1. /\ mDirPathNames' \in Seq(Words) /\ mControlUrl' = req.server /\ pc' = "idle"
    BY <1>5, <1>7 DEF substrThrows
  <2>2. Len(mDirPathNames') \in Nat
    BY <2>1, LenProperties
  <2> HIDE DEF q
  <2> QED BY <1>1, <1>2, <2>1, <2>2 DEF TypeInv, TypeOK
<1> QED BY <1>6, <1>7

LEMMA NextDirTyped ==
  ASSUME TypeInv, getNextDirId \/ stoiThrows
  PROVE  TypeInv'
<1>1. CASE getNextDirId
  <2>1. /\ pc = "walk" /\ mControlUrl \in Servers
        /\ UNCHANGED <<req, mControlUrl, mDirPathNames, answer, quiet, tree, changes>>
    BY <1>1 DEF getNextDirId, serverVars, TypeInv
  <2>2. /\ met \in Seq(Ids) /\ Len(met) \in Nat /\ Len(mDirPathNames) \in Nat
        /\ Len(met) < Len(mDirPathNames)
    BY <2>1, LenProperties DEF TypeInv, TypeOK
  <2>3. failed' \in BOOLEAN
    BY <1>1 DEF getNextDirId, sendFails, TypeInv, TypeOK
  <2>4. \/ \E c \in Ids :
             /\ contId' = Number[mControlUrl][c] /\ met' = Append(met, c)
             /\ pc' = IF Len(met') = Len(mDirPathNames) THEN "list" ELSE "walk"
        \/ contId' = Gone /\ pc' = "list" /\ met' = met
    BY <1>1 DEF getNextDirId, browse, content
  <2>5. /\ contId' \in Nat \cup {Gone} /\ (met' = <<>> => contId' = Gone)
        /\ met' \in Seq(Ids) /\ Len(met') <= Len(mDirPathNames)
        /\ pc' \in {"walk", "list"} /\ (pc' = "walk" => Len(met') < Len(mDirPathNames))
    <3>1. ASSUME NEW c \in Ids, contId' = Number[mControlUrl][c], met' = Append(met, c),
                 pc' = IF Len(met') = Len(mDirPathNames) THEN "list" ELSE "walk"
          PROVE  /\ contId' \in Nat \cup {Gone} /\ met' # <<>> /\ met' \in Seq(Ids)
                 /\ Len(met') <= Len(mDirPathNames) /\ pc' \in {"walk", "list"}
                 /\ pc' = "walk" => Len(met') < Len(mDirPathNames)
      <4>1. contId' \in Nat
        BY <2>1, <3>1, IdsAssumption
      <4>2. met' \in Seq(Ids) /\ Len(met') = Len(met) + 1 /\ met' # <<>>
        BY <2>2, <3>1, MetGrows
      <4> DEFINE m == Len(mDirPathNames)
                 n == Len(met)
                 n1 == Len(met')
      <4>3. n1 = n + 1 /\ n \in Nat /\ m \in Nat /\ n < m
        BY <2>2, <4>2
      <4> HIDE DEF m, n, n1
      <4>4. n1 <= m /\ (n1 # m => n1 < m)
        BY <4>3
      <4>5. /\ pc' \in {"walk", "list"} /\ (pc' = "walk" => n1 < m)
        BY <3>1, <4>4 DEF m, n1
      <4> QED BY <4>1, <4>2, <4>4, <4>5 DEF m, n1
    <3>2. CASE contId' = Gone /\ pc' = "list" /\ met' = met
      BY <2>2, <3>2
    <3> QED BY <2>4, <3>1, <3>2
  <2> QED BY <2>1, <2>3, <2>5 DEF TypeInv, TypeOK
<1>2. CASE stoiThrows
  BY <1>2 DEF stoiThrows, serverVars, TypeInv, TypeOK
<1> QED BY <1>1, <1>2

LEMMA RepliesTyped ==
  ASSUME NEW devs \in SUBSET Ids, NEW r \in replyFor(devs)
  PROVE  r \in Replies
<1>1. CASE req.op = "list"
  <2>1. r = [sent |-> TRUE, ok |-> devs # {}, files |-> devs]
    BY <1>1 DEF replyFor
  <2>2. (devs # {}) \in BOOLEAN
    OBVIOUS
  <2> QED BY <2>1, <2>2 DEF Replies
<1>2. CASE req.op # "list" /\ devs = {}
  <2>1. r = [sent |-> TRUE, ok |-> TRUE, files |-> {}]
    BY <1>2 DEF replyFor
  <2> QED BY <2>1 DEF Replies
<1>3. CASE req.op # "list" /\ devs # {}
  <2>1. replyFor(devs) = {[sent |-> TRUE, ok |-> TRUE, files |-> f] : f \in {{c} : c \in devs}}
    BY <1>3 DEF replyFor
  <2>2. PICK c \in devs : r = [sent |-> TRUE, ok |-> TRUE, files |-> {c}]
    BY <2>1
  <2> QED BY <2>2 DEF Replies
<1> QED BY <1>1, <1>2, <1>3

LEMMA ListingTyped == ASSUME TypeInv, listDirContents PROVE TypeInv'
<1>1. /\ pc' = "idle"
      /\ UNCHANGED <<req, mControlUrl, mDirPathNames, met, contId, quiet, tree, changes>>
  BY DEF listDirContents, serverVars
<1>2. failed' \in BOOLEAN
  BY DEF listDirContents, sendFails, TypeInv, TypeOK
<1>3. answer' \in Replies
  <2>1. browse(mControlUrl, contId) \in SUBSET Ids /\ {} \in SUBSET Ids
    BY DEF browse, content
  <2>2. answer' \in replyFor(browse(mControlUrl, contId)) \/ answer' \in replyFor({})
    BY DEF listDirContents
  <2> QED BY <2>1, <2>2, RepliesTyped
<1> QED BY <1>1, <1>2, <1>3 DEF TypeInv, TypeOK

LEMMA ServersTyped ==
  ASSUME TypeInv, NEW s \in Servers, NEW c \in Ids, NEW object \in Objects,
         serverChanges(s, c, object)
  PROVE  TypeInv'
<1>1. UNCHANGED <<pc, req, mControlUrl, mDirPathNames, met, contId, answer, failed>>
  BY DEF serverChanges
<1>2. tree' \in [Servers -> [Ids -> Objects]]
  BY DEF serverChanges, TypeInv, TypeOK
<1>3. changes' \in 0 .. MaxChanges
  BY ChangesAssumption DEF serverChanges, TypeInv, TypeOK
<1>4. quiet' \in BOOLEAN
  BY DEF serverChanges, TypeInv, TypeOK
<1> QED BY <1>1, <1>2, <1>3, <1>4 DEF TypeInv, TypeOK

LEMMA NextTyped == TypeInv /\ [Next]_vars => TypeInv'
<1> SUFFICES ASSUME TypeInv, [Next]_vars PROVE TypeInv'
  OBVIOUS
<1>1. CASE UNCHANGED vars
  BY <1>1 DEF vars, TypeInv, TypeOK
<1> QED BY <1>1, RequestTyped, DescriptionTyped, NextDirTyped, ListingTyped, ServersTyped
        DEF Next

\* The walk's state is well formed for any paths: the names to walk are words,
\* none of them Empty, and the walk never goes beyond them.
THEOREM TypeCorrect == Spec => []TypeOK
<1>1. TypeInv => TypeOK
  BY DEF TypeInv
<1> QED BY <1>1, InitTyped, NextTyped, PTL DEF Spec

-----------------------------------------------------------------------------
(***************************************************************************)
(* What a walk of a server that does not change arrives at.                *)
(***************************************************************************)
\* The containers that tree t has at the first k names of path p.
reach(t, p) ==
  LET led[k \in 0 .. Len(p)] ==
        IF k = 0 THEN {Root}
        ELSE {c \in Ids : /\ t[c].parent \in led[k - 1]
                          /\ t[c].title = p[k]}
  IN  led

\* With the numbers u of the ids.
exact(u, t, p) ==
  \A k \in 1 .. Len(p) : \A c \in reach(t, p)[k] : u[c] = c

unique(t) ==
  \A c, d \in Ids : t[c] = t[d] /\ t[c] # Absent => c = d

\* Where the ids are just numbers, the walk is at a container its names lead
\* to, and at the only one where titles are unique; a walk that ended nowhere
\* without a failure found that there is none.
OnTheWay(t, p) ==
  /\ pc = "walk" =>
       /\ from \in reach(t, p)[Len(met)]
       /\ unique(t) => reach(t, p)[Len(met)] \subseteq {from}
  /\ pc = "list" /\ contId # Gone =>
       /\ contId \in reach(t, p)[Len(p)]
       /\ unique(t) => reach(t, p)[Len(p)] \subseteq {contId}
  /\ pc = "list" /\ contId = Gone /\ ~failed /\ unique(t) =>
       reach(t, p)[Len(p)] = {}

SettledInv ==
  /\ quiet /\ plain(req.path) /\ req.path # <<>> /\ pc \in {"walk", "list"}
  /\ exact(Number[req.server], tree[req.server], req.path)
  => OnTheWay(tree[req.server], req.path)

\* The recursive definition has a function that meets it.
LEMMA ReachEquation ==
  ASSUME NEW t, NEW p, Len(p) \in Nat
  PROVE  reach(t, p) = [k \in 0 .. Len(p) |->
                          IF k = 0 THEN {Root}
                          ELSE {c \in Ids : /\ t[c].parent \in reach(t, p)[k - 1]
                                            /\ t[c].title = p[k]}]
<1> DEFINE n == Len(p)
           step(f, k) == {c \in Ids : /\ t[c].parent \in f[k - 1]
                                      /\ t[c].title = p[k]}
           F(f) == [k \in 0 .. n |-> IF k = 0 THEN {Root} ELSE step(f, k)]
           Meets(f, m) == /\ f[0] = {Root}
                          /\ \A k \in 1 .. m : f[k] = step(f, k)
           Missing == {m \in 0 .. n : \A f : ~Meets(f, m)}
<1>1. Missing = {}
  <2> SUFFICES ASSUME Missing # {} PROVE FALSE
    OBVIOUS
  <2>1. Missing \in SUBSET Nat
    OBVIOUS
  <2>2. PICK m \in Missing : \A x \in Missing : m <= x
    <3> HIDE DEF Missing
    <3> QED BY <2>1, NatLeast
  <2>3. m \in 0 .. n /\ \A f : ~Meets(f, m)
    OBVIOUS
  <2>4. CASE m = 0
    <3> DEFINE g == [k \in {0} |-> {Root}]
    <3>1. g[0] = {Root} /\ 1 .. m = {}
      BY <2>4
    <3>2. Meets(g, m)
      <4> HIDE DEF g
      <4> QED BY <3>1
    <3> HIDE DEF Meets
    <3> QED BY <2>3, <3>2
  <2>5. CASE m # 0
    <3>1. m - 1 \in 0 .. n /\ ~(m <= m - 1) /\ m \in Nat /\ m - 1 \in Nat
      BY <2>3, <2>5
    <3>2. m - 1 \notin Missing
      <4> HIDE DEF Missing
      <4> QED BY <2>2, <3>1
    <3>3. PICK f : Meets(f, m - 1)
      BY <3>1, <3>2
    <3> DEFINE new == step(f, m)
               g == [k \in 0 .. m |-> IF k = m THEN new ELSE f[k]]
    <3>4. g[m] = new /\ \A k \in 0 .. (m - 1) : g[k] = f[k]
      <4> HIDE DEF new
      <4> QED BY <3>1
    <3> HIDE DEF g
    <3>5. g[0] = {Root}
      <4>1. 0 \in 0 .. (m - 1)
        BY <3>1
      <4> QED BY <3>3, <3>4, <4>1
    <3>6. ASSUME NEW k \in 1 .. m PROVE g[k] = step(g, k)
      <4>1. k - 1 \in 0 .. (m - 1)
        BY <3>1
      <4>2. g[k - 1] = f[k - 1]
        BY <3>4, <4>1
      <4>3. step(g, k) = step(f, k)
        BY <4>2
      <4>4. CASE k = m
        BY <3>4, <4>3, <4>4
      <4>5. CASE k # m
        <5>1. k \in 1 .. (m - 1) /\ k \in 0 .. (m - 1)
          BY <3>1, <4>5
        <5>2. f[k] = step(f, k) /\ g[k] = f[k]
          BY <3>3, <3>4, <5>1
        <5> QED BY <4>3, <5>2
      <4> QED BY <4>4, <4>5
    <3>7. Meets(g, m)
      BY <3>5, <3>6
    <3> HIDE DEF Meets
    <3> QED BY <2>3, <3>7
  <2> QED BY <2>4, <2>5
<1>2. \E f : f = F(f)
  <2>1. n \in 0 .. n
    OBVIOUS
  <2>2. PICK f : Meets(f, n)
    <3>1. n \notin Missing
      BY <1>1
    <3> HIDE DEF Meets
    <3>2. ~(\A f : ~Meets(f, n))
      BY <2>1, <3>1
    <3> QED BY <3>2
  <2> DEFINE g == [k \in 0 .. n |-> f[k]]
  <2>3. \A k \in 0 .. n : g[k] = f[k]
    OBVIOUS
  <2> HIDE DEF g
  <2>4. \A k \in 1 .. n : step(g, k) = step(f, k)
    <3> SUFFICES ASSUME NEW k \in 1 .. n PROVE step(g, k) = step(f, k)
      OBVIOUS
    <3>1. k - 1 \in 0 .. n
      OBVIOUS
    <3>2. g[k - 1] = f[k - 1]
      BY <2>3, <3>1
    <3> QED BY <3>2
  <2>5. ASSUME NEW k \in 0 .. n
        PROVE  f[k] = IF k = 0 THEN {Root} ELSE step(g, k)
    <3>1. CASE k = 0
      BY <2>2, <3>1
    <3>2. CASE k # 0
      <4>1. k \in 1 .. n
        BY <3>2
      <4>2. f[k] = step(f, k) /\ step(g, k) = step(f, k)
        BY <2>2, <2>4, <4>1
      <4> HIDE DEF step
      <4> QED BY <3>2, <4>2
    <3> QED BY <3>1, <3>2
  <2>6. g = F(g)
    <3> HIDE DEF step
    <3>1. g = [k \in 0 .. n |-> f[k]]
      BY DEF g
    <3>2. [k \in 0 .. n |-> f[k]] = F(g)
      BY <2>5
    <3> QED BY <3>1, <3>2
  <2> HIDE DEF F
  <2> QED BY <2>6
<1>3. reach(t, p) = (CHOOSE f : f = F(f))
  BY DEF reach
<1>4. reach(t, p) = F(reach(t, p))
  <2> HIDE DEF F
  <2> QED BY <1>2, <1>3
<1> QED BY <1>4

\* at, exactIds and uniqueTitles are about the present trees.
LEMMA AtReaches ==
  ASSUME NEW s, NEW p
  PROVE  /\ at(s, p) = reach(tree[s], p)[Len(p)]
         /\ exactIds(s, p) <=> exact(Number[s], tree[s], p)
         /\ uniqueTitles(s) <=> unique(tree[s])
<1>1. reached(s, p) = reach(tree[s], p)
  BY DEF reached, reach
<1>2. uniqueTitles(s) <=> unique(tree[s])
  BY DEF uniqueTitles, unique
<1> QED BY <1>1, <1>2 DEF at, exactIds, exact

LEMMA ReachSteps ==
  ASSUME NEW t, NEW p, Len(p) \in Nat
  PROVE  /\ reach(t, p)[0] = {Root}
         /\ \A k \in 1 .. Len(p) :
              reach(t, p)[k] = {c \in Ids : /\ t[c].parent \in reach(t, p)[k - 1]
                                            /\ t[c].title = p[k]}
<1> DEFINE r == reach(t, p)
<1>1. r = [k \in 0 .. Len(p) |->
             IF k = 0 THEN {Root}
             ELSE {c \in Ids : /\ t[c].parent \in r[k - 1]
                               /\ t[c].title = p[k]}]
  BY ReachEquation
<1> HIDE DEF r
<1>2. 0 \in 0 .. Len(p) /\ \A k \in 1 .. Len(p) : k \in 0 .. Len(p) /\ k # 0
  OBVIOUS
<1>3. r[0] = {Root}
  BY <1>1, <1>2
<1>4. ASSUME NEW k \in 1 .. Len(p)
      PROVE  r[k] = {c \in Ids : t[c].parent \in r[k - 1] /\ t[c].title = p[k]}
  BY <1>1, <1>2
<1> QED BY <1>3, <1>4 DEF r

\* Below nothing there is nothing.
LEMMA NothingBelow ==
  ASSUME NEW t, NEW p, Len(p) \in Nat, NEW j \in 0 .. Len(p),
         reach(t, p)[j] = {}
  PROVE  reach(t, p)[Len(p)] = {}
<1> DEFINE r == reach(t, p)
           T == {k \in j .. Len(p) : r[k] # {}}
<1> SUFFICES ASSUME r[Len(p)] # {} PROVE FALSE
  OBVIOUS
<1>1. T \in SUBSET Nat /\ Len(p) \in T
  OBVIOUS
<1>2. PICK k \in T : \A x \in T : k <= x
  <2> HIDE DEF T
  <2> QED BY <1>1, NatLeast
<1>3. k \in j .. Len(p) /\ r[k] # {} /\ k # j
  OBVIOUS
<1>4. k \in 1 .. Len(p) /\ k - 1 \in j .. Len(p) /\ ~(k <= k - 1)
  BY <1>3
<1>5. k - 1 \notin T
  <2> HIDE DEF T
  <2> QED BY <1>2, <1>4
<1>6. r[k - 1] = {}
  BY <1>4, <1>5
<1>7. r[k] = {c \in Ids : t[c].parent \in r[k - 1] /\ t[c].title = p[k]}
  <2> HIDE DEF r
  <2> QED BY <1>4, ReachSteps DEF r
<1> QED BY <1>3, <1>6, <1>7

\* One name further: a child with the title, the only one where titles are
\* unique, or none.
LEMMA NameFound ==
  ASSUME NEW t \in [Ids -> Objects], NEW p, Len(p) \in Nat, NEW k \in 1 .. Len(p),
         NEW x \in Ids \cup {Root}, x \in reach(t, p)[k - 1],
         NEW c \in Ids, t[c].parent = x, t[c].title = p[k]
  PROVE  /\ c \in reach(t, p)[k]
         /\ (unique(t) /\ reach(t, p)[k - 1] \subseteq {x}) =>
              reach(t, p)[k] \subseteq {c}
<1>1. reach(t, p)[k] = {e \in Ids : /\ t[e].parent \in reach(t, p)[k - 1]
                                    /\ t[e].title = p[k]}
  BY ReachSteps
<1>2. c \in reach(t, p)[k]
  BY <1>1
<1>3. ASSUME unique(t), reach(t, p)[k - 1] \subseteq {x}, NEW e \in reach(t, p)[k]
      PROVE  e = c
  <2>1. e \in Ids /\ t[e].parent = x /\ t[e].title = p[k]
    BY <1>1, <1>3
  <2>2. t[c] \in Objects /\ t[e] \in Objects
    BY <2>1
  <2>3. t[c] # Absent
    BY IdsAssumption DEF Absent, Gone, Root
  <2>4. t[e] # Absent
    BY <2>1, IdsAssumption DEF Absent, Gone, Root
  <2>5. /\ t[c] = [parent |-> t[c].parent, title |-> t[c].title]
        /\ t[e] = [parent |-> t[e].parent, title |-> t[e].title]
    BY <2>2, <2>3, <2>4 DEF Objects
  <2>6. t[c] = t[e]
    BY <2>1, <2>5
  <2> QED BY <1>3, <2>1, <2>3, <2>6 DEF unique
<1> QED BY <1>2, <1>3

LEMMA NameMissing ==
  ASSUME NEW t, NEW p, Len(p) \in Nat, NEW k \in 1 .. Len(p),
         \A c \in Ids : t[c].parent \in reach(t, p)[k - 1] => t[c].title # p[k]
  PROVE  reach(t, p)[Len(p)] = {}
<1>1. reach(t, p)[k] = {c \in Ids : /\ t[c].parent \in reach(t, p)[k - 1]
                                    /\ t[c].title = p[k]}
  BY ReachSteps
<1>2. reach(t, p)[k] = {}
  BY <1>1
<1>3. k \in 0 .. Len(p)
  OBVIOUS
<1> QED BY <1>2, <1>3, NothingBelow

LEMMA InitSettled == Init => SettledInv
BY DEF Init, SettledInv

LEMMA DescriptionSettled ==
  ASSUME TypeInv, WalkInv, FailInv, SettledInv, getDescription
  PROVE  SettledInv'
<1>1. /\ pc = "describe" /\ met = <<>> /\ contId = Gone /\ ~failed
      /\ req' = req /\ tree' = tree /\ met' = met /\ contId' = contId
  BY DEF getDescription, serverVars, TypeInv, WalkInv, FailInv
<1> SUFFICES ASSUME plain(req.path), req.path # <<>>, pc' \in {"walk", "list"}
             PROVE  OnTheWay(tree[req.server], req.path)'
  BY <1>1 DEF SettledInv, plain
<1> DEFINE t == tree[req.server]
           p == req.path
<1>2. namesIn(p) = p /\ Len(p) \in Nat
  BY PlainNames, LenProperties DEF plain
<1>3. pc' = "walk" \/ (pc' = "list" /\ failed')
  BY <1>2 DEF getDescription, walkOrList, sendFails
<1>4. reach(t, p)[0] = {Root} /\ from' = Root /\ Len(met') = 0
  BY <1>1, <1>2, ReachSteps DEF from
<1>5. t' = t /\ p' = p
  BY <1>1
<1> HIDE DEF t, p
<1>6. OnTheWay(t, p)'
  BY <1>1, <1>3, <1>4, <1>5 DEF OnTheWay
<1> QED BY <1>6 DEF t, p

\* The container of a walk on exact ids is asked for by its own number.
LEMMA ExactBrowse ==
  ASSUME NEW s, NEW p, Len(p) \in Nat, NEW k \in 0 .. Len(p),
         NEW x \in reach(tree[s], p)[k], exact(Number[s], tree[s], p)
  PROVE  x \in Ids \cup {Root} /\ browse(s, x) = content(s, x)
<1>1. CASE k = 0
  <2>1. x = Root
    BY <1>1, ReachSteps
  <2> QED BY <2>1 DEF browse
<1>2. CASE k # 0
  <2>1. k \in 1 .. Len(p)
    BY <1>2
  <2>2. x \in Ids
    BY <2>1, ReachSteps
  <2>3. Number[s][x] = x
    BY <2>1 DEF exact
  <2> QED BY <2>2, <2>3 DEF browse
<1> QED BY <1>1, <1>2

LEMMA NextDirSettled ==
  ASSUME TypeInv, WalkInv, SettledInv, getNextDirId
  PROVE  SettledInv'
<1>1. /\ pc = "walk" /\ req' = req /\ tree' = tree /\ quiet' = quiet
      /\ mDirPathNames = namesIn(req.path) /\ mControlUrl = req.server
      /\ req \in Requests /\ req.server \in Servers /\ met \in Seq(Ids)
  BY DEF getNextDirId, serverVars, WalkInv, TypeInv, Requests
<1> DEFINE t == tree[req.server]
           u == Number[req.server]
           p == req.path
           depth == Len(met)
           k == depth + 1
<1> SUFFICES ASSUME quiet, plain(req.path), req.path # <<>>, exact(u, t, p)
             PROVE  OnTheWay(tree[req.server], req.path)'
  <2>1. t' = t /\ u' = u /\ p' = p
    BY <1>1
  <2>2. exact(u, t, p)' <=> exact(u, t, p)
    BY <2>1 DEF exact
  <2> QED BY <1>1, <2>2 DEF SettledInv, plain
<1>2. namesIn(p) = p /\ Len(p) \in Nat
  BY PlainNames, LenProperties DEF plain
<1>3. /\ t \in [Ids -> Objects]
      /\ depth \in Nat /\ depth < Len(p) /\ k \in 1 .. Len(p) /\ k - 1 = depth
      /\ depth \in 0 .. Len(p)
  <2>1. depth \in Nat /\ depth < Len(p)
    BY <1>1, <1>2, LenProperties DEF TypeInv, TypeOK
  <2>2. t \in [Ids -> Objects]
    BY <1>1 DEF TypeInv, TypeOK
  <2> HIDE DEF t
  <2>3. k \in 1 .. Len(p) /\ k - 1 = depth /\ depth \in 0 .. Len(p)
    <3> HIDE DEF depth, p
    <3> QED BY <1>2, <2>1
  <2> QED BY <2>1, <2>2, <2>3
<1>4. /\ from \in reach(t, p)[depth]
      /\ unique(t) => reach(t, p)[depth] \subseteq {from}
  BY <1>1 DEF SettledInv, OnTheWay
<1>5. from \in Ids \cup {Root} /\ browse(mControlUrl, from) = content(mControlUrl, from)
  BY <1>1, <1>2, <1>3, <1>4, ExactBrowse
<1>6. browse(mControlUrl, from) = {c \in Ids : t[c].parent = from}
  BY <1>1, <1>5 DEF content
<1>7. dirName = p[k]
  BY <1>1, <1>2 DEF dirName
<1> HIDE DEF t, p, u
<1>8. ASSUME NEW c \in browse(mControlUrl, from), t[c].title = p[k], contId' = u[c],
             met' = Append(met, c),
             pc' = IF Len(met') = Len(p) THEN "list" ELSE "walk"
      PROVE  OnTheWay(t, p)'
  <2>1. c \in Ids /\ t[c].parent = from
    BY <1>6
  <2>2. /\ c \in reach(t, p)[k] /\ (unique(t) => reach(t, p)[k] \subseteq {c})
    <3>1. /\ t \in [Ids -> Objects] /\ Len(p) \in Nat /\ k \in 1 .. Len(p)
          /\ t[c].title = p[k]
      BY <1>2, <1>3, <1>8 DEF p
    <3>2. from \in reach(t, p)[k - 1] /\ (unique(t) => reach(t, p)[k - 1] \subseteq {from})
      BY <1>3, <1>4
    <3>3. \A x \in Ids \cup {Root} :
            x \in reach(t, p)[k - 1] /\ t[c].parent = x =>
              /\ c \in reach(t, p)[k]
              /\ (unique(t) /\ reach(t, p)[k - 1] \subseteq {x}) =>
                   reach(t, p)[k] \subseteq {c}
      <4> HIDE DEF k
      <4> QED BY <2>1, <3>1, NameFound
    <3> HIDE DEF k
    <3> QED BY <1>5, <2>1, <3>2, <3>3
  <2>3. t' = t /\ p' = p
    BY <1>1 DEF t, p
  <2>4. contId' = c
    <3>1. u[c] = c
      BY <1>3, <2>2 DEF exact
    <3> QED BY <1>8, <3>1
  <2>5. Len(met') = k /\ met' # <<>>
    BY <1>1, <1>8, <2>1, MetGrows
  <2>6. from' = c /\ c # Gone
    BY <2>1, <2>4, <2>5, IdsAssumption DEF from, Gone
  <2>7. pc' = "list" => k = Len(p)
    BY <1>8, <2>5
  <2> HIDE DEF k
  <2> QED BY <1>8, <2>2, <2>3, <2>4, <2>5, <2>6, <2>7 DEF OnTheWay
<1>9. ASSUME \A c \in browse(mControlUrl, from) : t[c].title # p[k],
             contId' = Gone, pc' = "list"
      PROVE  OnTheWay(t, p)'
  <2>1. unique(t) => reach(t, p)[Len(p)] = {}
    <3>1. \A c \in Ids : t[c].parent = from => t[c].title # p[k]
      BY <1>6, <1>9
    <3>2. unique(t) => reach(t, p)[k - 1] \subseteq {from}
      BY <1>3, <1>4
    <3>3. Len(p) \in Nat /\ k \in 1 .. Len(p)
      BY <1>2, <1>3 DEF p
    <3> HIDE DEF k
    <3>4. unique(t) =>
            \A c \in Ids : t[c].parent \in reach(t, p)[k - 1] => t[c].title # p[k]
      BY <3>1, <3>2
    <3> QED BY <3>3, <3>4, NameMissing
  <2>2. t' = t /\ p' = p
    BY <1>1 DEF t, p
  <2> QED BY <1>9, <2>1, <2>2 DEF OnTheWay
<1>10. ASSUME failed', contId' = Gone, pc' = "list" PROVE OnTheWay(t, p)'
  BY <1>10 DEF OnTheWay
<1>11. \/ \E c \in browse(mControlUrl, from) :
            /\ t[c].title = p[k] /\ contId' = u[c] /\ met' = Append(met, c)
            /\ pc' = IF Len(met') = Len(p) THEN "list" ELSE "walk"
       \/ /\ \A c \in browse(mControlUrl, from) : t[c].title # p[k]
          /\ contId' = Gone /\ pc' = "list"
       \/ failed' /\ contId' = Gone /\ pc' = "list"
  <2>1. tree[mControlUrl] = t /\ mDirPathNames = p /\ Number[mControlUrl] = u
    BY <1>1, <1>2 DEF t, p, u
  <2> HIDE DEF k
  <2> QED BY <1>7, <2>1 DEF getNextDirId, sendFails
<1> QED BY <1>8, <1>9, <1>10, <1>11 DEF t, p

LEMMA ServersSettled ==
  ASSUME TypeInv, SettledInv, NEW s \in Servers, NEW c \in Ids, NEW object \in Objects,
         serverChanges(s, c, object)
  PROVE  SettledInv'
<1>1. UNCHANGED <<pc, req, mControlUrl, mDirPathNames, met, contId, answer, failed>>
  BY DEF serverChanges
<1>2. quiet' => quiet /\ (pc = "idle" \/ s # req.server)
  BY DEF serverChanges
<1>3. pc # "idle" /\ s # req.server => tree'[req.server] = tree[req.server]
  BY DEF serverChanges, TypeInv, TypeOK, Requests
<1> SUFFICES ASSUME quiet', plain(req.path), req.path # <<>>, pc \in {"walk", "list"},
                    exact(Number[req.server], tree[req.server], req.path)'
             PROVE  OnTheWay(tree[req.server], req.path)'
  BY <1>1 DEF SettledInv, plain
<1>4. tree'[req.server] = tree[req.server]
  BY <1>2, <1>3
<1>5. OnTheWay(tree[req.server], req.path)
  <2>1. exact(Number[req.server], tree[req.server], req.path)
    BY <1>1, <1>4 DEF exact
  <2> QED BY <1>2, <2>1 DEF SettledInv
<1> QED BY <1>1, <1>4, <1>5 DEF OnTheWay, from

LEMMA NextSettled ==
  TypeInv /\ WalkInv /\ FailInv /\ SettledInv /\ [Next]_vars => SettledInv'
<1> SUFFICES ASSUME TypeInv, WalkInv, FailInv, SettledInv, [Next]_vars
             PROVE  SettledInv'
  OBVIOUS
<1>1. ASSUME NEW op \in {"list", "getProperties"}, NEW s \in Servers, NEW p \in Paths,
             request(op, s, p)
      PROVE  SettledInv'
  <2>1. pc' \in {"idle", "describe"}
    BY <1>1 DEF request
  <2> QED BY <2>1 DEF SettledInv
<1>2. CASE substrThrows \/ listDirContents \/ stoiThrows
  BY <1>2 DEF substrThrows, listDirContents, stoiThrows, SettledInv
<1>3. CASE UNCHANGED vars
  BY <1>3 DEF vars, SettledInv, plain, OnTheWay, from, exact
<1> QED BY <1>1, <1>2, <1>3, DescriptionSettled, NextDirSettled, ServersSettled DEF Next

\* What the last call of a request answers about a server that did not change.
LEMMA SettledListing ==
  ASSUME TypeInv, WalkInv, FailInv, SettledInv, [Next]_vars, Answers, quiet,
         req.path # <<>>, plain(req.path), exactIds(req.server, req.path)
  PROVE  /\ answer'.files # {} =>
              \E x \in at(req.server, req.path) :
                IF req.op = "list" THEN answer'.files = content(req.server, x)
                ELSE answer'.files \subseteq content(req.server, x)
         /\ (answer'.files = {} /\ ~failed' /\ uniqueTitles(req.server)) =>
              \A x \in at(req.server, req.path) : content(req.server, x) = {}
<1> DEFINE there == reach(tree[req.server], req.path)[Len(req.path)]
<1>1. /\ listDirContents /\ pc = "list"
      /\ req \in Requests /\ req.server \in Servers
  BY OnlyListingAnswers DEF TypeInv, Requests
<1>2. at(req.server, req.path) = there /\ (uniqueTitles(req.server) <=> unique(tree[req.server]))
  BY AtReaches
<1>3. /\ OnTheWay(tree[req.server], req.path)
      /\ \A x \in there : browse(req.server, x) = content(req.server, x)
  <2>1. exact(Number[req.server], tree[req.server], req.path)
    BY AtReaches
  <2>2. Len(req.path) \in Nat /\ Len(req.path) \in 0 .. Len(req.path)
    BY LenProperties DEF plain
  <2>3. \A x \in there : browse(req.server, x) = content(req.server, x)
    BY <2>1, <2>2, ExactBrowse
  <2> QED BY <1>1, <2>1, <2>3 DEF SettledInv
<1>4. \/ /\ contId # Gone /\ mControlUrl = req.server
         /\ answer' \in replyFor(browse(req.server, contId)) /\ failed' = failed
      \/ /\ contId = Gone /\ answer' \in replyFor({}) /\ failed' = failed
      \/ answer' \in replyFor({}) /\ failed'
  <2>1. mControlUrl = NoUrl => contId = Gone
    BY <1>1, ServersAssumption DEF WalkInv
  <2>2. contId # Gone => mControlUrl = req.server
    BY <1>1 DEF WalkInv
  <2> QED BY <1>1, <2>1, <2>2 DEF listDirContents, sendFails
<1>5. \A r \in replyFor({}) : r.files = {}
  BY RepliesShowDevs
<1>6. ASSUME NEW devs, NEW r \in replyFor(devs)
      PROVE  /\ req.op = "list" => r.files = devs
             /\ r.files \subseteq devs /\ (r.files = {} => devs = {})
  <2>1. CASE req.op = "list"
    <3>1. r = [sent |-> TRUE, ok |-> devs # {}, files |-> devs]
      BY <1>6, <2>1 DEF replyFor
    <3>2. r.files = devs
      BY <3>1
    <3> QED BY <3>2
  <2>2. CASE req.op # "list" /\ devs = {}
    BY <1>5, <1>6, <2>2
  <2>3. CASE req.op # "list" /\ devs # {}
    <3>1. replyFor(devs) = {[sent |-> TRUE, ok |-> TRUE, files |-> f] : f \in {{c} : c \in devs}}
      BY <2>3 DEF replyFor
    <3>2. PICK c \in devs : r = [sent |-> TRUE, ok |-> TRUE, files |-> {c}]
      BY <1>6, <3>1
    <3>3. r.files = {c}
      BY <3>2
    <3> QED BY <2>3, <3>3
  <2> QED BY <2>1, <2>2, <2>3
<1> HIDE DEF there
<1>7. ASSUME answer'.files # {}
      PROVE  \E x \in there :
               IF req.op = "list" THEN answer'.files = content(req.server, x)
               ELSE answer'.files \subseteq content(req.server, x)
  <2>1. contId # Gone /\ answer' \in replyFor(browse(req.server, contId))
    BY <1>4, <1>5, <1>7
  <2>2. contId \in there
    BY <1>1, <1>3, <2>1 DEF OnTheWay, there
  <2> QED BY <1>3, <1>6, <2>1, <2>2
<1>8. ASSUME answer'.files = {}, ~failed', unique(tree[req.server]), NEW x \in there
      PROVE  content(req.server, x) = {}
  <2>1. CASE contId # Gone
    <3>1. answer' \in replyFor(browse(req.server, contId))
      BY <1>4, <1>8, <2>1
    <3>2. browse(req.server, contId) = {}
      BY <1>6, <1>8, <3>1
    <3>3. x = contId
      BY <1>1, <1>3, <1>8, <2>1 DEF OnTheWay, there
    <3> QED BY <1>3, <1>8, <3>2, <3>3
  <2>2. CASE contId = Gone
    <3>1. ~failed
      BY <1>4, <1>8, <2>2
    <3>2. there = {}
      BY <1>1, <1>3, <1>8, <2>2, <3>1 DEF OnTheWay, there
    <3> QED BY <1>8, <3>2
  <2> QED BY <2>1, <2>2
<1> QED BY <1>2, <1>7, <1>8

\* A server that does not change meanwhile is shown as it is: what list
\* answers is the content of the container at the path, if the ids on it are
\* just numbers, and where no call failed and titles are unique nothing that is
\* there is missed, whatever servers, trees and paths there are.
THEOREM SettledAnswers == Spec => SettledAnswerIsTrue
<1> DEFINE Settled ==
      (/\ Answers /\ quiet
       /\ req.path # <<>> /\ plain(req.path) /\ exactIds(req.server, req.path)) =>
       /\ answer'.files # {} =>
            \E x \in at(req.server, req.path) :
              IF req.op = "list" THEN answer'.files = content(req.server, x)
              ELSE answer'.files \subseteq content(req.server, x)
       /\ (answer'.files = {} /\ ~failed' /\ uniqueTitles(req.server)) =>
            \A x \in at(req.server, req.path) : content(req.server, x) = {}
<1>1. TypeInv /\ WalkInv /\ FailInv /\ SettledInv /\ [Next]_vars => [Settled]_vars
  BY SettledListing
<1> QED BY <1>1, InitTyped, NextTyped, InitBrowses, NextBrowses, InitSettled,
           NextSettled, PTL DEF Spec, SettledAnswerIsTrue
=============================================================================
