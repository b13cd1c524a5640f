-------------------------- MODULE FolderPagesProofs --------------------------
(***************************************************************************)
(* Proofs about FolderPages, for every width of int, every folder and      *)
(* every size of page: the page a listing cuts out of a folder is in       *)
(* bounds and is the page that was asked for, and the pages of a folder    *)
(* that nobody changes fit together.                                       *)
(***************************************************************************)
EXTENDS FolderPages, SequenceTheorems, FiniteSetTheorems, WellFoundedInduction,
        TLAPS

\* Every slot visited adds at most one entry, so the int arithmetic of the
\* page meets sizes an int can hold; an entry being looked at is there.
ContentsFit ==
  /\ Len(mContents) <= (IF pc = "getFileType" THEN slot ELSE slot - 1)
  /\ pc = "getFileType" => Len(mContents) > 0 /\ slot <= Slots

\* The inductive invariant: well-formedness, and that the vector of entries
\* stays shorter than the largest int.
IInv == TypeOK /\ ContentsFit

\* starts and ends stay inside a vector of any length.
LEMMA BoundsOfPage ==
  ASSUME NEW offset \in Int32, NEW limit \in Int32, NEW n \in Nat,
         NEW s \in starts(offset, n), NEW e \in ends(offset, limit, n)
  PROVE  s \in Nat /\ e \in Int /\ e <= n
  BY IntAssumption DEF starts, ends, outcomes, wrap, Int32

\* For a sensible request, starts and ends are what exact integers make them,
\* wrapped sum or not, if the length is an int.
LEMMA CutIsExact ==
  ASSUME NEW offset \in Int32, NEW limit \in Int32, NEW n \in Nat,
         n <= MaxInt, offset >= 1, limit >= 0,
         NEW s \in starts(offset, n), NEW e \in ends(offset, limit, n)
  PROVE  /\ s = (IF offset > n THEN n + 1 ELSE offset - 1)
         /\ e = (IF limit + offset - 1 > n THEN n ELSE limit + offset - 1)
<1>1. s = (IF offset > n THEN n + 1 ELSE offset - 1)
  BY IntAssumption DEF starts, outcomes, wrap, Int32
<1>2. e = (IF limit + offset - 1 > n THEN n ELSE limit + offset - 1)
  <2> DEFINE sum == limit + offset - 1
  <2>1. PICK x \in outcomes(sum) : e = IF x < 0 \/ x > n THEN n ELSE x
    BY DEF ends
  <2>2. sum \in Int /\ 0 <= sum /\ sum < 2 * MaxInt
    BY IntAssumption DEF Int32
  <2>3. CASE x = sum
    BY <2>1, <2>2, <2>3
  <2>4. CASE x = wrap(sum)
    <3>1. CASE sum <= MaxInt
      BY <2>2, <2>3, <2>4, <3>1, IntAssumption DEF wrap
    <3>2. CASE sum > MaxInt
      <4>1. wrap(sum) = sum - 2 * (MaxInt + 1)
        BY <3>2 DEF wrap
      <4>2. wrap(sum) < 0
        BY <2>2, <4>1, IntAssumption
      <4> QED
        BY <2>1, <2>2, <2>4, <3>2, <4>2, IntAssumption
    <3> QED
      BY <2>2, <3>1, <3>2, IntAssumption
  <2> QED
    BY <2>1, <2>3, <2>4 DEF outcomes
<1> QED
  BY <1>1, <1>2

\* For a sensible request, starts and ends select what exact integers
\* select, wrapped sum or not, if the length is an int.
LEMMA PageIsExact ==
  ASSUME NEW offset \in Int32, NEW limit \in Int32, NEW n \in Nat,
         n <= MaxInt, offset >= 1, limit >= 0,
         NEW s \in starts(offset, n), NEW e \in ends(offset, limit, n),
         NEW i \in 1 .. n
  PROVE  (s < i /\ i <= e) <=> (offset <= i /\ i < offset + limit)
  BY CutIsExact, IntAssumption DEF Int32

\* A new entry or a new type keeps the vector a sequence of entries.
LEMMA PageOfEntries ==
  ASSUME NEW c \in Seq(Entries), NEW s \in Nat, NEW e \in Int, e <= Len(c)
  PROVE  SubSeq(c, s + 1, e) \in Seq(Entries)
<1>1. CASE s + 1 <= e
  BY <1>1, SubSeqProperties
<1>2. CASE s + 1 > e
  BY <1>2, SubSeqProperties
<1> QED
  BY <1>1, <1>2

\* The first state has the inductive invariant.
THEOREM InitInv == Init => IInv
<1> SUFFICES ASSUME Init PROVE IInv
  OBVIOUS
<1>1. TypeOK
  <2>1. params \in [offset : Int32, limit : Int32, paging : BOOLEAN]
    BY IntAssumption DEF Init, Int32
  <2>2. <<>> \in Seq(Entries)
    OBVIOUS
  <2>3. answer \in [ok : BOOLEAN, files : Seq(Entries), totalCount : Nat]
    BY <2>2 DEF Init, NoAnswer
  <2>4. pager \in [next : Int, size : PageSizes, got : Seq(Entries),
                   since : 0 .. MaxChanges,
                   state : {"asking", "done", "failed"}]
    BY <2>2, ChangesAssumption DEF Init
  <2>5. there \in BOOLEAN
    BY DEF Init
  <2>6. /\ dir \in [1 .. Slots -> Files \cup {NoName}]
        /\ changes \in 0 .. MaxChanges
        /\ slot \in 1 .. Slots + 1
    BY SlotsAssumption, ChangesAssumption DEF Init
  <2> QED
    BY <2>1, <2>2, <2>3, <2>4, <2>5, <2>6 DEF Init, TypeOK
<1>2. ContentsFit
  BY DEF Init, ContentsFit
<1> QED
  BY <1>1, <1>2 DEF IInv

\* What the paging client makes of a reply keeps its record well formed.
LEMMA PagerTyped ==
  ASSUME TypeOK,
         NEW a \in [ok : BOOLEAN, files : Seq(Entries), totalCount : Nat],
         pagerTakes(a)
  PROVE  pager' \in [next : Int, size : PageSizes, got : Seq(Entries),
                     since : 0 .. MaxChanges,
                     state : {"asking", "done", "failed"}]
<1>1. pager.next + pager.size \in Int
  <2>1. pager.next \in Int /\ pager.size \in PageSizes
    BY DEF TypeOK
  <2>2. PageSizes \subseteq Int
    BY ParamsAssumption
  <2>3. pager.size \in Int
    BY <2>1, <2>2, Zenon
  <2> HIDE DEF TypeOK
  <2> QED
    BY <2>1, <2>3, SMT
<1>2. pager.got \o a.files \in Seq(Entries)
  BY ConcatProperties DEF TypeOK
<1> QED
  BY <1>1, <1>2 DEF TypeOK, pagerTakes

\* Every step of the provider's thread, the clients and the other programs
\* keeps the inductive invariant.
THEOREM NextInv == IInv /\ [Next]_vars => IInv'
<1> SUFFICES ASSUME TypeOK, ContentsFit, [Next]_vars PROVE IInv'
  BY DEF IInv
<1> USE SlotsAssumption, IntAssumption
<1>1. ASSUME NEW o \in Int32, NEW l \in Int32, NEW g \in BOOLEAN,
             listFolderContents(o, l, g),
             pager' \in [next : Int, size : PageSizes, got : Seq(Entries),
                         since : 0 .. MaxChanges,
                         state : {"asking", "done", "failed"}]
      PROVE  IInv'
  BY <1>1 DEF IInv, TypeOK, ContentsFit, listFolderContents, folderVars
<1>2. CASE pagerAsks
  <2>1. pager.size \in Int32
    BY ParamsAssumption DEF TypeOK
  <2>2. pager' \in [next : Int, size : PageSizes, got : Seq(Entries),
                    since : 0 .. MaxChanges,
                    state : {"asking", "done", "failed"}]
    BY <1>2 DEF pagerAsks, TypeOK
  <2> QED
    BY <1>1, <1>2, <2>1, <2>2 DEF pagerAsks
<1>3. ASSUME NEW o \in Offsets, NEW l \in Limits, otherAsks(o, l)
      PROVE  IInv'
  BY <1>1, <1>3, ParamsAssumption DEF otherAsks, TypeOK
<1>4. CASE nextEntry
  <2>1. CASE dir[slot] \in Names
    <3> DEFINE new == [name |-> dir[slot], type |-> "unknown"]
    <3>1. new \in Entries
      BY <2>1 DEF Entries, Files
    <3>2. mContents' = Append(mContents, new) /\ pc' = "getFileType"
          /\ UNCHANGED slot
      BY <1>4, <2>1 DEF nextEntry
    <3>3. mContents' \in Seq(Entries) /\ Len(mContents') = Len(mContents) + 1
      BY <3>1, <3>2, AppendProperties DEF TypeOK
    <3>4. TypeOK'
      BY <1>4, <3>2, <3>3 DEF TypeOK, nextEntry, folderVars
    <3>5. Len(mContents) \in Nat
      BY LenProperties DEF TypeOK
    <3> HIDE DEF new
    <3>6. ContentsFit'
      BY <1>4, <3>2, <3>3, <3>5 DEF TypeOK, ContentsFit, nextEntry
    <3> QED
      BY <3>4, <3>6 DEF IInv
  <2>2. CASE dir[slot] \notin Names
    BY <1>4, <2>2 DEF nextEntry, IInv, TypeOK, ContentsFit, folderVars
  <2> QED
    BY <2>1, <2>2
<1>5. CASE getFileType
  <2>1. mContents' \in Seq(Entries) /\ Len(mContents') = Len(mContents)
    <3> DEFINE i == Len(mContents)
    <3>1. i \in 1 .. Len(mContents)
      BY <1>5, LenProperties DEF getFileType, ContentsFit, TypeOK
    <3>2. mContents[i] \in Entries
      BY <3>1, ElementOfSeq DEF TypeOK
    <3>3. [mContents[i] EXCEPT !.type = "regular"] \in Entries
      BY <3>2 DEF Entries
    <3>4. CASE mContents' = mContents
      BY <3>4 DEF TypeOK
    <3>5. CASE mContents' = [mContents EXCEPT ![i].type = "regular"]
      <4>1. mContents' = [mContents EXCEPT
                ![i] = [mContents[i] EXCEPT !.type = "regular"]]
        BY <3>5
      <4> QED
        BY <3>1, <3>3, <4>1, ExceptSeq DEF TypeOK
    <3> QED
      BY <1>5, <3>4, <3>5 DEF getFileType
  <2>2. TypeOK'
    BY <1>5, <2>1 DEF TypeOK, getFileType, folderVars, ContentsFit
  <2>3. ContentsFit'
    BY <1>5, <2>1, LenProperties DEF TypeOK, ContentsFit, getFileType
  <2> QED
    BY <2>2, <2>3 DEF IInv
<1>6. CASE iteratorThrows
  BY <1>6 DEF iteratorThrows, IInv, TypeOK, ContentsFit, folderVars
<1>7. CASE sendPage
  <2>1. PICK s \in starts(params.offset, Len(mContents)),
             e \in ends(params.offset, params.limit, Len(mContents)) :
          /\ answer' = [ok |-> TRUE, files |-> SubSeq(mContents, s + 1, e),
                        totalCount |-> Len(mContents)]
          /\ pagerTakes(answer')
    BY <1>7 DEF sendPage
  <2>2. Len(mContents) \in Nat
    BY LenProperties DEF TypeOK
  <2>3. s \in Nat /\ e \in Int /\ e <= Len(mContents)
    BY <2>2, BoundsOfPage DEF TypeOK
  <2>4. SubSeq(mContents, s + 1, e) \in Seq(Entries)
    BY <2>3, PageOfEntries DEF TypeOK
  <2>5. answer' \in [ok : BOOLEAN, files : Seq(Entries), totalCount : Nat]
    BY <2>1, <2>2, <2>4
  <2>6. pager' \in [next : Int, size : PageSizes, got : Seq(Entries),
                    since : 0 .. MaxChanges,
                    state : {"asking", "done", "failed"}]
    BY <2>1, <2>5, PagerTyped
  <2> QED
    BY <1>7, <2>5, <2>6 DEF sendPage, IInv, TypeOK, ContentsFit, folderVars
<1>8. CASE sendError
  <2>1. NoAnswer \in [ok : BOOLEAN, files : Seq(Entries), totalCount : Nat]
    BY DEF NoAnswer
  <2>2. pager' \in [next : Int, size : PageSizes, got : Seq(Entries),
                    since : 0 .. MaxChanges,
                    state : {"asking", "done", "failed"}]
    BY <1>8, <2>1, PagerTyped DEF sendError
  <2> QED
    BY <1>8, <2>1, <2>2 DEF sendError, IInv, TypeOK, ContentsFit, folderVars
<1>9. ASSUME NEW f \in Files, NEW i \in 1 .. Slots, someoneCreates(f, i)
      PROVE  IInv'
  BY <1>9, ChangesAssumption
  DEF someoneCreates, IInv, TypeOK, ContentsFit
<1>10. ASSUME NEW i \in 1 .. Slots, someoneRemoves(i)
       PROVE  IInv'
  BY <1>10, ChangesAssumption
  DEF someoneRemoves, IInv, TypeOK, ContentsFit
<1>11. CASE folderGoes
  <2>1. there' \in BOOLEAN
    BY <1>11 DEF folderGoes
  <2>2. changes' \in 0 .. MaxChanges
    BY <1>11, ChangesAssumption DEF folderGoes, TypeOK
  <2>3. UNCHANGED <<dir, pc, slot, params, mContents, answer, pager>>
    BY <1>11 DEF folderGoes
  <2> QED
    BY <2>1, <2>2, <2>3 DEF IInv, TypeOK, ContentsFit
<1>12. CASE UNCHANGED vars
  BY <1>12 DEF vars, IInv, TypeOK, ContentsFit
<1> QED
  BY <1>2, <1>3, <1>4, <1>5, <1>6, <1>7, <1>8, <1>9, <1>10, <1>11, <1>12
  DEF Next

\* The inductive invariant holds throughout every behaviour.
THEOREM Inductive == Spec => []IInv
  BY InitInv, NextInv, PTL DEF Spec

\* Every folder listing and every pager keeps its state well formed.
THEOREM TypeCorrect == Spec => []TypeOK
<1>1. IInv => TypeOK
  BY DEF IInv
<1> QED
  BY <1>1, Inductive, PTL

\* For every width of int, every folder and every offset and limit a client
\* may send, the loop over the entries stays inside the vector.
THEOREM PagesInBounds == Spec => []PageInBounds
<1>1. IInv => PageInBounds
  <2> SUFFICES ASSUME TypeOK PROVE PageInBounds
    BY DEF IInv
  <2>1. Len(mContents) \in Nat
    BY LenProperties DEF TypeOK
  <2> QED
    BY <2>1, BoundsOfPage DEF PageInBounds, TypeOK
<1> QED
  BY <1>1, Inductive, PTL

\* For every width of int, a request with an offset from 1 and no negative
\* limit is answered with exactly the entries at the places it asked for.
THEOREM PagesAsAsked == Spec => []PageAsAsked
<1>1. IInv => PageAsAsked
  <2> SUFFICES ASSUME TypeOK, ContentsFit, pc = "iterate",
                      params.offset >= 1, params.limit >= 0,
                      NEW s \in starts(params.offset, Len(mContents)),
                      NEW e \in ends(params.offset, params.limit, Len(mContents)),
                      NEW i \in 1 .. Len(mContents)
               PROVE  (s < i /\ i <= e)
                      <=> (params.offset <= i /\ i < params.offset + params.limit)
    BY DEF IInv, PageAsAsked
  <2>1. Len(mContents) \in Nat /\ Len(mContents) <= MaxInt
    BY LenProperties, SlotsAssumption, IntAssumption DEF TypeOK, ContentsFit
  <2> QED
    BY <2>1, PageIsExact DEF TypeOK
<1> QED
  BY <1>1, Inductive, PTL

-----------------------------------------------------------------------------
(***************************************************************************)
(* Paging through a folder that nobody changes.                            *)
(***************************************************************************)
\* The place of slot k of folder d among its visible entries.
rank(d, k) == Cardinality({j \in 1 .. k : d[j] \in Names})

quiet == pager.since = changes
whole(name) == [name |-> name, type |-> "regular"]

\* The visible entries up to the m-th stand in c at their places.
Placed(d, c, m) ==
  \A k \in 1 .. Slots :
    d[k] \in Names /\ rank(d, k) <= m => c[rank(d, k)] = whole(d[k])

\* No two files have the same name.
Apart ==
  \A i, j \in 1 .. Slots : i # j /\ dir[i] # NoName => dir[i] # dir[j]

\* A request of the pager's is for the page it is at.
Asked ==
  /\ pager.since <= changes /\ pager.next >= 1
  /\ pager.next = 1 => pager.got = <<>>
  /\ params.paging /\ pc # "idle" =>
       /\ pager.state = "asking"
       /\ params.offset = pager.next /\ params.limit = pager.size

\* What a listing for the pager has read: the visible entries of the slots it
\* has visited, each with its type but for the one it is at.
ReadSoFar ==
  params.paging /\ quiet /\ pc \in {"iterate", "getFileType"} =>
    /\ there
    /\ Placed(dir, mContents, rank(dir, slot - 1))
    /\ pc = "iterate" => Len(mContents) = rank(dir, slot - 1)
    /\ pc = "getFileType" =>
         /\ dir[slot] \in Names
         /\ Len(mContents) = rank(dir, slot - 1) + 1
         /\ mContents[rank(dir, slot - 1) + 1] = [name |-> dir[slot], type |-> "unknown"]

\* What the pager has: every place before the page it is at, as far as there
\* are entries, and all there are when it is done.
GotSoFar ==
  quiet =>
    /\ Placed(dir, pager.got, Len(pager.got))
    /\ Len(pager.got) = (IF pager.next - 1 < rank(dir, Slots) THEN pager.next - 1
                         ELSE rank(dir, Slots))
    /\ pager.state = "done" => Len(pager.got) = rank(dir, Slots)

TileInv == Apart /\ Asked /\ ReadSoFar /\ GotSoFar

\* A set of numbers has a least one: what inductions over the slots rest on.
LEMMA NatLeast ==
  ASSUME NEW T \in SUBSET Nat, T # {}
  PROVE  \E m \in T : \A n \in T : m <= n
<1>1. \E m \in T : \A n \in T : ~(<<n, m>> \in OpToRel(<, Nat))
  BY WFMin, NatLessThanWellFounded, Zenon
<1>2. \E m \in T : \A n \in T : ~(n < m)
  BY <1>1, Zenon DEF OpToRel
<1> QED
  BY <1>2

\* Places are counted in steps of one.
LEMMA RankSteps ==
  ASSUME NEW d
  PROVE  /\ rank(d, 0) = 0
         /\ \A k \in Nat : rank(d, k) \in Nat
         /\ \A k \in Nat \ {0} :
              rank(d, k) = rank(d, k - 1) + (IF d[k] \in Names THEN 1 ELSE 0)
<1> DEFINE V(k) == {j \in 1 .. k : d[j] \in Names}
<1>1. ASSUME NEW k \in Nat PROVE IsFiniteSet(V(k)) /\ rank(d, k) \in Nat
  <2>1. IsFiniteSet(1 .. k)
    BY FS_Interval
  <2>2. V(k) \subseteq 1 .. k
    OBVIOUS
  <2>3. IsFiniteSet(V(k))
    BY <2>1, <2>2, FS_Subset
  <2> QED
    BY <2>3, FS_CardinalityType DEF rank
<1>2. rank(d, 0) = 0
  <2>1. V(0) = {}
    OBVIOUS
  <2> QED
    BY <2>1, FS_EmptySet DEF rank
<1>3. ASSUME NEW k \in Nat \ {0}
      PROVE  rank(d, k) = rank(d, k - 1) + (IF d[k] \in Names THEN 1 ELSE 0)
  <2>1. k - 1 \in Nat /\ k \notin 1 .. (k - 1) /\ 1 .. k = (1 .. (k - 1)) \cup {k}
    OBVIOUS
  <2>2. IsFiniteSet(V(k - 1)) /\ rank(d, k - 1) \in Nat
    BY <1>1, <2>1
  <2>3. CASE d[k] \in Names
    <3>1. V(k) = V(k - 1) \cup {k} /\ k \notin V(k - 1)
      BY <2>1, <2>3
    <3>2. Cardinality(V(k)) = Cardinality(V(k - 1)) + 1
      BY <2>2, <3>1, FS_AddElement
    <3> QED
      BY <2>3, <3>2 DEF rank
  <2>4. CASE d[k] \notin Names
    <3>1. V(k) = V(k - 1)
      BY <2>1, <2>4
    <3>2. rank(d, k) = rank(d, k - 1)
      BY <3>1 DEF rank
    <3> QED
      BY <2>2, <2>4, <3>2
  <2> QED
    BY <2>3, <2>4
<1> QED
  BY <1>1, <1>2, <1>3

\* A later slot has no lower place, and a later visible entry a higher one.
LEMMA RankUp ==
  ASSUME NEW d, NEW j \in Nat, NEW k \in Nat, j <= k
  PROVE  /\ rank(d, j) <= rank(d, k)
         /\ j < k /\ d[k] \in Names => rank(d, j) < rank(d, k)
<1>1. ASSUME NEW n \in Nat, j <= n PROVE rank(d, j) <= rank(d, n)
  <2>1. IsFiniteSet(1 .. n)
    BY FS_Interval
  <2>2. {i \in 1 .. n : d[i] \in Names} \subseteq 1 .. n
    OBVIOUS
  <2>3. IsFiniteSet({i \in 1 .. n : d[i] \in Names})
    BY <2>1, <2>2, FS_Subset
  <2>4. {i \in 1 .. j : d[i] \in Names} \subseteq {i \in 1 .. n : d[i] \in Names}
    BY <1>1
  <2> QED
    BY <2>3, <2>4, FS_Subset DEF rank
<1>2. ASSUME j < k, d[k] \in Names PROVE rank(d, j) < rank(d, k)
  <2>1. k - 1 \in Nat /\ j <= k - 1 /\ k \in Nat \ {0}
    BY <1>2
  <2>2. rank(d, j) <= rank(d, k - 1)
    BY <1>1, <2>1
  <2>3. rank(d, k) = rank(d, k - 1) + 1
    BY <1>2, <2>1, RankSteps
  <2>4. rank(d, j) \in Nat /\ rank(d, k - 1) \in Nat
    BY <2>1, RankSteps
  <2> QED
    BY <2>2, <2>3, <2>4
<1> QED
  BY <1>1, <1>2

\* Every place up to the last one is the place of a visible entry.
LEMMA EveryPlace ==
  ASSUME NEW d, Slots \in Nat, NEW i \in 1 .. rank(d, Slots)
  PROVE  \E k \in 1 .. Slots : d[k] \in Names /\ rank(d, k) = i
<1> DEFINE T == {k \in 0 .. Slots : rank(d, k) >= i}
<1>1. rank(d, Slots) \in Nat
  BY RankSteps
<1>2. Slots \in T /\ T \in SUBSET Nat
  BY <1>1
<1>3. PICK k \in T : \A n \in T : k <= n
  BY <1>2, NatLeast
<1>4. k \in 0 .. Slots /\ rank(d, k) >= i /\ i \in Nat \ {0} /\ k # 0
  BY <1>1, <1>3, RankSteps
<1>5. k \in 1 .. Slots /\ k \in Nat \ {0} /\ k - 1 \in 0 .. Slots /\ k - 1 \in Nat
  BY <1>4
<1>6. ~(rank(d, k - 1) >= i)
  BY <1>3, <1>5
<1>7. rank(d, k - 1) \in Nat /\ rank(d, k) = rank(d, k - 1) + (IF d[k] \in Names THEN 1 ELSE 0)
  BY <1>5, RankSteps
<1> QED
  BY <1>4, <1>5, <1>6, <1>7

\* A visible entry has a place from one up to the last one.
LEMMA HasPlace ==
  ASSUME NEW d, NEW k \in 1 .. Slots
  PROVE  /\ Slots \in Nat /\ rank(d, Slots) \in Nat /\ rank(d, k) \in Nat
         /\ rank(d, k) <= rank(d, Slots)
         /\ d[k] \in Names => rank(d, k) > 0
<1>1. Slots \in Nat /\ k \in Nat /\ 0 <= k /\ 0 < k /\ k <= Slots
  BY SlotsAssumption
<1>2. rank(d, 0) = 0 /\ rank(d, k) \in Nat /\ rank(d, Slots) \in Nat
  BY <1>1, RankSteps
<1>3. rank(d, k) <= rank(d, Slots)
  BY <1>1, RankUp
<1>4. d[k] \in Names => rank(d, 0) < rank(d, k)
  BY <1>1, RankUp
<1> QED BY <1>1, <1>2, <1>3, <1>4

LEMMA NothingPlaced == ASSUME NEW d, NEW c PROVE Placed(d, c, 0)
BY HasPlace DEF Placed

LEMMA LastPlace == Slots \in Nat /\ \A d : rank(d, Slots) \in Nat
BY SlotsAssumption, RankSteps

LEMMA InitTiles == Init => TileInv
<1> SUFFICES ASSUME Init PROVE TileInv
  OBVIOUS
<1>1. /\ pager.next = 1 /\ pager.got = <<>> /\ pager.since = 0
      /\ pager.state = "asking" /\ changes = 0 /\ pc = "idle" /\ ~params.paging
  BY DEF Init
<1>2. Apart
  BY DEF Init, Apart
<1>3. Asked
  BY <1>1 DEF Asked
<1>4. ReadSoFar
  BY <1>1 DEF ReadSoFar
<1>5. GotSoFar
  <2>1. Len(pager.got) = 0 /\ rank(dir, Slots) \in Nat
    BY <1>1, LastPlace
  <2> QED BY <1>1, <2>1, NothingPlaced DEF GotSoFar
<1> QED BY <1>2, <1>3, <1>4, <1>5 DEF TileInv

\* Whoever changes the folder ends the quiet of every paging.
LEMMA ChangesTile ==
  ASSUME TileInv, changes' = changes + 1, changes \in Nat, pager.since \in Nat,
         Apart', UNCHANGED <<pc, slot, params, mContents, answer, pager>>
  PROVE  TileInv'
<1>1. Asked'
  BY DEF TileInv, Asked
<1>2. ~quiet'
  BY DEF TileInv, Asked, quiet
<1> QED BY <1>1, <1>2 DEF TileInv, ReadSoFar, GotSoFar

\* A listing begins: for another client, or for the page the pager is at.
LEMMA BeginTiles ==
  ASSUME IInv, TileInv, NEW o, NEW l, NEW g \in BOOLEAN, listFolderContents(o, l, g),
         \/ ~g /\ UNCHANGED pager
         \/ g /\ pagerAsks /\ o = pager.next /\ l = pager.size
  PROVE  TileInv'
<1>1. /\ dir' = dir /\ there' = there /\ changes' = changes /\ mContents' = <<>>
      /\ slot' = 1 /\ pc' = (IF there THEN "iterate" ELSE "refuse")
      /\ params' = [offset |-> o, limit |-> l, paging |-> g]
  BY DEF listFolderContents, folderVars
<1>2. /\ pager'.next = pager.next /\ pager'.size = pager.size
      /\ pager'.got = pager.got /\ pager'.state = pager.state
      /\ \/ pager'.since = pager.since
         \/ g /\ pager.next = 1 /\ pager'.since = changes
      /\ g => pager.state = "asking" /\ o = pager.next /\ l = pager.size
  BY DEF pagerAsks, IInv, TypeOK
<1>3. changes \in Nat
  BY ChangesAssumption DEF IInv, TypeOK
<1>4. Apart'
  BY <1>1 DEF TileInv, Apart
<1>5. Asked'
  BY <1>1, <1>2, <1>3 DEF TileInv, Asked
<1>6. ReadSoFar'
  <2>1. rank(dir', slot' - 1) = 0
    BY <1>1, RankSteps
  <2> QED BY <1>1, <2>1, NothingPlaced DEF ReadSoFar
<1>7. GotSoFar'
  <2>1. CASE pager'.since = pager.since
    BY <1>1, <1>2, <2>1 DEF TileInv, GotSoFar, quiet
  <2>2. CASE pager.next = 1 /\ g
    <3>1. pager'.got = <<>> /\ Len(pager'.got) = 0 /\ pager'.next = 1
          /\ pager'.state = "asking"
      BY <1>2, <2>2 DEF TileInv, Asked
    <3> QED BY <3>1, NothingPlaced, LastPlace DEF GotSoFar
  <2> QED BY <1>2, <2>1, <2>2
<1> QED BY <1>4, <1>5, <1>6, <1>7 DEF TileInv

\* What the thread does before its reply is about its own vector only.
LEMMA ReadingTiles ==
  ASSUME TileInv, ReadSoFar',
         UNCHANGED <<params, answer, pager, folderVars>>,
         pc' # "idle" => pc # "idle"
  PROVE  TileInv'
<1>1. Apart'
  BY DEF TileInv, Apart, folderVars
<1>2. Asked'
  BY DEF TileInv, Asked, folderVars
<1>3. GotSoFar'
  BY DEF TileInv, GotSoFar, quiet, folderVars
<1> QED BY <1>1, <1>2, <1>3 DEF TileInv

\* What is added behind the first m places, or changed there, leaves them.
LEMMA PlacedBefore ==
  ASSUME NEW d, NEW c, NEW e, NEW m \in Nat, Placed(d, c, m),
         \A i \in 1 .. m : e[i] = c[i]
  PROVE  Placed(d, e, m)
<1> SUFFICES ASSUME NEW k \in 1 .. Slots, d[k] \in Names, rank(d, k) <= m
             PROVE  e[rank(d, k)] = whole(d[k])
  BY DEF Placed
<1>1. rank(d, k) \in 1 .. m
  BY HasPlace
<1>2. c[rank(d, k)] = whole(d[k])
  BY DEF Placed
<1> QED BY <1>1, <1>2

LEMMA EntryTiles == ASSUME IInv, TileInv, nextEntry PROVE TileInv'
<1>1. /\ pc = "iterate" /\ slot \in 1 .. Slots /\ slot \in Nat \ {0}
      /\ UNCHANGED <<params, answer, pager, folderVars>>
      /\ pc' # "idle" => pc # "idle"
      /\ mContents \in Seq(Entries) /\ Len(mContents) \in Nat
  BY SlotsAssumption, LenProperties DEF nextEntry, IInv, TypeOK
<1>2. CASE dir[slot] \in Names
  <2> DEFINE new == [name |-> dir[slot], type |-> "unknown"]
  <2>1. mContents' = Append(mContents, new) /\ pc' = "getFileType" /\ slot' = slot
    BY <1>2, <1>1 DEF nextEntry
  <2>2. new \in Entries
    BY <1>2 DEF Entries, Files
  <2> HIDE DEF new
  <2>3. /\ Len(mContents') = Len(mContents) + 1
        /\ \A i \in 1 .. Len(mContents) : mContents'[i] = mContents[i]
        /\ mContents'[Len(mContents) + 1] = new
    BY <1>1, <2>1, <2>2, AppendProperties
  <2>4. ASSUME params.paging, quiet
        PROVE  /\ there /\ Placed(dir, mContents', rank(dir, slot - 1))
               /\ Len(mContents') = rank(dir, slot - 1) + 1
               /\ mContents'[rank(dir, slot - 1) + 1] = new
    <3>1. /\ there /\ Placed(dir, mContents, rank(dir, slot - 1))
          /\ Len(mContents) = rank(dir, slot - 1)
      BY <1>1, <2>4 DEF TileInv, ReadSoFar
    <3> QED BY <1>1, <2>3, <3>1, PlacedBefore
  <2>5. ReadSoFar'
    BY <1>1, <1>2, <2>1, <2>4 DEF ReadSoFar, quiet, folderVars, new
  <2> QED BY <1>1, <2>5, ReadingTiles
<1>3. CASE dir[slot] \notin Names
  <2>1. mContents' = mContents /\ pc' = "iterate" /\ slot' - 1 = slot
    BY <1>1, <1>3 DEF nextEntry
  <2>2. rank(dir, slot) = rank(dir, slot - 1)
    <3>1. slot - 1 \in Nat
      BY <1>1
    <3>2. rank(dir, slot - 1) \in Nat
      BY <3>1, RankSteps
    <3>3. rank(dir, slot) = rank(dir, slot - 1) + 0
      BY <1>1, <1>3, RankSteps
    <3> QED BY <3>2, <3>3
  <2>3. ReadSoFar'
    BY <1>1, <2>1, <2>2 DEF TileInv, ReadSoFar, quiet, folderVars
  <2> QED BY <1>1, <2>3, ReadingTiles
<1> QED BY <1>2, <1>3

LEMMA TypeTiles == ASSUME IInv, TileInv, getFileType PROVE TileInv'
<1> DEFINE i == Len(mContents)
<1>1. /\ pc = "getFileType" /\ slot \in 1 .. Slots /\ slot \in Nat \ {0}
      /\ UNCHANGED <<params, answer, pager, folderVars>>
      /\ pc' = "iterate" /\ slot' - 1 = slot
      /\ mContents \in Seq(Entries) /\ i \in Nat \ {0} /\ DOMAIN mContents = 1 .. i
  BY SlotsAssumption, LenProperties DEF getFileType, IInv, TypeOK, ContentsFit
<1>2. ASSUME params.paging, quiet
      PROVE  /\ there /\ Placed(dir, mContents', rank(dir, slot))
             /\ Len(mContents') = rank(dir, slot)
  <2> DEFINE r == rank(dir, slot - 1)
  <2>1. /\ there /\ Placed(dir, mContents, r)
        /\ dir[slot] \in Names /\ i = r + 1
        /\ mContents[i] = [name |-> dir[slot], type |-> "unknown"]
    BY <1>1, <1>2 DEF TileInv, ReadSoFar
  <2>2. mContents' = [mContents EXCEPT ![i].type = "regular"]
    BY <1>1, <2>1 DEF getFileType
  <2>3. r \in Nat /\ rank(dir, slot) = r + 1
    <3>1. slot - 1 \in Nat
      BY <1>1
    <3> QED BY <1>1, <2>1, <3>1, RankSteps
  <2> HIDE DEF r
  <2>4. /\ mContents'[i] = whole(dir[slot])
        /\ \A n \in 1 .. i : n # i => mContents'[n] = mContents[n]
        /\ DOMAIN mContents' = 1 .. i
    BY <1>1, <2>1, <2>2 DEF whole
  <2>5. Len(mContents') = i
    <3>1. mContents' \in Seq(Entries)
      <4>1. mContents[i] \in Entries
        BY <1>1, ElementOfSeq
      <4>2. [mContents[i] EXCEPT !.type = "regular"] \in Entries
        BY <4>1 DEF Entries
      <4>3. mContents' = [mContents EXCEPT ![i] = [mContents[i] EXCEPT !.type = "regular"]]
        BY <2>2
      <4> QED BY <1>1, <4>2, <4>3, ExceptSeq
    <3>2. DOMAIN mContents' = 1 .. Len(mContents') /\ Len(mContents') \in Nat
      BY <3>1, LenProperties
    <3> HIDE DEF i
    <3> QED BY <1>1, <2>4, <3>2
  <2>6. Placed(dir, mContents', i)
    <3> SUFFICES ASSUME NEW k \in 1 .. Slots, dir[k] \in Names, rank(dir, k) <= i
                 PROVE  mContents'[rank(dir, k)] = whole(dir[k])
      BY DEF Placed
    <3>1. k \in Nat /\ rank(dir, k) \in Nat /\ rank(dir, k) > 0
      BY SlotsAssumption, HasPlace
    <3>2. CASE k = slot
      BY <2>1, <2>3, <2>4, <3>2
    <3>3. CASE k # slot
      <4>1. rank(dir, k) # i
        <5>1. CASE k < slot
          BY <1>1, <2>1, <2>3, <3>1, <5>1, RankUp
        <5>2. CASE slot < k
          <6>1. rank(dir, slot) < rank(dir, k)
            BY <1>1, <3>1, <5>2, RankUp
          <6> QED BY <2>1, <2>3, <3>1, <6>1
        <5> QED BY <1>1, <3>1, <3>3, <5>1, <5>2
      <4>2. rank(dir, k) \in 1 .. i /\ rank(dir, k) <= r
        BY <1>1, <2>1, <2>3, <3>1, <4>1
      <4>3. mContents[rank(dir, k)] = whole(dir[k])
        BY <2>1, <4>2 DEF Placed
      <4> QED BY <2>4, <4>1, <4>2, <4>3
    <3> QED BY <3>2, <3>3
  <2> QED BY <2>1, <2>3, <2>5, <2>6
<1>3. ReadSoFar'
  BY <1>1, <1>2 DEF ReadSoFar, quiet, folderVars
<1> QED BY <1>1, <1>3, ReadingTiles

\* What a page adds to what the pager has, if the folder has n entries.
LEMMA PageCut ==
  ASSUME NEW c \in Seq(Entries), NEW next \in Int32, NEW size \in Int32,
         Len(c) <= MaxInt, next >= 1, size >= 1,
         NEW s \in starts(next, Len(c)), NEW e \in ends(next, size, Len(c))
  PROVE  /\ SubSeq(c, s + 1, e) \in Seq(Entries)
         /\ next > Len(c) => SubSeq(c, s + 1, e) = <<>>
         /\ next <= Len(c) =>
              /\ Len(SubSeq(c, s + 1, e)) =
                   (IF size + next - 1 > Len(c) THEN Len(c) ELSE size + next - 1)
                     - next + 1
              /\ SubSeq(c, s + 1, e) # <<>>
              /\ \A i \in 1 .. Len(SubSeq(c, s + 1, e)) :
                   SubSeq(c, s + 1, e)[i] = c[next - 1 + i]
<1> DEFINE page == SubSeq(c, s + 1, e)
           n == Len(c)
           stop == IF size + next - 1 > n THEN n ELSE size + next - 1
<1>1. n \in Nat /\ next \in Nat /\ size \in Nat
  BY LenProperties, IntAssumption DEF Int32
<1>2. s = (IF next > n THEN n + 1 ELSE next - 1) /\ e = stop
  BY <1>1, CutIsExact
<1>3. s \in Nat /\ e \in Int /\ e <= n
  BY <1>1, <1>2
<1>4. page \in Seq(Entries)
  BY <1>3, PageOfEntries
<1>5. next > n => page = <<>>
  <2> SUFFICES ASSUME next > n PROVE page = <<>>
    OBVIOUS
  <2>1. s + 1 = n + 2 /\ s + 1 > e /\ s + 1 \in Int
    BY <1>1, <1>2, <1>3
  <2> QED BY <1>3, <2>1, SubSeqProperties
<1>6. next <= n => /\ Len(page) = stop - next + 1 /\ page # <<>>
                   /\ \A i \in 1 .. Len(page) : page[i] = c[next - 1 + i]
  <2> SUFFICES ASSUME next <= n
               PROVE  /\ Len(page) = stop - next + 1 /\ page # <<>>
                      /\ \A i \in 1 .. Len(page) : page[i] = c[next - 1 + i]
    OBVIOUS
  <2>1. s + 1 = next /\ stop >= next /\ stop <= n /\ stop \in Nat
    BY <1>1, <1>2
  <2>2. page = SubSeq(c, next, stop)
    BY <1>2, <2>1
  <2> HIDE DEF page, stop, n
  <2>3. next \in 1 .. n + 1 /\ stop \in next - 1 .. n
    BY <1>1, <2>1
  <2>4. /\ Len(page) = stop - next + 1
        /\ \A i \in 1 .. stop - next + 1 : page[i] = c[next - 1 + i]
    BY <1>1, <2>2, <2>3, SubSeqProperties DEF n
  <2>5. page # <<>>
    <3>1. Len(page) >= 1
      BY <1>1, <2>1, <2>4
    <3> QED BY <3>1
  <2> QED BY <2>4, <2>5
<1> QED BY <1>4, <1>5, <1>6

\* A page that fits what the pager has is put behind it.
LEMMA PageIsNext ==
  ASSUME NEW got \in Seq(Entries), NEW page \in Seq(Entries),
         NEW c \in Seq(Entries), NEW next \in Nat, next >= 1,
         Len(got) = next - 1,
         Placed(dir, got, Len(got)), Placed(dir, c, rank(dir, Slots)),
         Len(got) + Len(page) <= rank(dir, Slots),
         \A i \in 1 .. Len(page) : page[i] = c[next - 1 + i]
  PROVE  Placed(dir, got \o page, Len(got \o page))
<1> DEFINE new == got \o page
<1>1. /\ Len(got) \in Nat /\ Len(page) \in Nat /\ Len(new) = Len(got) + Len(page)
      /\ \A i \in 1 .. Len(got) : new[i] = got[i]
      /\ \A i \in 1 .. Len(page) : new[Len(got) + i] = page[i]
  <2>1. Len(got) \in Nat /\ Len(page) \in Nat /\ Len(new) = Len(got) + Len(page)
    BY LenProperties, ConcatProperties
  <2>2. \A i \in 1 .. Len(got) + Len(page) :
          new[i] = IF i <= Len(got) THEN got[i] ELSE page[i - Len(got)]
    BY ConcatProperties
  <2>3. \A i \in 1 .. Len(got) : new[i] = got[i]
    BY <2>1, <2>2
  <2>4. ASSUME NEW i \in 1 .. Len(page) PROVE new[Len(got) + i] = page[i]
    <3> DEFINE j == Len(got) + i
    <3>1. j \in 1 .. Len(got) + Len(page) /\ ~(j <= Len(got)) /\ j - Len(got) = i
      BY <2>1
    <3> HIDE DEF j
    <3>2. new[j] = page[j - Len(got)]
      BY <2>2, <3>1
    <3>3. new[j] = page[i]
      BY <3>1, <3>2
    <3> QED BY <3>3 DEF j
  <2> QED BY <2>1, <2>3, <2>4
<1> HIDE DEF new
<1> SUFFICES ASSUME NEW k \in 1 .. Slots, dir[k] \in Names,
                    rank(dir, k) <= Len(new)
             PROVE  new[rank(dir, k)] = whole(dir[k])
  BY DEF Placed, new
<1> DEFINE r == rank(dir, k)
<1>2. r \in Nat /\ r > 0 /\ r <= rank(dir, Slots)
  BY HasPlace
<1>3. CASE r <= Len(got)
  <2>1. got[r] = whole(dir[k])
    BY <1>3 DEF Placed
  <2>2. r \in 1 .. Len(got)
    BY <1>1, <1>2, <1>3
  <2> QED BY <1>1, <2>1, <2>2
<1>4. CASE r > Len(got)
  <2>1. c[r] = whole(dir[k])
    BY <1>2 DEF Placed
  <2> DEFINE i == r - Len(got)
  <2>2. i \in 1 .. Len(page) /\ Len(got) + i = r /\ next - 1 + i = r
    BY <1>1, <1>2, <1>4
  <2> HIDE DEF r, i
  <2>3. new[Len(got) + i] = page[i] /\ page[i] = c[next - 1 + i]
    BY <1>1, <2>2
  <2>4. new[r] = c[r]
    BY <2>2, <2>3
  <2> QED BY <2>1, <2>4 DEF r
<1> QED BY <1>1, <1>2, <1>3, <1>4

LEMMA PageTiles == ASSUME IInv, TileInv, sendPage PROVE TileInv'
<1> DEFINE n == Len(mContents)
<1>1. /\ pc = "iterate" /\ pc' = "idle" /\ slot > Slots
      /\ UNCHANGED <<slot, params, mContents, folderVars>>
  BY DEF sendPage
<1>2. PICK s \in starts(params.offset, n), e \in ends(params.offset, params.limit, n) :
        pagerTakes([ok |-> TRUE, files |-> SubSeq(mContents, s + 1, e),
                    totalCount |-> n])
  BY DEF sendPage
<1> DEFINE page == SubSeq(mContents, s + 1, e)
<1>3. /\ mContents \in Seq(Entries) /\ n \in Nat /\ n <= MaxInt
      /\ slot - 1 = Slots /\ Slots \in Nat
  BY <1>1, SlotsAssumption, IntAssumption, LenProperties DEF IInv, TypeOK, ContentsFit
<1>4. /\ pager.got \in Seq(Entries) /\ pager.next \in Int
      /\ pager.size \in Int32 \cap Nat /\ pager.size >= 1 /\ pager.size \in Nat
      /\ params.offset \in Int32 /\ params.limit \in Int32
      /\ pager = [pager EXCEPT !.next = pager.next]
  BY ParamsAssumption DEF IInv, TypeOK
<1>5. Apart' /\ ReadSoFar'
  BY <1>1 DEF TileInv, Apart, ReadSoFar, folderVars
<1>6. CASE ~params.paging
  <2>1. pager' = pager
    BY <1>2, <1>6 DEF pagerTakes
  <2> QED BY <1>1, <1>5, <2>1 DEF TileInv, Asked, GotSoFar, quiet, folderVars
<1>7. CASE params.paging
  <2>1. /\ pager.state = "asking" /\ pager.next >= 1 /\ pager.since <= changes
        /\ params.offset = pager.next /\ params.limit = pager.size
    BY <1>1, <1>7 DEF TileInv, Asked
  <2>2. pager' = IF page = <<>> THEN [pager EXCEPT !.state = "done"]
                 ELSE [pager EXCEPT !.next = @ + pager.size, !.got = @ \o page]
    BY <1>2, <1>7 DEF pagerTakes
  <2>3. /\ page \in Seq(Entries)
        /\ pager.next > n => page = <<>>
        /\ pager.next <= n =>
             /\ Len(page) = (IF pager.size + pager.next - 1 > n THEN n
                             ELSE pager.size + pager.next - 1) - pager.next + 1
             /\ page # <<>>
             /\ \A i \in 1 .. Len(page) : page[i] = mContents[pager.next - 1 + i]
    <3>1. /\ pager.next \in Int32 /\ pager.size \in Int32
          /\ s \in starts(pager.next, Len(mContents))
          /\ e \in ends(pager.next, pager.size, Len(mContents))
          /\ Len(mContents) <= MaxInt /\ mContents \in Seq(Entries)
          /\ pager.next >= 1 /\ pager.size >= 1
      BY <1>2, <1>3, <1>4, <2>1
    <3> QED BY <3>1, PageCut
  <2> HIDE DEF page, n
  <2>4. /\ page = <<>> => /\ pager'.state = "done" /\ pager'.got = pager.got
                          /\ pager'.next = pager.next
        /\ page # <<>> => /\ pager'.state = "asking" /\ pager'.got = pager.got \o page
                          /\ pager'.next = pager.next + pager.size
        /\ pager'.since = pager.since /\ pager'.size = pager.size
    BY <2>1, <2>2 DEF IInv, TypeOK
  <2>5. Asked'
    BY <1>1, <1>4, <2>1, <2>4 DEF TileInv, Asked, folderVars
  <2>6. ASSUME quiet
        PROVE  LET got == pager'.got
                   last == rank(dir, Slots)
               IN  /\ Placed(dir, got, Len(got))
                   /\ Len(got) = (IF pager'.next - 1 < last THEN pager'.next - 1 ELSE last)
                   /\ pager'.state = "done" => Len(got) = last
    <3>1. /\ Placed(dir, mContents, rank(dir, Slots)) /\ n = rank(dir, Slots)
      BY <1>1, <1>3, <1>7, <2>6 DEF TileInv, ReadSoFar, n
    <3>2. /\ Placed(dir, pager.got, Len(pager.got))
          /\ Len(pager.got) = (IF pager.next - 1 < n THEN pager.next - 1 ELSE n)
      BY <2>6, <3>1 DEF TileInv, GotSoFar
    <3>3. CASE pager.next > n
      <4>1. Len(pager.got) = n
        BY <1>3, <1>4, <3>2, <3>3
      <4> QED BY <2>3, <2>4, <3>1, <3>2, <3>3, <4>1
    <3>4. CASE pager.next <= n
      <4>1. page # <<>> /\ Len(pager.got) = pager.next - 1 /\ pager.next \in Nat
        BY <1>3, <1>4, <2>1, <2>3, <3>2, <3>4
      <4>2. /\ Len(page) = (IF pager.size + pager.next - 1 > n THEN n
                             ELSE pager.size + pager.next - 1) - pager.next + 1
            /\ \A i \in 1 .. Len(page) : page[i] = mContents[pager.next - 1 + i]
        BY <2>3, <3>4
      <4>3. Len(pager.got) + Len(page) =
              IF pager.next + pager.size - 1 < n THEN pager.next + pager.size - 1 ELSE n
        <5> DEFINE g == Len(pager.got)
                   p == Len(page)
                   x == pager.next
                   z == pager.size
        <5>1. /\ n \in Nat /\ x \in Nat /\ z \in Nat /\ g = x - 1
              /\ p = (IF z + x - 1 > n THEN n ELSE z + x - 1) - x + 1
          BY <1>3, <1>4, <4>1, <4>2
        <5> HIDE DEF g, p, x, z
        <5>2. g + p = IF x + z - 1 < n THEN x + z - 1 ELSE n
          BY <5>1
        <5> QED BY <5>2 DEF g, p, x, z
      <4>4. Len(pager.got) + Len(page) <= n
        BY <1>3, <1>4, <4>1, <4>3
      <4>5. Placed(dir, pager.got \o page, Len(pager.got \o page))
        BY <1>3, <1>4, <2>1, <2>3, <3>1, <3>2, <4>1, <4>2, <4>4, PageIsNext
      <4>6. Len(pager.got \o page) = Len(pager.got) + Len(page)
        BY <1>4, <2>3, ConcatProperties
      <4>7. /\ pager'.got = pager.got \o page /\ pager'.state = "asking"
            /\ pager'.next = pager.next + pager.size
        BY <2>4, <4>1
      <4>8. Placed(dir, pager'.got, Len(pager'.got))
        BY <4>5, <4>7
      <4>9. Len(pager'.got) = IF pager'.next - 1 < n THEN pager'.next - 1 ELSE n
        <5>1. Len(pager'.got) = IF pager.next + pager.size - 1 < n
                                THEN pager.next + pager.size - 1 ELSE n
          <6>1. Len(pager'.got) = Len(pager.got) + Len(page)
            BY <4>6, <4>7
          <6> QED BY <4>3, <6>1
        <5>2. pager'.next = pager.next + pager.size
          BY <4>7
        <5> QED BY <1>3, <1>4, <5>1, <5>2
      <4> QED BY <3>1, <4>7, <4>8, <4>9
    <3> QED BY <1>3, <1>4, <3>3, <3>4
  <2>7. GotSoFar'
    BY <1>1, <2>4, <2>6 DEF GotSoFar, quiet, folderVars
  <2> QED BY <1>5, <2>5, <2>7 DEF TileInv
<1> QED BY <1>6, <1>7

LEMMA ErrorTiles == ASSUME IInv, TileInv, sendError PROVE TileInv'
<1>1. /\ pc = "refuse" /\ pc' = "idle"
      /\ UNCHANGED <<slot, params, mContents, folderVars>>
  BY DEF sendError
<1>2. pager' = pager \/ pager' = [pager EXCEPT !.state = "failed"]
  BY DEF sendError, pagerTakes, NoAnswer
<1>3. /\ pager'.next = pager.next /\ pager'.got = pager.got
      /\ pager'.since = pager.since /\ pager'.size = pager.size
      /\ pager'.state = pager.state \/ pager'.state = "failed"
  BY <1>2 DEF IInv, TypeOK
<1>4. Apart' /\ ReadSoFar'
  BY <1>1 DEF TileInv, Apart, ReadSoFar, folderVars
<1>5. Asked'
  BY <1>1, <1>3 DEF TileInv, Asked, folderVars
<1>6. GotSoFar'
  BY <1>1, <1>3 DEF TileInv, GotSoFar, quiet, folderVars
<1> QED BY <1>4, <1>5, <1>6 DEF TileInv

LEMMA OthersTile ==
  ASSUME IInv, TileInv,
         \/ \E f \in Files, i \in 1 .. Slots : someoneCreates(f, i)
         \/ \E i \in 1 .. Slots : someoneRemoves(i)
         \/ folderGoes
  PROVE  TileInv'
<1>1. /\ changes' = changes + 1
      /\ UNCHANGED <<pc, slot, params, mContents, answer, pager>>
  BY DEF someoneCreates, someoneRemoves, folderGoes
<1>2. changes \in Nat /\ pager.since \in Nat /\ dir \in [1 .. Slots -> Files \cup {NoName}]
  BY ChangesAssumption DEF IInv, TypeOK
<1>3. Apart'
  <2>1. ASSUME NEW f \in Files, NEW i \in 1 .. Slots, someoneCreates(f, i)
        PROVE  Apart'
    BY <1>2, <2>1, NamesAssumption DEF someoneCreates, TileInv, Apart
  <2>2. ASSUME NEW i \in 1 .. Slots, someoneRemoves(i)
        PROVE  Apart'
    BY <1>2, <2>2 DEF someoneRemoves, TileInv, Apart
  <2>3. CASE folderGoes
    BY <2>3 DEF folderGoes, TileInv, Apart
  <2> QED BY <2>1, <2>2, <2>3
<1> QED BY <1>1, <1>2, <1>3, ChangesTile

LEMMA NextTiles == IInv /\ TileInv /\ [Next]_vars => TileInv'
<1> SUFFICES ASSUME IInv, TileInv, [Next]_vars PROVE TileInv'
  OBVIOUS
<1>1. CASE pagerAsks
  BY <1>1, BeginTiles DEF pagerAsks
<1>2. ASSUME NEW o, NEW l, otherAsks(o, l) PROVE TileInv'
  BY <1>2, BeginTiles DEF otherAsks
<1>3. CASE iteratorThrows
  <2>1. ReadSoFar'
    BY <1>3 DEF iteratorThrows, ReadSoFar
  <2> QED BY <1>3, <2>1, ReadingTiles DEF iteratorThrows
<1>4. CASE UNCHANGED vars
  BY <1>4 DEF vars, TileInv, Apart, Asked, ReadSoFar, GotSoFar, quiet
<1> QED
  BY <1>1, <1>2, <1>3, <1>4, EntryTiles, TypeTiles, PageTiles, ErrorTiles, OthersTile
  DEF Next

\* A client that pages through a folder nobody changes ends with every visible
\* file exactly once, however many there are, whatever size of page it asks
\* for, and whatever other clients ask in between.
THEOREM FolderTiled == Spec => []PagesTile
<1>1. IInv /\ TileInv => PagesTile
  <2> SUFFICES ASSUME IInv, TileInv, pager.state = "done", quiet
               PROVE  /\ \A i, j \in 1 .. Len(pager.got) :
                           i # j => pager.got[i].name # pager.got[j].name
                      /\ {pager.got[i] : i \in 1 .. Len(pager.got)} =
                           [name : {dir[k] : k \in 1 .. Slots} \cap Names,
                            type : {"regular"}]
    BY DEF PagesTile, quiet
  <2>1. /\ Len(pager.got) = rank(dir, Slots) /\ Slots \in Nat
        /\ Placed(dir, pager.got, rank(dir, Slots)) /\ Apart
    BY LastPlace DEF TileInv, GotSoFar
  <2>2. ASSUME NEW i \in 1 .. Len(pager.got)
        PROVE  \E k \in 1 .. Slots : /\ dir[k] \in Names /\ rank(dir, k) = i
                                     /\ pager.got[i] = whole(dir[k])
    <3>1. PICK k \in 1 .. Slots : dir[k] \in Names /\ rank(dir, k) = i
      BY <2>1, EveryPlace
    <3>2. rank(dir, k) <= rank(dir, Slots)
      BY HasPlace
    <3>3. pager.got[i] = whole(dir[k])
      BY <2>1, <3>1, <3>2 DEF Placed
    <3> QED BY <3>1, <3>3
  <2>3. ASSUME NEW i \in 1 .. Len(pager.got), NEW j \in 1 .. Len(pager.got), i # j
        PROVE  pager.got[i].name # pager.got[j].name
    <3>1. PICK k \in 1 .. Slots : /\ dir[k] \in Names /\ rank(dir, k) = i
                                  /\ pager.got[i] = whole(dir[k])
      BY <2>2
    <3>2. PICK m \in 1 .. Slots : /\ dir[m] \in Names /\ rank(dir, m) = j
                                  /\ pager.got[j] = whole(dir[m])
      BY <2>2
    <3>3. k # m /\ dir[k] # NoName
      BY <2>3, <3>1, <3>2, NamesAssumption DEF Files
    <3>4. dir[k] # dir[m]
      BY <2>1, <3>3 DEF Apart
    <3> QED BY <3>1, <3>2, <3>4 DEF whole
  <2>4. ASSUME NEW k \in 1 .. Slots, dir[k] \in Names
        PROVE  whole(dir[k]) \in {pager.got[i] : i \in 1 .. Len(pager.got)}
    <3>1. rank(dir, k) \in 1 .. Len(pager.got)
      BY <2>1, <2>4, HasPlace
    <3>2. pager.got[rank(dir, k)] = whole(dir[k])
      BY <2>1, <2>4, HasPlace DEF Placed
    <3> QED BY <3>1, <3>2
  <2> DEFINE all == [name : {dir[k] : k \in 1 .. Slots} \cap Names, type : {"regular"}]
  <2>5. \A x \in all : \E k \in 1 .. Slots : dir[k] \in Names /\ x = whole(dir[k])
    BY DEF whole
  <2>6. \A k \in 1 .. Slots : dir[k] \in Names => whole(dir[k]) \in all
    BY DEF whole
  <2> HIDE DEF all
  <2>7. {pager.got[i] : i \in 1 .. Len(pager.got)} = all
    <3>1. \A i \in 1 .. Len(pager.got) : pager.got[i] \in all
      BY <2>2, <2>6
    <3>2. \A x \in all : x \in {pager.got[i] : i \in 1 .. Len(pager.got)}
      BY <2>4, <2>5
    <3> QED BY <3>1, <3>2
  <2> QED BY <2>3, <2>7 DEF all
<1> QED
  BY <1>1, InitTiles, NextTiles, InitInv, NextInv, PTL DEF Spec
=============================================================================
