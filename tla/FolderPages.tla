----------------------------- MODULE FolderPages -----------------------------
(***************************************************************************)
(* Listing a folder page by page: listFolderContents of the internal, USB  *)
(* and network (samba) providers over FolderContents.  Every page reads    *)
(* the folder anew, entry by entry, while other programs create and remove *)
(* files in it, and cuts the page out of what was read with 32-bit         *)
(* arithmetic on the client's offset and limit.                            *)
(*                                                                         *)
(* The folder is a row of slots that directory_iterator visits in order: a *)
(* file keeps its slot while it exists, a new one takes any free slot.     *)
(***************************************************************************)
EXTENDS Integers, Sequences

CONSTANTS Names,       \* the names of files, all of them visible
          Hidden,      \* names with a leading dot
          NoName,      \* an empty slot
          Slots,       \* how many slots the folder has
          MaxInt,      \* the largest int
          PageSizes,   \* the limits a client that pages may choose
          Offsets,     \* the offsets and limits of other requests
          Limits,
          MaxChanges   \* how many changes other programs make

Int32 == -(MaxInt + 1) .. MaxInt
Files == Names \cup Hidden

ASSUME IntAssumption == MaxInt \in Nat \ {0}
ASSUME SlotsAssumption == Slots \in Nat /\ Slots < MaxInt
ASSUME ChangesAssumption == MaxChanges \in Nat
ASSUME ParamsAssumption ==
  /\ Offsets \subseteq Int32 /\ Limits \subseteq Int32
  /\ PageSizes \subseteq (Int32 \cap Nat) \ {0}
ASSUME NamesAssumption ==
  Names \cap Hidden = {} /\ NoName \notin Files

VARIABLES
  dir,        \* [1..Slots -> name]: the folder
  there,      \* does its path still lead to it?
  changes,    \* the changes made by other programs
  pc,         \* the provider's thread
  slot,       \* where directory_iterator stands
  params,     \* offset and limit of the request it is at
  mContents,  \* mContents of FolderContents: names and types
  answer,     \* the last reply
  pager       \* a client that pages: its next offset, what it got so far,
              \* how many changes there were when it began, and its state

vars == <<dir, there, changes, pc, slot, params, mContents, answer, pager>>
folderVars == <<dir, there, changes>>

NoAnswer == [ok |-> FALSE, files |-> <<>>, totalCount |-> 0]
Entries == [name : Files, type : {"regular", "unknown"}]

(***************************************************************************)
(* The page.  A signed sum that overflows is undefined: the build may wrap *)
(* it or work it out in a wider register.                                  *)
(***************************************************************************)
wrap(x) == IF x > MaxInt THEN x - 2 * (MaxInt + 1)
           ELSE IF x < -(MaxInt + 1) THEN x + 2 * (MaxInt + 1)
           ELSE x

outcomes(x) == {x, wrap(x)}

\* Two assignments: an offset below 1 gives a start past the end.
starts(offset, n) ==
  IF offset > n THEN {n + 1}
  ELSE {IF s < 0 THEN n + 1 ELSE s : s \in outcomes(offset - 1)}

\* MUTANT: the end is one entry too far.
ends_OffByOne(offset, limit, n) ==
  {IF e < 0 \/ e > n THEN n ELSE e : e \in outcomes(limit + offset)}

\* MUTANT: the signed comparison an (int) cast of size() would make, without
\* the test for a negative end.
ends_Signed(offset, limit, n) ==
  {IF e > n THEN n ELSE e : e \in outcomes(limit + offset - 1)}

\* MUTANT: no test against the size.
ends_NotClamped(offset, limit, n) ==
  {IF e < 0 THEN n ELSE e : e \in outcomes(limit + offset - 1)}

\* The comparison with size() is unsigned: a negative sum counts as large.
ends(offset, limit, n) ==
  {IF e < 0 \/ e > n THEN n ELSE e : e \in outcomes(limit + offset - 1)}

(***************************************************************************)
(* The provider's thread.                                                  *)
(***************************************************************************)
Init ==
  /\ dir \in [1 .. Slots -> Files \cup {NoName}]
  /\ \A i, j \in 1 .. Slots : i # j /\ dir[i] # NoName => dir[i] # dir[j]
  /\ there = TRUE
  /\ changes = 0
  /\ pc = "idle"
  /\ slot = 1
  /\ params = [offset |-> 1, limit |-> 0, paging |-> FALSE]
  /\ mContents = <<>>
  /\ answer = NoAnswer
  /\ \E size \in PageSizes :
       pager = [next |-> 1, size |-> size, got |-> <<>>, since |-> 0,
                state |-> "asking"]

\* The checks of the drive and the path, and validateInternalPath of
\* FolderContents::init: a folder that is not there is refused.
listFolderContents(offset, limit, paging) ==
  /\ pc = "idle"
  /\ params' = [offset |-> offset, limit |-> limit, paging |-> paging]
  /\ mContents' = <<>>
  /\ slot' = 1
  /\ pc' = IF there THEN "iterate" ELSE "refuse"
  /\ UNCHANGED <<answer, folderVars>>

\* Dotted names are passed over; the entry read is looked at in a step of
\* its own.
nextEntry ==
  /\ pc = "iterate"
  /\ slot <= Slots
  /\ \/ /\ dir[slot] \in Names
        /\ mContents' = Append(mContents,
                               [name |-> dir[slot], type |-> "unknown"])
        /\ pc' = "getFileType"
        /\ UNCHANGED slot
     \/ /\ dir[slot] \notin Names
        /\ slot' = slot + 1
        /\ UNCHANGED <<pc, mContents>>
  /\ UNCHANGED <<params, answer, pager, folderVars>>

\* MUTANT: the iterator is moved on twice.
getFileType_SkipsOne ==
  LET i == Len(mContents)
      f == mContents[i].name
  IN  /\ pc = "getFileType"
      /\ mContents' =
           IF there /\ \E k \in 1 .. Slots : dir[k] = f
           THEN [mContents EXCEPT ![i].type = "regular"] ELSE mContents
      /\ slot' = slot + 2
      /\ pc' = "iterate"
      /\ UNCHANGED <<params, answer, pager, folderVars>>

\* getFileType, getFileSize and getModTime: an entry that is gone by now
\* keeps the type "unknown".
getFileType ==
  LET i == Len(mContents)
      f == mContents[i].name
  IN  /\ pc = "getFileType"
      /\ mContents' =
           IF there /\ \E k \in 1 .. Slots : dir[k] = f
           THEN [mContents EXCEPT ![i].type = "regular"] ELSE mContents
      /\ slot' = slot + 1
      /\ pc' = "iterate"
      /\ UNCHANGED <<params, answer, pager, folderVars>>

\* A medium that went away makes the iterator throw: INVALID_PATH.
iteratorThrows ==
  /\ pc = "iterate"
  /\ ~there
  /\ pc' = "refuse"
  /\ UNCHANGED <<slot, params, mContents, answer, pager, folderVars>>

\* What the paging client does with a reply: an empty page ends it.
pagerTakes(a) ==
  pager' = CASE ~params.paging -> pager
             [] params.paging /\ ~a.ok -> [pager EXCEPT !.state = "failed"]
             [] params.paging /\ a.ok /\ a.files = <<>> ->
                  [pager EXCEPT !.state = "done"]
             [] OTHER -> [pager EXCEPT !.next = @ + pager.size,
                                       !.got = @ \o a.files]

\* Entries start+1 .. end of mContents; totalCount counts all of them.
sendPage ==
  /\ pc = "iterate"
  /\ slot > Slots
  /\ \E s \in starts(params.offset, Len(mContents)),
        e \in ends(params.offset, params.limit, Len(mContents)) :
       LET a == [ok |-> TRUE, files |-> SubSeq(mContents, s + 1, e),
                 totalCount |-> Len(mContents)]
       IN  answer' = a /\ pagerTakes(a)
  /\ pc' = "idle"
  /\ UNCHANGED <<slot, params, mContents, folderVars>>

sendError ==
  /\ pc = "refuse"
  /\ answer' = NoAnswer
  /\ pagerTakes(NoAnswer)
  /\ pc' = "idle"
  /\ UNCHANGED <<slot, params, mContents, folderVars>>

(***************************************************************************)
(* Clients and other programs.                                             *)
(***************************************************************************)
pagerAsks ==
  /\ pager.state = "asking"
  /\ pager.next \in Int32
  /\ listFolderContents(pager.next, pager.size, TRUE)
  /\ pager' = IF pager.next = 1 THEN [pager EXCEPT !.since = changes] ELSE pager

otherAsks(offset, limit) ==
  /\ listFolderContents(offset, limit, FALSE)
  /\ UNCHANGED pager

someoneCreates(f, i) ==
  /\ changes < MaxChanges /\ there
  /\ dir[i] = NoName
  /\ \A k \in 1 .. Slots : dir[k] # f
  /\ dir' = [dir EXCEPT ![i] = f]
  /\ changes' = changes + 1
  /\ UNCHANGED <<there, pc, slot, params, mContents, answer, pager>>

someoneRemoves(i) ==
  /\ changes < MaxChanges /\ there
  /\ dir[i] # NoName
  /\ dir' = [dir EXCEPT ![i] = NoName]
  /\ changes' = changes + 1
  /\ UNCHANGED <<there, pc, slot, params, mContents, answer, pager>>

\* The folder is moved elsewhere or its medium is taken out.
folderGoes ==
  /\ changes < MaxChanges /\ there
  /\ there' = FALSE
  /\ changes' = changes + 1
  /\ UNCHANGED <<dir, pc, slot, params, mContents, answer, pager>>

Next ==
  \/ pagerAsks
  \/ \E o \in Offsets, l \in Limits : otherAsks(o, l)
  \/ nextEntry \/ getFileType \/ iteratorThrows \/ sendPage \/ sendError
  \/ \E f \in Files, i \in 1 .. Slots : someoneCreates(f, i)
  \/ \E i \in 1 .. Slots : someoneRemoves(i)
  \/ folderGoes

Spec == Init /\ [][Next]_vars

(***************************************************************************)
(* Properties.                                                             *)
(***************************************************************************)
\* The state of the provider's thread, the folder and the clients is well
\* formed.
TypeOK ==
  /\ dir \in [1 .. Slots -> Files \cup {NoName}]
  /\ there \in BOOLEAN
  /\ changes \in 0 .. MaxChanges
  /\ pc \in {"idle", "iterate", "getFileType", "refuse"}
  /\ slot \in 1 .. Slots + 1
  /\ params \in [offset : Int32, limit : Int32, paging : BOOLEAN]
  /\ mContents \in Seq(Entries)
  /\ answer \in [ok : BOOLEAN, files : Seq(Entries), totalCount : Nat]
  /\ pager \in [next : Int, size : PageSizes, got : Seq(Entries),
                since : 0 .. MaxChanges, state : {"asking", "done", "failed"}]

\* The loop over contVec reads no element that is not there, whatever offset
\* and limit the client sent and however the sums overflow.
PageInBounds ==
  pc = "iterate" =>
    \A s \in starts(params.offset, Len(mContents)),
       e \in ends(params.offset, params.limit, Len(mContents)) :
      s >= 0 /\ e <= Len(mContents)

\* A reply to a sensible request holds the entries at the places the client
\* asked for, as exact integers say it, for limits up to the largest int.
PageAsAsked ==
  (pc = "iterate" /\ params.offset >= 1 /\ params.limit >= 0) =>
    \A s \in starts(params.offset, Len(mContents)),
       e \in ends(params.offset, params.limit, Len(mContents)) :
      {i \in 1 .. Len(mContents) : s < i /\ i <= e} =
        {i \in 1 .. Len(mContents) :
           params.offset <= i /\ i < params.offset + params.limit}

\* A client that pages through a folder nobody changes meanwhile ends with
\* every visible file exactly once, each with its type, although every page
\* read the folder anew.
PagesTile ==
  (pager.state = "done" /\ pager.since = changes) =>
    /\ \A i, j \in 1 .. Len(pager.got) :
         i # j => pager.got[i].name # pager.got[j].name
    /\ {pager.got[i] : i \in 1 .. Len(pager.got)} =
         [name : {dir[k] : k \in 1 .. Slots} \cap Names, type : {"regular"}]
=============================================================================
