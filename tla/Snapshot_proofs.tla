--------------------------- MODULE Snapshot_proofs ---------------------------
(***************************************************************************)
(* Proofs about Snapshot, for every project, exclude list, workspace limit *)
(* and number of edits.                                                    *)
(***************************************************************************)
EXTENDS Snapshot, SequenceTheorems, TLAPS

(* A listing is a frame of the walk.                                       *)
LEMMA ListingIsFrame == ASSUME NEW d \in Entries \union {Root} PROVE Listing(d) \in Frames
BY DEF Listing, Frames

(* The innermost open directory is a frame.                                *)
LEMMA OpenIsFrame ==
  ASSUME stack \in Seq(Frames), stack # <<>>
  PROVE  Len(stack) \in 1 .. Len(stack) /\ Open \in Frames
<1>1. Len(stack) \in Nat \ {0}
  BY EmptySeq
<1>2. Len(stack) \in 1 .. Len(stack)
  BY <1>1
<1> QED
  BY <1>2, ElementOfSeq DEF Open

(* Listing, passing names over, entering and leaving directories keep the  *)
(* stack a sequence of frames.                                             *)
LEMMA WalkStack ==
  ASSUME stack \in Seq(Frames), cur \in Entries \union {Root}, Begin \/ Walk
  PROVE  stack' \in Seq(Frames)
<1>1. CASE Begin
  <2>1. Listing(Root) \in Frames
    BY ListingIsFrame
  <2>2. Append(<<>>, Listing(Root)) \in Seq(Frames)
    BY <2>1, EmptySeq, AppendProperties
  <2>3. <<Listing(Root)>> \in Seq(Frames)
    BY <2>1
  <2> QED
    BY <1>1, <2>3 DEF Begin
<1>2. CASE TakeName
  <2>1. PICK e : stack' = [stack EXCEPT ![Len(stack)].names = @ \ {e}]
    BY <1>2 DEF TakeName
  <2>2. Len(stack) \in 1 .. Len(stack) /\ Open \in Frames
    BY <1>2, OpenIsFrame DEF TakeName
  <2> DEFINE frame == [Open EXCEPT !.names = Open.names \ {e}]
  <2>3. frame \in Frames
    BY <2>2 DEF Frames
  <2>4. stack' = [stack EXCEPT ![Len(stack)] = frame]
    BY <2>1 DEF Open
  <2> HIDE DEF frame
  <2> QED
    BY <2>2, <2>3, <2>4, ExceptSeq
<1>3. CASE LeaveDir
  <2>1. \A i \in 1 .. Len(stack) - 1 : stack[i] \in Frames
    BY ElementOfSeq
  <2>2. Len(stack) - 1 \in Int
    OBVIOUS
  <2>3. SubSeq(stack, 1, Len(stack) - 1) \in Seq(Frames)
    BY <2>1, <2>2, SubSeqProperties
  <2> QED
    BY <1>3, <2>3 DEF LeaveDir
<1>4. CASE EnterDir
  <2>1. Append(stack, Listing(cur)) \in Seq(Frames)
    BY ListingIsFrame, AppendProperties
  <2> QED
    BY <1>4, <2>1 DEF EnterDir
<1> QED
  BY <1>1, <1>2, <1>3, <1>4 DEF Walk

(* The initial states satisfy the invariant.                               *)
LEMMA InitBudget == Init => BudgetInv
<1> SUFFICES ASSUME Init PROVE BudgetInv
  OBVIOUS
<1> USE SnapshotAssumption DEF Init, Endless
<1>1. TypeOK
  <2>1. size \in [Entries -> 0 .. Endless]
    OBVIOUS
  <2>2. kind \in [Entries -> Kinds] /\ info \in [kind : Kinds, size : 0 .. Endless]
    BY DEF Kinds
  <2>3. dst \in [Entries -> {"none", "file", "partial", "dir", "link"}]
        /\ dstSize \in [Entries -> 0 .. Endless]
    OBVIOUS
  <2> QED
    BY <2>1, <2>2, <2>3 DEF TypeOK
<1>2. OnlyProjectFiles
  BY DEF OnlyProjectFiles
<1> QED
  BY <1>1, <1>2 DEF BudgetInv, AtEntry

(* A name taken for copying is not an excluded one.                        *)
LEMMA TakenName ==
  ASSUME stack \in Seq(Frames), TakeName
  PROVE  \/ pc' = pc /\ cur' = cur
         \/ pc' = "stat" /\ cur' \in Entries \ Excluded
<1>1. Open \in Frames
  BY OpenIsFrame DEF TakeName
<1>2. Open.names \subseteq Entries
  BY <1>1 DEF Frames
<1>3. PICK e \in Open.names :
        \/ e \in Excluded /\ UNCHANGED <<pc, cur>>
        \/ e \notin Excluded /\ pc' = "stat" /\ cur' = e
  BY DEF TakeName
<1> QED
  BY <1>2, <1>3

(* Moving through the tree charges and writes nothing.                     *)
LEMMA WalkBudget == ASSUME BudgetInv, Begin \/ Walk \/ OsError PROVE BudgetInv'
<1> USE DEF BudgetInv, TypeOK, AtEntry, OnlyProjectFiles, project, copy
<1>1. stack' \in Seq(Frames)
  BY WalkStack DEF OsError
<1>2. CASE Begin
  BY <1>1, <1>2 DEF Begin
<1>3. CASE TakeName
  <2>1. \/ pc' = pc /\ cur' = cur
        \/ pc' = "stat" /\ cur' \in Entries \ Excluded
    BY <1>3, TakenName
  <2> QED
    BY <1>1, <1>3, <2>1 DEF TakeName
<1>4. CASE LeaveDir
  BY <1>1, <1>4 DEF LeaveDir
<1>5. CASE EnterDir
  BY <1>1, <1>5 DEF EnterDir
<1>6. CASE OsError
  BY <1>1, <1>6 DEF OsError
<1> QED
  BY <1>2, <1>3, <1>4, <1>5, <1>6 DEF Walk

(* Copying an entry writes no more than stat charged for it.               *)
LEMMA CopyBudget == ASSUME BudgetInv, CopyEntry PROVE BudgetInv'
<1> USE SnapshotAssumption
    DEF BudgetInv, TypeOK, AtEntry, OnlyProjectFiles, project, copy, Endless
<1>1. CASE Stat
  <2>1. /\ cur \in Entries \ Excluded /\ kind[cur] \in Kinds /\ size[cur] \in 0 .. Endless
        /\ info' \in [kind : Kinds, size : 0 .. Endless] /\ info'.size = size[cur]
        /\ total' \in Nat /\ total <= total'
        /\ kind[cur] = "file" => total' = total + size[cur]
        /\ kind[cur] # "file" => total' = total
    BY <1>1 DEF Stat
  <2>2. /\ pc' \in {"failed", "next", "enter", "link", "open"}
        /\ pc' = "open" => kind[cur] = "file" /\ total' <= MaxWorkspace
        /\ pc' \notin {"failed", "open"} => total' = total
    BY <1>1, <2>1 DEF Stat, Kinds
  <2>3. dst' \in [Entries -> {"none", "file", "partial", "dir", "link"}]
        /\ \A e \in Excluded : dst'[e] = dst[e]
    BY <1>1, <2>1 DEF Stat
  <2>4. TypeOK'
    BY <1>1, <2>1, <2>2, <2>3 DEF Stat
  <2>5. /\ pc' # "failed" => written' <= total' /\ total' <= MaxWorkspace
        /\ pc' = "open" => written' + info'.size <= total'
    <3>1. written' = written /\ written \in Nat /\ total \in Nat
          /\ written <= total /\ total <= MaxWorkspace
      BY <1>1 DEF Stat
    <3> QED
      BY <2>1, <2>2, <3>1
  <2>6. pc' # "read" /\ cur' \in Entries \ Excluded /\ written' <= MaxWorkspace
    BY <1>1, <2>1, <2>2 DEF Stat
  <2>7. OnlyProjectFiles'
    BY <1>1, <2>3 DEF Stat
  <2> QED
    BY <2>4, <2>5, <2>6, <2>7
<1>2. CASE CopyLink
  <2>1. dst' \in [Entries -> {"none", "file", "partial", "dir", "link"}]
        /\ \A e \in Excluded : dst'[e] = dst[e]
    BY <1>2 DEF CopyLink
  <2> QED
    BY <1>2, <2>1 DEF CopyLink
<1>3. CASE OpenFile
  <2>1. dst' = dst \/ dst' = [dst EXCEPT ![cur] = "partial"]
    BY <1>3 DEF OpenFile
  <2>2. cur \in Entries /\ cur \notin Excluded
    BY <1>3 DEF OpenFile
  <2>3. /\ dst' \in [Entries -> {"none", "file", "partial", "dir", "link"}]
        /\ \A e \in Excluded : dst'[e] = dst[e]
    <3>1. CASE dst' = dst
      BY <3>1
    <3>2. CASE dst' = [dst EXCEPT ![cur] = "partial"]
      BY <2>2, <3>2
    <3> QED
      BY <2>1, <3>1, <3>2
  <2>4. /\ dstSize' \in [Entries -> 0 .. Endless]
        /\ \A e \in Excluded : dstSize'[e] = dstSize[e]
    <3>1. dstSize' = dstSize \/ dstSize' = [dstSize EXCEPT ![cur] = 0]
      BY <1>3 DEF OpenFile
    <3>2. 0 \in 0 .. Endless
      OBVIOUS
    <3> QED
      BY <2>2, <3>1, <3>2
  <2>5. source' \in [size : 0 .. Endless, from : {"project", "outside"}]
        /\ source'.from = "project" /\ copied' \in 0 .. Endless
        /\ (pc' = "read" => copied' = 0) /\ pc' \in {"read", "failed"}
    BY <1>3 DEF OpenFile
  <2> QED
    BY <1>3, <2>3, <2>4, <2>5 DEF OpenFile
<1>4. CASE ReadChunk
  <2>1. CASE copied < info.size
    <3>1. /\ copied' = copied + 1 /\ written' = written + 1 /\ pc' = "read"
          /\ dstSize' = [dstSize EXCEPT ![cur] = copied']
      BY <1>4, <2>1 DEF ReadChunk
    <3>2. copied' \in 0 .. Endless /\ dstSize' \in [Entries -> 0 .. Endless]
          /\ \A e \in Excluded : dstSize'[e] = dstSize[e]
      BY <1>4, <2>1, <3>1 DEF ReadChunk
    <3> QED
      BY <1>4, <3>1, <3>2 DEF ReadChunk
  <2>2. CASE ~(copied < info.size)
    BY <1>4, <2>2 DEF ReadChunk
  <2> QED
    BY <2>1, <2>2
<1>5. CASE ReadEof
  <2>1. dst' \in [Entries -> {"none", "file", "partial", "dir", "link"}]
        /\ \A e \in Excluded : dst'[e] = dst[e]
    BY <1>5 DEF ReadEof
  <2> QED
    BY <1>5, <2>1 DEF ReadEof
<1> QED
  BY <1>1, <1>2, <1>3, <1>4, <1>5 DEF CopyEntry

(* The editor touches neither the account nor the destination.             *)
LEMMA EditorBudget == ASSUME BudgetInv, Editor PROVE BudgetInv'
<1> USE SnapshotAssumption DEF BudgetInv, TypeOK, AtEntry, OnlyProjectFiles, copy, Endless
<1>1. CASE EditOpenFile
  <2>1. PICK s \in 0 .. Endless :
          /\ source' = [source EXCEPT !.size = s]
          /\ size' = [size EXCEPT ![cur] = IF kind[cur] = "file" THEN s ELSE 0]
    BY <1>1 DEF EditOpenFile
  <2>2. source' \in [size : 0 .. Endless, from : {"project", "outside"}]
        /\ source'.from = "project"
    BY <2>1
  <2>3. (IF kind[cur] = "file" THEN s ELSE 0) \in 0 .. Endless
    OBVIOUS
  <2>4. size' \in [Entries -> 0 .. Endless]
    BY <2>1, <2>3
  <2>5. edits' \in 0 .. MaxEdits /\ touched' \subseteq Entries
    BY <1>1 DEF EditOpenFile
  <2> QED
    BY <1>1, <2>2, <2>4, <2>5 DEF EditOpenFile
<1>2. ASSUME NEW e \in Entries, Edit(e) PROVE BudgetInv'
  <2>1. PICK k \in Kinds : \E s \in IF k = "file" THEN 0 .. MaxSize ELSE {0} :
          kind' = [kind EXCEPT ![e] = k] /\ size' = [size EXCEPT ![e] = s]
    BY <1>2 DEF Edit
  <2>2. PICK s \in 0 .. MaxSize :
          kind' = [kind EXCEPT ![e] = k] /\ size' = [size EXCEPT ![e] = s]
    <3>1. (IF k = "file" THEN 0 .. MaxSize ELSE {0}) \subseteq 0 .. MaxSize
      OBVIOUS
    <3> QED
      BY <2>1, <3>1, Zenon
  <2>4. kind' \in [Entries -> Kinds] /\ size' \in [Entries -> 0 .. Endless]
    BY <2>2
  <2>3. edits' \in 0 .. MaxEdits /\ touched' \subseteq Entries
    BY <1>2 DEF Edit
  <2> QED
    BY <1>2, <2>3, <2>4 DEF Edit
<1> QED
  BY <1>1, <1>2 DEF Editor

(* The account is kept in every reachable state.                           *)
THEOREM BudgetInvariant == Spec => []BudgetInv
<1>1. BudgetInv /\ UNCHANGED vars => BudgetInv'
  BY DEF BudgetInv, TypeOK, AtEntry, OnlyProjectFiles, vars
<1>2. BudgetInv /\ [Next]_vars => BudgetInv'
  BY <1>1, WalkBudget, CopyBudget, EditorBudget DEF Next, Copier
<1> QED
  BY InitBudget, <1>2, PTL DEF Spec

(* No snapshot writes more than MAX_WORKSPACE.                             *)
THEOREM BudgetSafe == Spec => []WithinBudget
<1>1. BudgetInv => WithinBudget
  BY DEF BudgetInv, WithinBudget
<1> QED
  BY BudgetInvariant, <1>1, PTL

(* Only regular files of the project, under no excluded name, are copied.  *)
THEOREM ContentSafe == Spec => []OnlyProjectFiles
<1>1. BudgetInv => OnlyProjectFiles
  BY DEF BudgetInv
<1> QED
  BY BudgetInvariant, <1>1, PTL
-----------------------------------------------------------------------------
(* The copy is complete. *)

(* The directories above a path lead to the project directory.             *)
LEMMA PathIsClosed ==
  ASSUME NEW e \in Entries
  PROVE  /\ e \in PathTo[e] /\ PathTo[e] \subseteq Entries
         /\ \A d \in PathTo[e] : Parent[d] \in PathTo[e] \union {Root}
<1>1. \A d \in Entries : Parent[d] \in Entries \union {Root}
  BY SnapshotAssumption
<1> QED
  BY <1>1 DEF PathTo

(* A step of the walk leaves every name listed but the one it takes.       *)
LEMMA WalkLists ==
  ASSUME stack \in Seq(Frames), NEW e \in Entries, Listed(e), Walk
  PROVE  Listed(e)' \/ (pc' = "stat" /\ cur' = e) \/ e \in Excluded
<1> USE DEF Listed
<1>1. PICK i \in 1 .. Len(stack) : e \in stack[i].names
  OBVIOUS
<1>2. CASE TakeName
  <2>1. Len(stack) \in 1 .. Len(stack) /\ Open \in Frames
    BY <1>2, OpenIsFrame DEF TakeName
  <2>2. PICK n \in Open.names :
          /\ stack' = [stack EXCEPT ![Len(stack)].names = @ \ {n}]
          /\ \/ n \in Excluded
             \/ pc' = "stat" /\ cur' = n
    BY <1>2 DEF TakeName
  <2>3. Len(stack') = Len(stack)
    BY <2>2
  <2>4. CASE e = n
    BY <2>2, <2>4
  <2>5. CASE e # n
    <3>1. e \in stack'[i].names
      BY <1>1, <2>1, <2>2, <2>5 DEF Open, Frames
    <3> QED
      BY <2>3, <3>1
  <2> QED
    BY <2>4, <2>5
<1>3. CASE LeaveDir
  <2>1. i # Len(stack)
    BY <1>1, <1>3 DEF LeaveDir, Open
  <2>2. /\ stack' = SubSeq(stack, 1, Len(stack) - 1)
        /\ i \in 1 .. Len(stack) - 1
    BY <1>1, <1>3, <2>1 DEF LeaveDir
  <2>3. Len(stack') = Len(stack) - 1 /\ stack'[i] = stack[i]
    BY <2>2
  <2> QED
    BY <1>1, <2>2, <2>3
<1>4. CASE EnterDir
  <2>1. stack' = stack \/ stack' = Append(stack, Listing(cur))
    BY <1>4 DEF EnterDir
  <2> QED
    BY <1>1, <2>1
<1> QED
  BY <1>2, <1>3, <1>4 DEF Walk

(* The initial states satisfy the invariant.                               *)
LEMMA InitCopy == Init => CopyInv
<1> SUFFICES ASSUME Init PROVE CopyInv
  OBVIOUS
<1>1. BudgetInv
  BY InitBudget
<1>2. EntryInv /\ NoneMissed
  BY DEF Init, EntryInv, NoneMissed, Entered
<1>3. TreeInv
  BY DEF Init, TreeInv, WellFormed
<1> QED
  BY <1>1, <1>2, <1>3 DEF Init, CopyInv

(* Moving through the tree misses no entry.                                *)
LEMMA WalkCopy == ASSUME CopyInv, Begin \/ Walk \/ OsError PROVE CopyInv'
<1>1. BudgetInv' /\ TypeOK /\ UNCHANGED <<project, source, copied, copy>>
  BY WalkBudget DEF CopyInv, BudgetInv, Begin, Walk, TakeName, LeaveDir, EnterDir, OsError
<1>2. EntryInv'
  <2>1. pc' \in {"next", "stat", "done", "failed"}
    BY <1>1 DEF Begin, Walk, TakeName, LeaveDir, EnterDir, OsError, TypeOK
  <2> QED
    BY <2>1 DEF EntryInv
<1>3. TreeInv'
  BY <1>1 DEF CopyInv, TreeInv, InDir, project
<1>4. pc' # "start"
  BY DEF Begin, Walk, TakeName, LeaveDir, EnterDir, OsError
<1>5. (pc = "done" => stack = <<>>)'
  BY <1>1 DEF Begin, Walk, TakeName, LeaveDir, EnterDir, OsError, TypeOK
<1>6. NoneMissed'
  <2> SUFFICES ASSUME NEW e \in Entries, pc' # "failed", e \notin touched, e \notin Excluded,
                      kind[e] \in {"file", "dir"}, Entered(Parent[e])'
               PROVE  Listed(e)' \/ (AtEntry /\ cur = e)' \/ InDestination(e)'
    BY <1>1 DEF NoneMissed, project
  <2>1. InDestination(e)' <=> InDestination(e)
    BY <1>1 DEF InDestination, project, copy
  <2>2. Parent[e] \in Entries \union {Root}
    BY SnapshotAssumption
  <2>3. CASE Begin
    <3>1. Parent[e] = Root
      BY <1>1, <2>2, <2>3 DEF CopyInv, Entered, Begin, copy
    <3>2. stack' = <<Listing(Root)>> /\ e \in Listing(Root).names
      BY <2>3, <3>1 DEF Begin, Listing
    <3>3. Len(stack') = 1 /\ e \in stack'[1].names
      BY <3>2
    <3> QED
      BY <3>3 DEF Listed
  <2>4. CASE Walk
    <3>1. Walk /\ pc \in {"next", "enter"}
      BY <2>4 DEF Walk, TakeName, LeaveDir, EnterDir
    <3>2. CASE Entered(Parent[e])
      <4>1. Listed(e) \/ (pc = "enter" /\ cur = e) \/ InDestination(e)
        BY <3>1, <3>2 DEF CopyInv, NoneMissed, AtEntry
      <4>2. CASE Listed(e)
        <5>1. Listed(e)' \/ (pc' = "stat" /\ cur' = e)
          BY <3>1, <4>2, <1>1, WalkLists DEF TypeOK
        <5> QED
          BY <5>1 DEF AtEntry
      <4>3. CASE pc = "enter" /\ cur = e
        <5>1. kind[e] = "dir" /\ dst[e] = "dir"
          BY <3>1, <4>3 DEF Walk, TakeName, LeaveDir, EnterDir, CopyInv, EntryInv
        <5> QED
          BY <2>1, <5>1 DEF InDestination
      <4> QED
        BY <2>1, <4>1, <4>2, <4>3
    <3>3. CASE ~Entered(Parent[e])
      <4>1. pc = "enter" /\ cur = Parent[e] /\ EnterDir
        BY <1>1, <3>1, <3>3 DEF Entered, copy, Walk, TakeName, LeaveDir
      <4>2. stack' = Append(stack, Listing(cur)) /\ e \in Listing(cur).names
        BY <4>1 DEF EnterDir, Listing
      <4>3. Len(stack') = Len(stack) + 1 /\ e \in stack'[Len(stack')].names /\ Len(stack) \in Nat
        BY <1>1, <4>2 DEF TypeOK
      <4> QED
        BY <4>3 DEF Listed
    <3> QED
      BY <3>2, <3>3
  <2>5. ~OsError
    BY DEF OsError
  <2> QED
    BY <2>3, <2>4, <2>5
<1> QED
  BY <1>1, <1>2, <1>3, <1>4, <1>5, <1>6 DEF CopyInv

(* An entry that nobody touched is missed only if it is the one at hand.   *)
LEMMA OnlyTheOneAtHand ==
  ASSUME CopyInv, CopyEntry, NEW e \in Entries, pc' # "failed",
         e \notin touched, e \notin Excluded, kind[e] \in {"file", "dir"},
         Entered(Parent[e])', e # cur
  PROVE  Listed(e)' \/ InDestination(e)'
<1>1. /\ pc \in {"stat", "link", "open", "read"} /\ cur' = cur /\ stack' = stack
      /\ kind' = kind /\ size' = size
  BY DEF CopyEntry, Stat, CopyLink, OpenFile, ReadChunk, ReadEof, project
<1>2. cur \in Entries /\ TypeOK
  BY <1>1 DEF CopyInv, BudgetInv, AtEntry
<1>3. \A d \in Entries : d # cur => dst'[d] = dst[d] /\ dstSize'[d] = dstSize[d]
  BY <1>2 DEF CopyEntry, Stat, CopyLink, OpenFile, ReadChunk, ReadEof, copy, TypeOK
<1>4. dst[cur] # "dir" /\ dst'[cur] = "dir" => pc' = "enter"
  BY <1>2 DEF CopyEntry, Stat, CopyLink, OpenFile, ReadChunk, ReadEof, copy, TypeOK
<1>5. Parent[e] \in Entries \union {Root}
  BY SnapshotAssumption
<1>6. Entered(Parent[e])
  BY <1>1, <1>2, <1>3, <1>4, <1>5 DEF Entered
<1>7. Listed(e) \/ InDestination(e)
  BY <1>1, <1>6 DEF CopyInv, NoneMissed
<1>8. Listed(e)' <=> Listed(e)
  BY <1>1 DEF Listed
<1>9. InDestination(e)' <=> InDestination(e)
  BY <1>1, <1>3 DEF InDestination
<1> QED
  BY <1>7, <1>8, <1>9

(* Copying an entry misses none.                                           *)
LEMMA EntryCopy == ASSUME CopyInv, CopyEntry PROVE CopyInv'
<1>1. /\ pc \in {"stat", "link", "open", "read"} /\ cur' = cur /\ stack' = stack
      /\ kind' = kind /\ size' = size /\ touched' = touched
  BY DEF CopyEntry, Stat, CopyLink, OpenFile, ReadChunk, ReadEof, project
<1>2. cur \in Entries /\ cur \notin Excluded /\ TypeOK /\ kind[cur] \in Kinds
  BY <1>1 DEF CopyInv, BudgetInv, AtEntry, TypeOK
<1>3. BudgetInv'
  BY CopyBudget DEF CopyInv
<1>4. TreeInv'
  BY <1>1 DEF CopyInv, TreeInv, InDir
<1>5. pc' \notin {"start", "done"}
  BY <1>2 DEF CopyEntry, Stat, CopyLink, OpenFile, ReadChunk, ReadEof, Kinds
<1>6. EntryInv' /\ (cur \notin touched /\ kind[cur] \in {"file", "dir"} =>
                      pc' = "failed" \/ AtEntry' \/ InDestination(cur)')
  <2>1. CASE Stat
    BY <1>1, <1>2, <2>1 DEF Stat, EntryInv, AtEntry, Kinds, TypeOK
  <2>2. CASE CopyLink
    BY <1>1, <1>2, <2>2 DEF CopyLink, CopyInv, EntryInv
  <2>3. CASE OpenFile
    BY <1>1, <1>2, <2>3 DEF OpenFile, EntryInv, AtEntry, TypeOK
  <2>4. CASE ReadChunk
    BY <1>1, <1>2, <2>4 DEF ReadChunk, CopyInv, EntryInv, AtEntry, TypeOK
  <2>5. CASE ReadEof
    BY <1>1, <1>2, <2>5 DEF ReadEof, CopyInv, EntryInv, InDestination, TypeOK
  <2> QED
    BY <2>1, <2>2, <2>3, <2>4, <2>5 DEF CopyEntry
<1>7. NoneMissed'
  <2> SUFFICES ASSUME NEW e \in Entries, pc' # "failed", e \notin touched, e \notin Excluded,
                      kind[e] \in {"file", "dir"}, Entered(Parent[e])'
               PROVE  Listed(e)' \/ (AtEntry /\ cur = e)' \/ InDestination(e)'
    BY <1>1 DEF NoneMissed
  <2>1. CASE e = cur
    BY <1>1, <1>6, <2>1
  <2>2. CASE e # cur
    BY <2>2, OnlyTheOneAtHand
  <2> QED
    BY <2>1, <2>2
<1> QED
  BY <1>3, <1>4, <1>5, <1>6, <1>7 DEF CopyInv

(* Nothing is promised any more of what the editor touches.                *)
LEMMA EditorCopy == ASSUME CopyInv, Editor PROVE CopyInv'
<1>1. /\ pc' = pc /\ stack' = stack /\ cur' = cur /\ copied' = copied /\ dst' = dst
      /\ dstSize' = dstSize /\ touched \subseteq touched'
  BY DEF Editor, Edit, EditOpenFile, copy
<1>2. BudgetInv' /\ TypeOK /\ TypeOK'
  BY EditorBudget DEF CopyInv, BudgetInv
<1>3. \A e \in Entries : e \notin touched' => kind'[e] = kind[e] /\ size'[e] = size[e]
  <2>1. CASE EditOpenFile
    BY <1>2, <2>1 DEF EditOpenFile, TypeOK
  <2>2. ASSUME NEW d \in Entries, Edit(d)
        PROVE  \A e \in Entries : e \notin touched' => kind'[e] = kind[e] /\ size'[e] = size[e]
    BY <1>2, <2>2 DEF Edit, TypeOK
  <2> QED
    BY <2>1, <2>2 DEF Editor
<1>4. source' = source \/ (pc = "read" /\ cur \in touched')
  BY DEF Editor, Edit, EditOpenFile
<1>5. pc \in {"link", "read"} => cur \in Entries
  BY DEF CopyInv, BudgetInv, AtEntry
<1>6. EntryInv'
  BY <1>1, <1>3, <1>4, <1>5 DEF CopyInv, EntryInv
<1>7. TreeInv'
  <2>1. \A e \in Entries : Parent[e] \in Entries \union {Root}
    BY SnapshotAssumption
  <2> QED
    BY <1>1, <1>3, <2>1 DEF CopyInv, TreeInv, InDir
<1>8. NoneMissed'
  <2> SUFFICES ASSUME NEW e \in Entries, pc # "failed", e \notin touched', e \notin Excluded,
                      kind'[e] \in {"file", "dir"}, Entered(Parent[e])'
               PROVE  Listed(e)' \/ (AtEntry /\ cur = e)' \/ InDestination(e)'
    BY <1>1 DEF NoneMissed
  <2>1. Entered(Parent[e]) /\ e \notin touched /\ kind[e] \in {"file", "dir"}
    BY <1>1, <1>3 DEF Entered
  <2>2. Listed(e) \/ (AtEntry /\ cur = e) \/ InDestination(e)
    BY <2>1 DEF CopyInv, NoneMissed
  <2> QED
    BY <1>1, <1>3, <2>2 DEF Listed, AtEntry, InDestination
<1> QED
  BY <1>1, <1>2, <1>6, <1>7, <1>8 DEF CopyInv

(* No entry is missed in any reachable state.                              *)
THEOREM CopyInvariant == Spec => []CopyInv
<1>1. ASSUME CopyInv, UNCHANGED vars PROVE CopyInv'
  <2>1. BudgetInv'
    BY <1>1 DEF CopyInv, BudgetInv, TypeOK, AtEntry, OnlyProjectFiles, vars
  <2> QED
    BY <1>1, <2>1 DEF CopyInv, EntryInv, TreeInv, InDir, NoneMissed, Entered, Listed, AtEntry,
                      InDestination, vars
<1>2. CopyInv /\ [Next]_vars => CopyInv'
  BY <1>1, WalkCopy, EntryCopy, EditorCopy DEF Next, Copier
<1> QED
  BY InitCopy, <1>2, PTL DEF Spec

(* A snapshot that ends well has every file that nobody touched.  Were one *)
(* missing, then of the missing paths that lead to it the first would lie  *)
(* in a directory that was entered and left.                               *)
THEOREM StableSafe == Spec => []StableFilesCopied
<1>1. CopyInv => StableFilesCopied
  <2> SUFFICES ASSUME CopyInv, pc = "done", NEW e \in Entries, kind[e] = "file", Untouched(e)
               PROVE  InDestination(e)
    BY DEF StableFilesCopied, InDestination
  <2> DEFINE path == PathTo[e]
             missing == {d \in path : (d = e \/ kind[d] = "dir") /\ ~InDestination(d)}
  <2>1. /\ e \in path /\ path \subseteq Entries
        /\ \A d \in path : Parent[d] \in path \union {Root}
        /\ \A d \in path : d \notin touched \union Excluded
    BY PathIsClosed DEF Untouched
  <2>2. ASSUME missing # {} PROVE FALSE
    <3>1. PICK d \in missing : Parent[d] \notin missing
      BY <2>1, <2>2, TreeAssumption
    <3>2. d \in Entries /\ d \notin touched \union Excluded /\ kind[d] \in {"file", "dir"}
      BY <2>1
    <3>3. Parent[d] = Root \/ dst[Parent[d]] = "dir"
      <4>1. CASE Parent[d] \in path
        <5>1. kind[Parent[d]] = "dir" \/ Parent[d] = Root
          BY <2>1, <3>2, <4>1 DEF CopyInv, TreeInv, InDir
        <5> QED
          BY <3>1, <4>1, <5>1 DEF InDestination
      <4> QED
        BY <2>1, <4>1
    <3>4. Entered(Parent[d])
      BY <3>3 DEF Entered
    <3>5. ~Listed(d) /\ ~AtEntry
      BY DEF CopyInv, Listed, AtEntry
    <3> QED
      BY <3>2, <3>4, <3>5 DEF CopyInv, NoneMissed
  <2> QED
    BY <2>1, <2>2
<1> QED
  BY CopyInvariant, <1>1, PTL
=============================================================================
