------------------------------- MODULE Snapshot -------------------------------
(***************************************************************************)
(* snapshot of aider_local/runner.py: the copy of the project that a       *)
(* sandbox gets to see, taken while an editor may be changing the project. *)
(* The copier walks the tree through directory descriptors; between its    *)
(* listdir, stat, resolve, open and read the editor may create, remove,    *)
(* rename and rewrite entries.  Sizes are counted in chunks; a file of     *)
(* size Endless is one that is written faster than it is read.             *)
(***************************************************************************)
EXTENDS Integers, Sequences

CONSTANTS
  Entries,        \* the paths of the project
  Root,           \* the project directory itself
  Parent,         \* the directory of each path
  Excluded,       \* the paths whose name matches an exclude pattern
  MaxSize,        \* bound: size of a file that is not growing
  MaxWorkspace,   \* MAX_WORKSPACE
  MaxEdits        \* bound: changes of the project's entries

ASSUME SnapshotAssumption ==
  /\ Root \notin Entries
  /\ Parent \in [Entries -> Entries \union {Root}]
  /\ Excluded \subseteq Entries
  /\ MaxSize \in Nat /\ MaxWorkspace \in Nat /\ MaxEdits \in Nat

(* Every path leads up to the project directory.                           *)
ASSUME TreeAssumption ==
  \A S \in SUBSET Entries : S # {} => \E e \in S : Parent[e] \notin S

Endless == MaxSize + 1

(* Each path with the directories above it.                                *)
PathTo ==
  [e \in Entries |->
    {d \in Entries : \A S \in SUBSET Entries :
      e \in S /\ (\A c \in S : Parent[c] \in S \union {Root}) => d \in S}]

Dirs == {Parent[e] : e \in Entries} \ {Root}
Kinds == {"absent", "file", "dir", "inlink", "outlink", "special"}

VARIABLES
  kind, size,     \* the project: what each path is, the size of a file
  edits,
  touched,        \* history: the paths the editor has changed
  pc,             \* where the copier is
  stack,          \* the directories it has open and the names left in each
  cur, info,      \* the entry at hand and what stat said of it
  source,         \* the open file: its present size and whose file it is
  copied,         \* chunks copied from it
  total,          \* the sum of the sizes seen
  written,        \* history: chunks written to the destination
  dst, dstSize    \* the destination: what was made of each path

project == <<kind, size, edits, touched>>
copy == <<dst, dstSize, written>>
vars == <<kind, size, edits, touched, pc, stack, cur, info, source, copied, total, written,
          dst, dstSize>>

Frames == [dir : Entries \union {Root}, names : SUBSET Entries]

TypeOK ==
  /\ kind \in [Entries -> Kinds]
  /\ size \in [Entries -> 0 .. Endless]
  /\ edits \in 0 .. MaxEdits
  /\ touched \subseteq Entries
  /\ pc \in {"start", "next", "stat", "link", "enter", "open", "read", "done", "failed"}
  /\ stack \in Seq(Frames)
  /\ cur \in Entries \union {Root}
  /\ info \in [kind : Kinds, size : 0 .. Endless]
  /\ source \in [size : 0 .. Endless, from : {"project", "outside"}]
  /\ copied \in 0 .. Endless
  /\ total \in Nat
  /\ written \in Nat
  /\ dst \in [Entries -> {"none", "file", "partial", "dir", "link"}]
  /\ dstSize \in [Entries -> 0 .. Endless]

InDir(e) == IF Parent[e] = Root THEN TRUE ELSE kind[Parent[e]] = "dir"

(* Only a directory has entries, and only a file has a size. *)
WellFormed ==
  \A e \in Entries :
    /\ kind[e] = "dir" => e \in Dirs
    /\ kind[e] # "file" => size[e] = 0
    /\ kind[e] # "absent" => InDir(e)

Init ==
  /\ kind \in [Entries -> Kinds]
  /\ size \in [Entries -> 0 .. MaxSize]
  /\ WellFormed
  /\ edits = 0
  /\ touched = {}
  /\ pc = "start"
  /\ stack = <<>>
  /\ cur = Root
  /\ info = [kind |-> "absent", size |-> 0]
  /\ source = [size |-> 0, from |-> "project"]
  /\ copied = 0
  /\ total = 0
  /\ written = 0
  /\ dst = [e \in Entries |-> "none"]
  /\ dstSize = [e \in Entries |-> 0]
-----------------------------------------------------------------------------
(* The copier. *)

(* os.listdir: the names in an open directory, in any order. *)
Listing(d) == [dir |-> d, names |-> {e \in Entries : Parent[e] = d /\ kind[e] # "absent"}]

(* The source is refused, or its descriptor opened and the root listed. *)
Begin ==
  /\ pc = "start"
  /\ \/ pc' = "next" /\ stack' = <<Listing(Root)>>
     \/ pc' = "failed" /\ UNCHANGED stack
  /\ UNCHANGED <<project, cur, info, source, copied, total, copy>>

Open == stack[Len(stack)]

(* The next name of the innermost open directory; excluded ones are passed over. *)
TakeName ==
  /\ pc = "next"
  /\ stack # <<>>
  /\ \E e \in Open.names :
       /\ stack' = [stack EXCEPT ![Len(stack)].names = @ \ {e}]
       /\ \/ e \in Excluded /\ UNCHANGED <<pc, cur>>
          \/ e \notin Excluded /\ pc' = "stat" /\ cur' = e
  /\ UNCHANGED <<project, info, source, copied, total, copy>>

(* A directory is exhausted: back to the one above, or done. *)
LeaveDir ==
  /\ pc = "next"
  /\ stack # <<>>
  /\ Open.names = {}
  /\ stack' = SubSeq(stack, 1, Len(stack) - 1)
  /\ pc' = IF Len(stack) = 1 THEN "done" ELSE "next"
  /\ UNCHANGED <<project, cur, info, source, copied, total, copy>>

(* os.stat without following links; a regular file is charged by its size. *)
Stat ==
  /\ pc = "stat"
  /\ info' = [kind |-> kind[cur], size |-> size[cur]]
  /\ total' = IF kind[cur] = "file" THEN total + size[cur] ELSE total
  /\ dst' = IF kind[cur] = "dir" THEN [dst EXCEPT ![cur] = "dir"] ELSE dst
  /\ pc' = CASE kind[cur] = "absent" -> "failed"
             [] kind[cur] = "special" -> "next"
             [] kind[cur] = "dir" -> "enter"
             [] kind[cur] \in {"inlink", "outlink"} -> "link"
             [] kind[cur] = "file" -> IF total' > MaxWorkspace THEN "failed" ELSE "open"
  /\ UNCHANGED <<project, stack, cur, source, copied, written, dstSize>>

(* Does entry.resolve(strict=True) end inside?  It goes by path, not by    *)
(* descriptor: past a directory that has become a link it comes to another *)
(* entry, or to none.                                                      *)
Above(e) == PathTo[e] \ {e}

ResolvesInside(e) ==
  IF \A d \in Above(e) : kind[d] = "dir" THEN {kind[e] \notin {"absent", "outlink"}}
  ELSE IF \E d \in Above(e) : kind[d] \in {"inlink", "outlink"} /\ \A c \in Above(d) : kind[c] = "dir"
       THEN BOOLEAN ELSE {FALSE}

\* Mutant: a link that leads outside ends its directory (break for continue).
CopyLinkOrStop ==
  /\ pc = "link"
  /\ \E inside \in ResolvesInside(cur) :
       /\ dst' = IF inside THEN [dst EXCEPT ![cur] = "link"] ELSE dst
       /\ stack' = IF inside THEN stack ELSE [stack EXCEPT ![Len(stack)].names = {}]
  /\ pc' = "next"
  /\ UNCHANGED <<project, cur, info, source, copied, total, written, dstSize>>

(* An internal link is made anew in the destination, any other passed over. *)
CopyLink ==
  /\ pc = "link"
  /\ \E inside \in ResolvesInside(cur) :
       dst' = IF inside THEN [dst EXCEPT ![cur] = "link"] ELSE dst
  /\ pc' = "next"
  /\ UNCHANGED <<project, stack, cur, info, source, copied, total, written, dstSize>>

(* os.open with O_DIRECTORY and O_NOFOLLOW, then the listing. *)
EnterDir ==
  /\ pc = "enter"
  /\ \/ kind[cur] = "dir" /\ stack' = Append(stack, Listing(cur)) /\ pc' = "next"
     \/ kind[cur] # "dir" /\ pc' = "failed" /\ UNCHANGED stack
  /\ UNCHANGED <<project, cur, info, source, copied, total, copy>>

\* Mutant: the file is opened without O_NOFOLLOW.
OpenFollowingLinks ==
  /\ pc = "open"
  /\ \/ /\ kind[cur] \in {"file", "outlink"}
        /\ source' = [size |-> size[cur], from |-> IF kind[cur] = "file" THEN "project" ELSE "outside"]
        /\ copied' = 0
        /\ dst' = [dst EXCEPT ![cur] = "partial"]
        /\ dstSize' = [dstSize EXCEPT ![cur] = 0]
        /\ pc' = "read"
     \/ kind[cur] \notin {"file", "outlink"} /\ pc' = "failed" /\ UNCHANGED <<source, copied, dst, dstSize>>
  /\ UNCHANGED <<project, stack, cur, info, total, written>>

(* os.open with O_NOFOLLOW and O_NONBLOCK, then fstat: whatever is not a   *)
(* regular file any more is an error.  The target is opened empty.         *)
OpenFile ==
  /\ pc = "open"
  /\ \/ /\ kind[cur] = "file"
        /\ source' = [size |-> size[cur], from |-> "project"]
        /\ copied' = 0
        /\ dst' = [dst EXCEPT ![cur] = "partial"]
        /\ dstSize' = [dstSize EXCEPT ![cur] = 0]
        /\ pc' = "read"
     \/ kind[cur] # "file" /\ pc' = "failed" /\ UNCHANGED <<source, copied, dst, dstSize>>
  /\ UNCHANGED <<project, stack, cur, info, total, written>>

\* Mutant: the copy does not notice that the file grew.
ReadOn ==
  /\ pc = "read"
  /\ copied < source.size
  /\ copied' = IF copied < MaxSize THEN copied + 1 ELSE copied
  /\ written' = written + copied' - copied
  /\ dstSize' = [dstSize EXCEPT ![cur] = copied']
  /\ UNCHANGED <<project, pc, stack, cur, info, source, total, dst>>

(* One chunk, unless it is one more than stat promised. *)
ReadChunk ==
  /\ pc = "read"
  /\ copied < source.size
  /\ IF copied < info.size
     THEN /\ copied' = copied + 1
          /\ written' = written + 1
          /\ dstSize' = [dstSize EXCEPT ![cur] = copied']
          /\ UNCHANGED pc
     ELSE pc' = "failed" /\ UNCHANGED <<copied, written, dstSize>>
  /\ UNCHANGED <<project, stack, cur, info, source, total, dst>>

ReadEof ==
  /\ pc = "read"
  /\ copied >= source.size
  /\ dst' = [dst EXCEPT ![cur] = "file"]
  /\ pc' = "next"
  /\ UNCHANGED <<project, stack, cur, info, source, copied, total, written, dstSize>>

(* Any system call may fail: permissions, a full disk, a vanished entry. *)
OsError ==
  /\ pc \notin {"start", "done", "failed"}
  /\ pc' = "failed"
  /\ UNCHANGED <<project, stack, cur, info, source, copied, total, copy>>

Walk == TakeName \/ LeaveDir \/ EnterDir
CopyEntry == Stat \/ CopyLink \/ OpenFile \/ ReadChunk \/ ReadEof
Copier == Begin \/ Walk \/ CopyEntry \/ OsError
-----------------------------------------------------------------------------
(* The editor. *)

(* A path is created, removed, replaced by another kind of entry, rewritten. *)
Edit(e) ==
  /\ edits < MaxEdits
  /\ pc \notin {"done", "failed"}
  /\ \E k \in Kinds \ (IF e \in Dirs THEN {} ELSE {"dir"}) :
       \E s \in IF k = "file" THEN 0 .. MaxSize ELSE {0} :
         /\ <<k, s>> # <<kind[e], size[e]>>
         /\ kind' = [kind EXCEPT ![e] = k]
         /\ size' = [size EXCEPT ![e] = s]
  /\ edits' = edits + 1
  /\ touched' = touched \union {e}
  /\ UNCHANGED <<pc, stack, cur, info, source, copied, total, copy>>

(* The file being read is truncated, extended, or written without end. *)
EditOpenFile ==
  /\ edits < MaxEdits
  /\ pc = "read"
  /\ source.from = "project"
  /\ \E s \in 0 .. Endless :
       /\ s # source.size
       /\ source' = [source EXCEPT !.size = s]
       /\ size' = [size EXCEPT ![cur] = IF kind[cur] = "file" THEN s ELSE 0]
  /\ edits' = edits + 1
  /\ touched' = touched \union {cur}
  /\ UNCHANGED <<kind, pc, stack, cur, info, copied, total, copy>>

Editor == EditOpenFile \/ \E e \in Entries : Edit(e)

Next == Copier \/ Editor

(* The copier keeps running; the editor need not. *)
Spec == Init /\ [][Next]_vars /\ WF_vars(Begin \/ Walk \/ CopyEntry)
-----------------------------------------------------------------------------
(* Properties. *)

(* However files grow while they are copied, no more than MAX_WORKSPACE is *)
(* ever written to the destination.                                        *)
WithinBudget == written <= MaxWorkspace

(* What lies in the destination as a file was read from a regular file of  *)
(* the project, never through a link that was swapped in after the stat,   *)
(* and under no excluded name.  This is about the content of files: what a *)
(* copied link leads to in the copy is not in the model.                   *)
OnlyProjectFiles ==
  /\ source.from = "project"
  /\ \A e \in Excluded : dst[e] = "none" /\ dstSize[e] = 0

(* A snapshot that succeeds is complete: every file that nobody touched,   *)
(* in directories that nobody touched, is in the destination in full,      *)
(* whatever happened to its neighbours.                                    *)
Untouched(e) == PathTo[e] \intersect (touched \union Excluded) = {}

StableFilesCopied ==
  pc = "done" =>
    \A e \in Entries :
      kind[e] = "file" /\ Untouched(e) => dst[e] = "file" /\ dstSize[e] = size[e]

(* The snapshot ends, also when a file it reads is written without end.    *)
Ends == <>(pc \in {"done", "failed"})

(* The inductive invariant behind the first two: what stat charged covers  *)
(* what was written and what the open file may still add.                  *)
AtEntry == pc \in {"stat", "link", "enter", "open", "read"}

BudgetInv ==
  /\ TypeOK
  /\ written <= MaxWorkspace
  /\ pc # "failed" => written <= total /\ total <= MaxWorkspace
  /\ pc = "open" => written + info.size <= total
  /\ pc = "read" => copied <= info.size /\ written + (info.size - copied) <= total
  /\ AtEntry => cur \in Entries \ Excluded
  /\ OnlyProjectFiles

(* The invariant behind the third.  An entry that nobody touched, in a     *)
(* directory that the copier has entered, is still listed, at hand, or in  *)
(* the destination; and the directory of an untouched one still is one.    *)
Entered(d) == pc # "start" /\ (d = Root \/ (dst[d] = "dir" /\ ~(pc = "enter" /\ cur = d)))

Listed(e) == \E i \in 1 .. Len(stack) : e \in stack[i].names

InDestination(e) ==
  /\ kind[e] = "file" => dst[e] = "file" /\ dstSize[e] = size[e]
  /\ kind[e] = "dir" => dst[e] = "dir"

EntryInv ==
  /\ pc = "enter" => dst[cur] = "dir"
  /\ pc = "link" /\ cur \notin touched => kind[cur] \in {"inlink", "outlink"}
  /\ pc = "read" /\ cur \notin touched =>
       /\ kind[cur] = "file" /\ source.size = size[cur]
       /\ dstSize[cur] = copied /\ copied <= size[cur]

TreeInv ==
  \A e \in Entries :
    kind[e] # "absent" /\ {e, Parent[e]} \intersect touched = {} => InDir(e)

NoneMissed ==
  pc # "failed" => \A e \in Entries \ (touched \union Excluded) :
    kind[e] \in {"file", "dir"} /\ Entered(Parent[e]) =>
      Listed(e) \/ (AtEntry /\ cur = e) \/ InDestination(e)

CopyInv ==
  /\ BudgetInv
  /\ pc = "start" => \A e \in Entries : dst[e] = "none"
  /\ pc = "done" => stack = <<>>
  /\ EntryInv /\ TreeInv /\ NoneMissed
=============================================================================
