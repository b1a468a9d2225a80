----------------------------- MODULE DraftFile -----------------------------
(***************************************************************************)
(* The file a command writes for an installer: an unsigned draft           *)
(* (binding capture) or a signed envelope (binding sign).  Both judge the  *)
(* path first (checkDraftPath) and write it after a ceremony that takes    *)
(* minutes, or after the key was handled (writeDraft).  In between, and    *)
(* between the calls of the write, other commands write to the same path   *)
(* and people put things there and take them away.                         *)
(*                                                                         *)
(* A path names nothing, a directory, a file or a symbolic link; a file is *)
(* a node, which outlives its name while a command has it open.  A body is *)
(* a sequence of parts, each the document it is a part of.                 *)
(***************************************************************************)
EXTENDS Integers, Sequences

CONSTANTS
  Writers, Paths, Nodes,
  Victim,        \* the file that links point to; no path names it
  NoNode, Someone,
  Size,          \* the parts of each writer's document
  MaxMeddling    \* bound: what people do to the paths

ASSUME DraftAssumption ==
  /\ Victim \notin Nodes /\ NoNode \notin Nodes \cup {Victim}
  /\ NoNode \notin Writers \cup {Someone} /\ Someone \notin Writers
  /\ Size \in [Writers -> Nat \ {0}]
  /\ MaxMeddling \in Nat

VARIABLES
  entry,    \* what each path names
  body, mode, creator,   \* of each node
  touched,  \* the writers that changed a node
  out, force,            \* the path and the flag each writer was given
  pc,       \* where each writer is
  fd,       \* the node it opened
  rivals,   \* the writers that had the node open with it
  meddled

files == <<entry, body, mode, creator, touched>>
job == <<out, force>>
vars == <<files, job, pc, fd, rivals, meddled>>

AllNodes == Nodes \cup {Victim}

Nothing == [is |-> "nothing", node |-> NoNode]
Directory == [is |-> "directory", node |-> NoNode]
File(n) == [is |-> "file", node |-> n]
Link == [is |-> "link", node |-> Victim]

\* Nodes no file was made of yet.
Fresh == {n \in Nodes : creator[n] = NoNode}

Document(w) == [i \in 1 .. Size[w] |-> w]

Goes(w, next) == pc' = [pc EXCEPT ![w] = next]

-----------------------------------------------------------------------------
\* checkDraftPath: nothing is there, or a file that may be replaced.
PathIsFree(e, forced) == e.is = "nothing" \/ (e.is = "file" /\ forced)

CheckPath(w) ==
  /\ pc[w] = "check"
  /\ Goes(w, IF PathIsFree(entry[out[w]], force[w]) THEN "ceremony" ELSE "refused")
  /\ UNCHANGED <<files, job, fd, rivals, meddled>>

IsOpen(w) == pc[w] \in {"opened", "written", "closing"}

Busy(v, n) == fd[v] = n /\ IsOpen(v)

\* The descriptor, and who shares the node with it.
Holds(w, n) ==
  /\ Goes(w, "opened")
  /\ fd' = [fd EXCEPT ![w] = n]
  /\ rivals' = [v \in Writers |->
       IF v = w THEN {u \in Writers \ {w} : Busy(u, n)}
       ELSE IF fd[v] = n THEN rivals[v] \cup {w} ELSE rivals[v]]

\* O_CREATE on a name that is free: a file of mode 0600.
CreateFile(w) ==
  /\ entry[out[w]] = Nothing
  /\ \E n \in Fresh :
       /\ entry' = [entry EXCEPT ![out[w]] = File(n)]
       /\ body' = [body EXCEPT ![n] = <<>>]
       /\ mode' = [mode EXCEPT ![n] = "private"]
       /\ creator' = [creator EXCEPT ![n] = w]
       /\ touched' = [touched EXCEPT ![n] = {w}]
       /\ Holds(w, n)

\* O_TRUNC on a name that is taken.
Truncate(w, n) ==
  /\ body' = [body EXCEPT ![n] = <<>>]
  /\ touched' = [touched EXCEPT ![n] = @ \cup {w}]
  /\ Holds(w, n)
  /\ UNCHANGED <<entry, mode, creator>>

Fails(w) == Goes(w, "failed") /\ UNCHANGED <<files, fd, rivals>>

\* Mutant: O_EXCL is left out, and the file that is there is opened.
OpenNotExclusive(w) ==
  \/ CreateFile(w)
  \/ \E n \in Nodes : entry[out[w]] = File(n) /\ Holds(w, n) /\ UNCHANGED files
  \/ Fails(w)

\* O_EXCL: only a name that is free.
OpenExclusive(w) == CreateFile(w) \/ Fails(w)

\* Mutant: O_NOFOLLOW is left out, and a link is followed.
OpenFollowing(w) ==
  \/ CreateFile(w)
  \/ \E n \in AllNodes : entry[out[w]].node = n /\ Truncate(w, n)
  \/ Fails(w)

\* O_TRUNC | O_NOFOLLOW: a link and a directory fail.
OpenReplacing(w) ==
  \/ CreateFile(w)
  \/ \E n \in Nodes : entry[out[w]] = File(n) /\ Truncate(w, n)
  \/ Fails(w)

Open(w) ==
  /\ pc[w] = "ceremony"
  /\ IF force[w] THEN OpenReplacing(w) ELSE OpenExclusive(w)
  /\ UNCHANGED <<job, meddled>>

\* Writes at the start of the file: what was longer keeps its end.
Overwritten(old, new) == new \o SubSeq(old, Len(new) + 1, Len(old))

\* Mutant: a write that fell short is not an error.
AfterWriteAny(k, w) == "written"

AfterWrite(k, w) == IF k = Size[w] THEN "written" ELSE "failed"

\* The disk may fill: then the first k parts are there.
Write(w) ==
  /\ pc[w] = "opened"
  /\ \E k \in 0 .. Size[w] :
       /\ body' = [body EXCEPT ![fd[w]] = Overwritten(@, SubSeq(Document(w), 1, k))]
       /\ Goes(w, AfterWrite(k, w))
  /\ touched' = [touched EXCEPT ![fd[w]] = @ \cup {w}]
  /\ UNCHANGED <<entry, mode, creator, job, fd, rivals, meddled>>

ChangesMode(w) == force[w]

Chmod(w) ==
  /\ pc[w] = "written"
  /\ \/ Fails(w)
     \/ /\ mode' = IF ChangesMode(w) THEN [mode EXCEPT ![fd[w]] = "private"] ELSE mode
        /\ Goes(w, "closing")
        /\ UNCHANGED <<entry, body, creator, touched, fd, rivals>>
  /\ UNCHANGED <<job, meddled>>

Close(w) ==
  /\ pc[w] = "closing"
  /\ Goes(w, "wrote") \/ Goes(w, "failed")
  /\ UNCHANGED <<files, job, fd, rivals, meddled>>

Kill(w) ==
  /\ pc[w] \in {"ceremony", "opened", "written", "closing"}
  /\ Goes(w, "killed")
  /\ UNCHANGED <<files, job, fd, rivals, meddled>>

-----------------------------------------------------------------------------
\* Someone puts a file that anyone may read, a directory or a link at a path.
Plant(p) ==
  /\ entry[p] = Nothing /\ meddled < MaxMeddling
  /\ meddled' = meddled + 1
  /\ \/ \E e \in {Directory, Link} :
          entry' = [entry EXCEPT ![p] = e] /\ UNCHANGED <<body, mode, creator, touched>>
     \/ \E n \in Fresh :
          /\ entry' = [entry EXCEPT ![p] = File(n)]
          /\ body' = [body EXCEPT ![n] = <<Someone>>]
          /\ mode' = [mode EXCEPT ![n] = "open"]
          /\ creator' = [creator EXCEPT ![n] = Someone]
          /\ UNCHANGED touched
  /\ UNCHANGED <<job, pc, fd, rivals>>

Remove(p) ==
  /\ entry[p] # Nothing /\ meddled < MaxMeddling
  /\ meddled' = meddled + 1
  /\ entry' = [entry EXCEPT ![p] = Nothing]
  /\ UNCHANGED <<body, mode, creator, touched, job, pc, fd, rivals>>

Init ==
  /\ entry = [p \in Paths |-> Nothing]
  /\ body = [n \in AllNodes |-> IF n = Victim THEN <<Someone>> ELSE <<>>]
  /\ mode = [n \in AllNodes |-> "open"]
  /\ creator = [n \in AllNodes |-> IF n = Victim THEN Someone ELSE NoNode]
  /\ touched = [n \in AllNodes |-> {}]
  /\ out \in [Writers -> Paths]
  /\ force \in [Writers -> BOOLEAN]
  /\ pc = [w \in Writers |-> "check"]
  /\ fd = [w \in Writers |-> NoNode]
  /\ rivals = [w \in Writers |-> {}]
  /\ meddled = 0

Next ==
  \/ \E w \in Writers :
       CheckPath(w) \/ Open(w) \/ Write(w) \/ Chmod(w) \/ Close(w) \/ Kill(w)
  \/ \E p \in Paths : Plant(p) \/ Remove(p)

Spec == Init /\ [][Next]_vars

-----------------------------------------------------------------------------
(***************************************************************************)
(* Properties.                                                             *)
(***************************************************************************)

\* The values every variable takes.  A writer that has opened a file has a
\* node of its own path's file system, and nobody opens the file behind a link.
TypeOK ==
  /\ entry \in [Paths -> {Nothing, Directory, Link} \cup {File(n) : n \in Nodes}]
  /\ body \in [AllNodes -> Seq(Writers \cup {Someone})]
  /\ mode \in [AllNodes -> {"private", "open"}]
  /\ creator \in [AllNodes -> Writers \cup {Someone, NoNode}]
  /\ touched \in [AllNodes -> SUBSET Writers]
  /\ out \in [Writers -> Paths] /\ force \in [Writers -> BOOLEAN]
  /\ pc \in [Writers -> {"check", "refused", "ceremony", "opened", "written", "closing",
                         "wrote", "failed", "killed"}]
  /\ fd \in [Writers -> Nodes \cup {NoNode}]
  /\ \A w \in Writers : IsOpen(w) => fd[w] # NoNode
  /\ rivals \in [Writers -> SUBSET Writers]
  /\ meddled \in 0 .. MaxMeddling

\* Without --force a command never changes a file it did not create, although
\* the path was judged before the ceremony and something may be there since
\* (binding.go:632-637, 642-646).
NothingReplacedUnforced ==
  \A n \in AllNodes : \A w \in touched[n] : force[w] \/ creator[n] = w

\* A draft is written to the path given and not wherever a link points, with
\* --force and without, whenever the link was put there (binding.go:612-628).
LinkTargetKept == body[Victim] = <<Someone>> /\ mode[Victim] = "open"

\* A command that says it wrote the draft left the whole of it, with nothing of
\* the document that was there and readable by its owner alone.  Only --force
\* can spoil that: another command that had the file open at the same time, one
\* of the two having been told to replace it (binding.go:632-663).
ReportedDraftIntact ==
  \A w \in Writers :
    pc[w] = "wrote" /\ (\A v \in rivals[w] : ~force[v] /\ ~force[w])
      => body[fd[w]] = Document(w) /\ mode[fd[w]] = "private"

-----------------------------------------------------------------------------
(***************************************************************************)
(* The inductive invariant behind them.                                    *)
(***************************************************************************)
\* A file that a path names or a writer has opened was made by someone; without
\* --force by the writer itself.
FilesMade ==
  /\ \A p \in Paths : \A n \in Nodes : entry[p] = File(n) => creator[n] # NoNode
  /\ \A w \in Writers : fd[w] # NoNode =>
       creator[fd[w]] # NoNode /\ (~force[w] => creator[fd[w]] = w)

\* A writer opens one file at most, and has it when it reports.
FileOpenedOnce ==
  \A w \in Writers :
    /\ pc[w] \in {"check", "refused", "ceremony"} => fd[w] = NoNode
    /\ pc[w] = "wrote" => fd[w] # NoNode

\* The rivals of a writer have had its file open, and whoever may still write to
\* it is one of them.
RivalsKnown ==
  \A w, v \in Writers :
    /\ v \in rivals[w] => v # w /\ fd[w] # NoNode /\ fd[v] = fd[w]
    /\ v # w /\ fd[w] # NoNode /\ Busy(v, fd[w]) => v \in rivals[w]

\* What a writer without rivals has in its file as it goes along.
DraftSoFar(w) ==
  /\ pc[w] = "opened" => body[fd[w]] = <<>>
  /\ pc[w] \in {"written", "closing", "wrote"} => body[fd[w]] = Document(w)
  /\ pc[w] \in {"closing", "wrote"} \/ (IsOpen(w) /\ ~force[w]) => mode[fd[w]] = "private"

DraftsSound == \A w \in Writers : rivals[w] = {} => DraftSoFar(w)

IInv ==
  /\ TypeOK /\ FilesMade /\ FileOpenedOnce /\ RivalsKnown /\ DraftsSound
  /\ NothingReplacedUnforced /\ LinkTargetKept
=============================================================================
