-------------------------- MODULE DraftFileProofs --------------------------
(***************************************************************************)
(* The proofs about DraftFile, for any number of commands, paths, files    *)
(* and interferences.  What a report says of its file is kept by three     *)
(* facts together: a writer that may still write to it is a known rival    *)
(* (RivalsKnown), two writers without --force never share a file           *)
(* (FilesMade), and a writer without rivals has in its file exactly what   *)
(* it wrote so far (DraftsSound).                                          *)
(***************************************************************************)
EXTENDS DraftFile, SequenceTheorems, TLAPS

USE DraftAssumption

-----------------------------------------------------------------------------
(***************************************************************************)
(* Bodies as sequences.                                                    *)
(***************************************************************************)
Contents == Writers \cup {Someone}

\* A document is as long as its size.
LEMMA DocumentIsSeq ==
  ASSUME NEW w \in Writers
  PROVE  Document(w) \in Seq(Contents) /\ Len(Document(w)) = Size[w]
<1>1. Size[w] \in Nat
  OBVIOUS
<1>2. Document(w) \in [1 .. Size[w] -> Contents]
  BY DEF Document, Contents
<1>3. QED
  BY <1>1, <1>2

\* What is left of a document that was cut is made of its parts.
LEMMA PartIsSeq ==
  ASSUME NEW w \in Writers, NEW k \in 0 .. Size[w]
  PROVE  SubSeq(Document(w), 1, k) \in Seq(Contents)
<1>1. Size[w] \in Nat
  OBVIOUS
<1>2. \A i \in 1 .. k : Document(w)[i] \in Contents
  BY <1>1 DEF Document, Contents
<1>3. QED
  BY <1>1, <1>2, SubSeqProperties

\* A write leaves a sequence of parts.
LEMMA OverwrittenIsSeq ==
  ASSUME NEW old \in Seq(Contents), NEW new \in Seq(Contents)
  PROVE  Overwritten(old, new) \in Seq(Contents)
<1> DEFINE end == SubSeq(old, Len(new) + 1, Len(old))
<1>1. Len(new) \in Nat /\ Len(old) \in Nat
  BY LenProperties
<1>2. \A i \in Len(new) + 1 .. Len(old) : old[i] \in Contents
  BY <1>1, ElementOfSeq
<1>3. end \in Seq(Contents)
  BY <1>1, <1>2, SubSeqProperties
<1>4. QED
  BY <1>3, ConcatProperties DEF Overwritten

\* The whole of a document written to an empty file is the file.
LEMMA WrittenWhole ==
  ASSUME NEW w \in Writers
  PROVE  Overwritten(<<>>, SubSeq(Document(w), 1, Size[w])) = Document(w)
<1>1. SubSeq(Document(w), 1, Size[w]) = Document(w)
  BY DocumentIsSeq, SubSeqFull
<1>2. SubSeq(<<>>, Len(Document(w)) + 1, Len(<<>>)) = <<>>
  <2>1. Len(Document(w)) \in Nat /\ Len(<<>>) = 0
    BY DocumentIsSeq, LenProperties
  <2>2. QED
    BY <2>1, SubSeqEmpty
<1>3. QED
  BY <1>1, <1>2, DocumentIsSeq, ConcatEmptySeq DEF Overwritten

-----------------------------------------------------------------------------
(***************************************************************************)
(* The invariant, one lemma for each kind of step.                         *)
(***************************************************************************)
\* Before anyone started, nothing was made and nothing opened.
LEMMA InitIInv == Init => IInv
<1> SUFFICES ASSUME Init PROVE IInv
  OBVIOUS
<1> USE DEF Init
<1>1. TypeOK
  <2>1. <<>> \in Seq(Writers \cup {Someone}) /\ <<Someone>> \in Seq(Writers \cup {Someone})
    OBVIOUS
  <2>2. body \in [AllNodes -> Seq(Writers \cup {Someone})]
    BY <2>1
  <2>3. QED
    BY <2>2 DEF TypeOK, IsOpen
<1>2. FilesMade
  BY DEF FilesMade, Nothing, File
<1>3. FileOpenedOnce /\ RivalsKnown
  BY DEF FileOpenedOnce, RivalsKnown
<1>4. DraftsSound
  BY DEF DraftsSound, DraftSoFar, IsOpen
<1>5. NothingReplacedUnforced /\ LinkTargetKept
  BY DEF NothingReplacedUnforced, LinkTargetKept, AllNodes
<1>6. QED
  BY <1>1, <1>2, <1>3, <1>4, <1>5 DEF IInv

\* A step that changes no file and opens none keeps the invariant, if the writer
\* goes nowhere that needs more than it has.
LEMMA ControlOnly ==
  ASSUME IInv, NEW w \in Writers, NEW next,
         Goes(w, next), UNCHANGED <<files, job, fd, rivals, meddled>>,
         \/ next \in {"refused", "ceremony", "killed", "failed"} /\ pc[w] \in {"check", "ceremony"}
         \/ next \in {"killed", "failed"}
         \/ next = "wrote" /\ pc[w] = "closing"
  PROVE  IInv'
<1> USE DEF IInv, Goes, files, job, IsOpen
<1>1. TypeOK'
  BY DEF TypeOK
<1>2. FilesMade'
  BY DEF FilesMade
<1>3. FileOpenedOnce'
  BY DEF FileOpenedOnce, TypeOK
<1>4. RivalsKnown'
  BY DEF RivalsKnown, TypeOK, Busy
<1>5. DraftsSound'
  BY DEF DraftsSound, DraftSoFar, TypeOK
<1>6. NothingReplacedUnforced' /\ LinkTargetKept'
  BY DEF NothingReplacedUnforced, LinkTargetKept
<1>7. QED
  BY <1>1, <1>2, <1>3, <1>4, <1>5, <1>6

\* After a writer opens a node, the rivals are known for it as for the others.
LEMMA HoldsKeepsRivals ==
  ASSUME IInv, NEW w \in Writers, NEW n \in Nodes, pc[w] = "ceremony", Holds(w, n)
  PROVE  /\ RivalsKnown'
         /\ FileOpenedOnce'
         /\ fd' \in [Writers -> Nodes \cup {NoNode}] /\ rivals' \in [Writers -> SUBSET Writers]
         /\ \A v \in Writers : IsOpen(v)' => fd'[v] # NoNode
         /\ \A v \in Writers : v # w /\ rivals'[v] = {} => rivals[v] = {} /\ fd[v] # n
<1> USE DEF IInv, Holds, Goes, TypeOK
<1>1. fd[w] = NoNode /\ n # NoNode
  BY DEF FileOpenedOnce
<1>2. fd' = [fd EXCEPT ![w] = n] /\ pc' = [pc EXCEPT ![w] = "opened"]
  OBVIOUS
<1>3. \A v \in Writers : rivals'[v] =
        IF v = w THEN {u \in Writers \ {w} : Busy(u, n)}
        ELSE IF fd[v] = n THEN rivals[v] \cup {w} ELSE rivals[v]
  OBVIOUS
<1>4. rivals' \in [Writers -> SUBSET Writers]
  <2>1. \A v \in Writers : rivals'[v] \in SUBSET Writers
    BY <1>3
  <2>2. QED
    BY <2>1
<1>5. RivalsKnown'
  <2> SUFFICES ASSUME NEW x \in Writers, NEW v \in Writers
               PROVE  /\ v \in rivals'[x] => v # x /\ fd'[x] # NoNode /\ fd'[v] = fd'[x]
                      /\ v # x /\ fd'[x] # NoNode /\ Busy(v, fd[x])' => v \in rivals'[x]
    BY DEF RivalsKnown
  <2>1. CASE x = w
    BY <1>1, <1>2, <1>3, <2>1 DEF Busy, IsOpen
  <2>2. CASE x # w /\ v = w
    BY <1>1, <1>2, <1>3, <2>2 DEF RivalsKnown, Busy, IsOpen
  <2>3. CASE x # w /\ v # w
    BY <1>1, <1>2, <1>3, <2>3 DEF RivalsKnown, Busy, IsOpen
  <2>4. QED
    BY <2>1, <2>2, <2>3
<1>6. FileOpenedOnce' /\ \A v \in Writers : IsOpen(v)' => fd'[v] # NoNode
  BY <1>1, <1>2 DEF FileOpenedOnce, IsOpen
<1>7. \A v \in Writers : v # w /\ rivals'[v] = {} => rivals[v] = {} /\ fd[v] # n
  BY <1>3
<1>8. fd' \in [Writers -> Nodes \cup {NoNode}]
  BY <1>2
<1>9. QED
  BY <1>4, <1>5, <1>6, <1>7, <1>8 DEF IsOpen

\* A file that is made is the writer's own, empty and private.
LEMMA CreateKeeps ==
  ASSUME IInv, NEW w \in Writers, pc[w] = "ceremony", CreateFile(w), UNCHANGED <<job, meddled>>
  PROVE  IInv'
<1>1. PICK n \in Fresh :
        /\ entry' = [entry EXCEPT ![out[w]] = File(n)]
        /\ body' = [body EXCEPT ![n] = <<>>]
        /\ mode' = [mode EXCEPT ![n] = "private"]
        /\ creator' = [creator EXCEPT ![n] = w]
        /\ touched' = [touched EXCEPT ![n] = {w}]
        /\ Holds(w, n)
  BY DEF CreateFile
<1>2. n \in Nodes /\ n \in AllNodes /\ n # Victim /\ creator[n] = NoNode
  BY DEF Fresh, AllNodes
<1>3. \A v \in Writers : fd[v] # n
  BY <1>2 DEF IInv, FilesMade
<1> USE DEF IInv, job
<1>4. fd' = [fd EXCEPT ![w] = n] /\ pc' = [pc EXCEPT ![w] = "opened"]
  BY <1>1 DEF Holds, Goes
<1>5. TypeOK'
  <2>1. <<>> \in Seq(Writers \cup {Someone})
    OBVIOUS
  <2>2. body' \in [AllNodes -> Seq(Writers \cup {Someone})]
    BY <1>1, <1>2, <2>1 DEF TypeOK
  <2>3. pc' \in [Writers -> {"check", "refused", "ceremony", "opened", "written", "closing",
                             "wrote", "failed", "killed"}]
    BY <1>4 DEF TypeOK
  <2>4. QED
    BY <1>1, <1>2, <2>2, <2>3, HoldsKeepsRivals DEF TypeOK
<1>6. FilesMade'
  <2>1. \A p \in Paths : \A x \in Nodes : entry'[p] = File(x) => creator'[x] # NoNode
    BY <1>1, <1>2 DEF FilesMade, TypeOK, File
  <2>2. \A v \in Writers : fd'[v] # NoNode =>
          creator'[fd'[v]] # NoNode /\ (~force'[v] => creator'[fd'[v]] = v)
    BY <1>1, <1>2, <1>3, <1>4 DEF FilesMade, TypeOK, AllNodes
  <2>3. QED
    BY <2>1, <2>2 DEF FilesMade
<1>7. DraftsSound'
  <2> SUFFICES ASSUME NEW v \in Writers, rivals'[v] = {} PROVE DraftSoFar(v)'
    BY DEF DraftsSound
  <2>1. CASE v = w
    BY <1>1, <1>2, <1>4, <2>1 DEF DraftSoFar, TypeOK
  <2>2. CASE v # w
    <3>1. rivals[v] = {} /\ fd[v] # n /\ pc'[v] = pc[v] /\ fd'[v] = fd[v]
      <4>1. rivals[v] = {} /\ fd[v] # n
        BY <1>1, <1>2, <2>2, HoldsKeepsRivals
      <4>2. pc'[v] = pc[v] /\ fd'[v] = fd[v]
        BY <1>4, <2>2 DEF TypeOK
      <4>3. QED
        BY <4>1, <4>2
    <3>2. DraftSoFar(v)
      BY <3>1 DEF DraftsSound
    <3>3. \/ body'[fd[v]] = body[fd[v]] /\ mode'[fd[v]] = mode[fd[v]]
          \/ pc[v] \notin {"opened", "written", "closing", "wrote"}
      BY <1>1, <3>1 DEF TypeOK, FileOpenedOnce, IsOpen, AllNodes
    <3>4. QED
      BY <3>1, <3>2, <3>3 DEF DraftSoFar, IsOpen, Document
  <2>3. QED
    BY <2>1, <2>2
<1>8. NothingReplacedUnforced'
  BY <1>1, <1>2 DEF NothingReplacedUnforced, TypeOK
<1>9. LinkTargetKept'
  BY <1>1, <1>2 DEF LinkTargetKept, TypeOK
<1>10. QED
  BY <1>1, <1>2, <1>5, <1>6, <1>7, <1>8, <1>9, HoldsKeepsRivals

\* A file that is emptied is one that a path names, and --force was given.
LEMMA TruncateKeeps ==
  ASSUME IInv, NEW w \in Writers, NEW n \in Nodes, pc[w] = "ceremony", force[w],
         entry[out[w]] = File(n), Truncate(w, n), UNCHANGED <<job, meddled>>
  PROVE  IInv'
<1>1. /\ body' = [body EXCEPT ![n] = <<>>]
      /\ touched' = [touched EXCEPT ![n] = @ \cup {w}]
      /\ Holds(w, n)
      /\ UNCHANGED <<entry, mode, creator>>
  BY DEF Truncate
<1>2. n \in AllNodes /\ n # Victim
  BY DEF AllNodes
<1> USE DEF IInv, job
<1>3. creator[n] # NoNode
  BY DEF FilesMade, TypeOK
<1>4. fd' = [fd EXCEPT ![w] = n] /\ pc' = [pc EXCEPT ![w] = "opened"]
  BY <1>1 DEF Holds, Goes
<1>5. TypeOK'
  <2>1. <<>> \in Seq(Writers \cup {Someone})
    OBVIOUS
  <2>2. body' \in [AllNodes -> Seq(Writers \cup {Someone})]
    BY <1>1, <1>2, <2>1 DEF TypeOK
  <2>3. pc' \in [Writers -> {"check", "refused", "ceremony", "opened", "written", "closing",
                             "wrote", "failed", "killed"}]
    BY <1>4 DEF TypeOK
  <2>4. QED
    BY <1>1, <1>2, <2>2, <2>3, HoldsKeepsRivals DEF TypeOK
<1>6. FilesMade'
  BY <1>1, <1>2, <1>3, <1>4 DEF FilesMade, TypeOK
<1>7. DraftsSound'
  <2> SUFFICES ASSUME NEW v \in Writers, rivals'[v] = {} PROVE DraftSoFar(v)'
    BY DEF DraftsSound
  <2>1. CASE v = w
    BY <1>1, <1>2, <1>4, <2>1 DEF DraftSoFar, TypeOK
  <2>2. CASE v # w
    <3>1. rivals[v] = {} /\ fd[v] # n /\ pc'[v] = pc[v] /\ fd'[v] = fd[v]
      <4>1. rivals[v] = {} /\ fd[v] # n
        BY <1>1, <1>2, <2>2, HoldsKeepsRivals
      <4>2. pc'[v] = pc[v] /\ fd'[v] = fd[v]
        BY <1>4, <2>2 DEF TypeOK
      <4>3. QED
        BY <4>1, <4>2
    <3>2. DraftSoFar(v)
      BY <3>1 DEF DraftsSound
    <3>3. \/ body'[fd[v]] = body[fd[v]] /\ mode'[fd[v]] = mode[fd[v]]
          \/ pc[v] \notin {"opened", "written", "closing", "wrote"}
      BY <1>1, <3>1 DEF TypeOK, FileOpenedOnce, IsOpen, AllNodes
    <3>4. QED
      BY <3>1, <3>2, <3>3 DEF DraftSoFar, IsOpen, Document
  <2>3. QED
    BY <2>1, <2>2
<1>8. NothingReplacedUnforced'
  BY <1>1, <1>2 DEF NothingReplacedUnforced, TypeOK
<1>9. LinkTargetKept'
  BY <1>1, <1>2 DEF LinkTargetKept, TypeOK
<1>10. QED
  BY <1>1, <1>2, <1>5, <1>6, <1>7, <1>8, <1>9, HoldsKeepsRivals

\* A write that reports success has written the whole document.
LEMMA WriteKeeps ==
  ASSUME IInv, NEW w \in Writers, Write(w)
  PROVE  IInv'
<1>1. PICK k \in 0 .. Size[w] :
        /\ body' = [body EXCEPT ![fd[w]] = Overwritten(@, SubSeq(Document(w), 1, k))]
        /\ Goes(w, AfterWrite(k, w))
  BY DEF Write
<1>2. /\ pc[w] = "opened"
      /\ touched' = [touched EXCEPT ![fd[w]] = @ \cup {w}]
      /\ UNCHANGED <<entry, mode, creator, job, fd, rivals, meddled>>
  BY DEF Write
<1> USE DEF IInv, job
<1>3. fd[w] \in Nodes /\ fd[w] \in AllNodes /\ fd[w] # Victim /\ fd[w] # NoNode
  BY <1>2 DEF TypeOK, IsOpen, AllNodes
<1>4. AfterWrite(k, w) \in {"written", "failed"} /\ pc' = [pc EXCEPT ![w] = AfterWrite(k, w)]
  BY <1>1 DEF AfterWrite, Goes
<1>5. TypeOK'
  <2>1. body[fd[w]] \in Seq(Contents)
    BY <1>3 DEF TypeOK, Contents
  <2>2. Overwritten(body[fd[w]], SubSeq(Document(w), 1, k)) \in Seq(Contents)
    BY <2>1, PartIsSeq, OverwrittenIsSeq
  <2>3. body' \in [AllNodes -> Seq(Writers \cup {Someone})]
    BY <1>1, <1>3, <2>2 DEF TypeOK, Contents
  <2>4. pc' \in [Writers -> {"check", "refused", "ceremony", "opened", "written", "closing",
                             "wrote", "failed", "killed"}]
    BY <1>4 DEF TypeOK
  <2>5. touched' \in [AllNodes -> SUBSET Writers]
    BY <1>2, <1>3 DEF TypeOK
  <2>6. QED
    BY <1>2, <1>3, <1>4, <2>3, <2>4, <2>5 DEF TypeOK, IsOpen
<1>6. FilesMade'
  BY <1>2 DEF FilesMade
<1>7. FileOpenedOnce' /\ RivalsKnown'
  BY <1>2, <1>3, <1>4 DEF FileOpenedOnce, RivalsKnown, TypeOK, Busy, IsOpen
<1>8. DraftsSound'
  <2> SUFFICES ASSUME NEW v \in Writers, rivals[v] = {} PROVE DraftSoFar(v)'
    BY <1>2 DEF DraftsSound
  <2>1. DraftSoFar(v)
    BY DEF DraftsSound
  <2>2. CASE v = w
    <3>1. body[fd[w]] = <<>>
      BY <1>2, <2>1, <2>2 DEF DraftSoFar
    <3>2. AfterWrite(k, w) = "written" => body'[fd[w]] = Document(w)
      BY <1>1, <1>3, <3>1, WrittenWhole DEF AfterWrite, TypeOK
    <3>3. QED
      BY <1>2, <1>4, <2>1, <2>2, <3>2 DEF DraftSoFar, TypeOK, IsOpen, Document
  <2>3. CASE v # w
    <3>1. fd[v] # fd[w] \/ pc[v] \notin {"opened", "written", "closing", "wrote"}
      BY <1>2, <1>3, <2>3 DEF RivalsKnown, Busy, IsOpen
    <3>2. pc'[v] = pc[v] /\ (fd[v] # fd[w] => body'[fd[v]] = body[fd[v]]
                               \/ pc[v] \notin {"opened", "written", "closing", "wrote"})
      BY <1>1, <1>3, <1>4, <2>3 DEF TypeOK, FileOpenedOnce, IsOpen, AllNodes
    <3>3. QED
      BY <1>2, <2>1, <3>1, <3>2 DEF DraftSoFar, IsOpen, Document
  <2>4. QED
    BY <2>2, <2>3
<1>9. NothingReplacedUnforced'
  BY <1>2, <1>3 DEF NothingReplacedUnforced, FilesMade, TypeOK
<1>10. LinkTargetKept'
  BY <1>1, <1>2, <1>3 DEF LinkTargetKept, TypeOK
<1>11. QED
  BY <1>5, <1>6, <1>7, <1>8, <1>9, <1>10

\* A replaced draft is made private before its command reports it.
LEMMA ChmodKeeps ==
  ASSUME IInv, NEW w \in Writers, pc[w] = "written", Goes(w, "closing"),
         mode' = IF ChangesMode(w) THEN [mode EXCEPT ![fd[w]] = "private"] ELSE mode,
         UNCHANGED <<entry, body, creator, touched, job, fd, rivals, meddled>>
  PROVE  IInv'
<1> USE DEF IInv, job, Goes, ChangesMode
<1>1. fd[w] \in Nodes /\ fd[w] \in AllNodes /\ fd[w] # Victim /\ fd[w] # NoNode
  BY DEF TypeOK, IsOpen, AllNodes
<1>2. TypeOK'
  BY <1>1 DEF TypeOK, IsOpen
<1>3. FilesMade'
  BY DEF FilesMade
<1>4. FileOpenedOnce' /\ RivalsKnown'
  BY <1>1 DEF FileOpenedOnce, RivalsKnown, TypeOK, Busy, IsOpen
<1>5. DraftsSound'
  <2> SUFFICES ASSUME NEW v \in Writers, rivals[v] = {} PROVE DraftSoFar(v)'
    BY DEF DraftsSound
  <2>1. DraftSoFar(v)
    BY DEF DraftsSound
  <2>2. \A n \in AllNodes : mode[n] = "private" => mode'[n] = "private"
    BY <1>1 DEF TypeOK
  <2>3. CASE v = w
    BY <1>1, <2>1, <2>3 DEF DraftSoFar, TypeOK, IsOpen, Document
  <2>4. CASE v # w
    <3>1. pc'[v] = pc[v]
      BY <2>4 DEF TypeOK
    <3>2. pc[v] \in {"opened", "written", "closing", "wrote"} => fd[v] \in AllNodes
      BY DEF TypeOK, FileOpenedOnce, IsOpen, AllNodes
    <3>3. QED
      BY <2>1, <2>2, <3>1, <3>2 DEF DraftSoFar, IsOpen, Document
  <2>5. QED
    BY <2>3, <2>4
<1>6. NothingReplacedUnforced'
  BY DEF NothingReplacedUnforced
<1>7. LinkTargetKept'
  BY <1>1 DEF LinkTargetKept, TypeOK
<1>8. QED
  BY <1>2, <1>3, <1>4, <1>5, <1>6, <1>7

\* What people put at a path is a file that no writer has open.
LEMMA PlantKeeps ==
  ASSUME IInv, NEW p \in Paths, Plant(p)
  PROVE  IInv'
<1> USE DEF IInv, job
<1>1. meddled' \in 0 .. MaxMeddling /\ UNCHANGED <<job, pc, fd, rivals>>
  BY DEF Plant, TypeOK
<1>2. ASSUME NEW e \in {Directory, Link}, entry' = [entry EXCEPT ![p] = e],
             UNCHANGED <<body, mode, creator, touched>>
      PROVE  IInv'
  <2>1. TypeOK'
    BY <1>1, <1>2 DEF TypeOK, IsOpen
  <2>2. FilesMade'
    BY <1>1, <1>2 DEF FilesMade, TypeOK, File, Directory, Link
  <2>3. FileOpenedOnce' /\ RivalsKnown' /\ DraftsSound'
    BY <1>1, <1>2 DEF FileOpenedOnce, RivalsKnown, DraftsSound, DraftSoFar, Busy, IsOpen, Document
  <2>4. NothingReplacedUnforced' /\ LinkTargetKept'
    BY <1>1, <1>2 DEF NothingReplacedUnforced, LinkTargetKept
  <2>5. QED
    BY <2>1, <2>2, <2>3, <2>4
<1>3. ASSUME NEW n \in Fresh,
             entry' = [entry EXCEPT ![p] = File(n)],
             body' = [body EXCEPT ![n] = <<Someone>>],
             mode' = [mode EXCEPT ![n] = "open"],
             creator' = [creator EXCEPT ![n] = Someone],
             UNCHANGED touched
      PROVE  IInv'
  <2>1. n \in Nodes /\ n \in AllNodes /\ n # Victim /\ creator[n] = NoNode
    BY DEF Fresh, AllNodes
  <2>2. \A v \in Writers : fd[v] # n
    BY <2>1 DEF FilesMade
  <2>3. TypeOK'
    <3>1. <<Someone>> \in Seq(Writers \cup {Someone})
      OBVIOUS
    <3>2. body' \in [AllNodes -> Seq(Writers \cup {Someone})]
      BY <1>3, <2>1, <3>1 DEF TypeOK
    <3>3. QED
      BY <1>1, <1>3, <2>1, <3>2 DEF TypeOK, IsOpen
  <2>4. FilesMade'
    <3>1. \A q \in Paths : \A x \in Nodes : entry'[q] = File(x) => creator'[x] # NoNode
      BY <1>3, <2>1 DEF FilesMade, TypeOK, File
    <3>2. \A v \in Writers : fd[v] # NoNode => creator'[fd[v]] = creator[fd[v]]
      BY <1>3, <2>1, <2>2 DEF TypeOK, AllNodes
    <3>3. QED
      BY <1>1, <3>1, <3>2 DEF FilesMade
  <2>5. FileOpenedOnce' /\ RivalsKnown'
    BY <1>1 DEF FileOpenedOnce, RivalsKnown, Busy, IsOpen
  <2>6. DraftsSound'
    <3> SUFFICES ASSUME NEW v \in Writers, rivals[v] = {} PROVE DraftSoFar(v)'
      BY <1>1 DEF DraftsSound
    <3>1. DraftSoFar(v)
      BY DEF DraftsSound
    <3>2. fd[v] \in AllNodes => body'[fd[v]] = body[fd[v]] /\ mode'[fd[v]] = mode[fd[v]]
      BY <1>3, <2>1, <2>2 DEF TypeOK
    <3>3. pc[v] \in {"opened", "written", "closing", "wrote"} => fd[v] \in AllNodes
      BY DEF TypeOK, FileOpenedOnce, IsOpen, AllNodes
    <3>4. QED
      BY <1>1, <3>1, <3>2, <3>3 DEF DraftSoFar, IsOpen, Document
  <2>7. NothingReplacedUnforced'
    BY <1>1, <1>3, <2>1 DEF NothingReplacedUnforced, TypeOK
  <2>8. LinkTargetKept'
    BY <1>3, <2>1 DEF LinkTargetKept, TypeOK
  <2>9. QED
    BY <2>3, <2>4, <2>5, <2>6, <2>7, <2>8
<1>4. QED
  BY <1>2, <1>3 DEF Plant

\* What people take away is a name; the file stays with those who have it open.
LEMMA RemoveKeeps ==
  ASSUME IInv, NEW p \in Paths, Remove(p)
  PROVE  IInv'
<1> USE DEF IInv, Remove, job
<1>1. TypeOK'
  BY DEF TypeOK, IsOpen
<1>2. FilesMade'
  BY DEF FilesMade, TypeOK, File, Nothing
<1>3. FileOpenedOnce' /\ RivalsKnown' /\ DraftsSound'
  BY DEF FileOpenedOnce, RivalsKnown, DraftsSound, DraftSoFar, Busy, IsOpen, Document
<1>4. NothingReplacedUnforced' /\ LinkTargetKept'
  BY DEF NothingReplacedUnforced, LinkTargetKept
<1>5. QED
  BY <1>1, <1>2, <1>3, <1>4

\* Every step keeps the invariant.
LEMMA StepIInv == IInv /\ [Next]_vars => IInv'
<1> SUFFICES ASSUME IInv, [Next]_vars PROVE IInv'
  OBVIOUS
<1>1. ASSUME NEW w \in Writers, CheckPath(w) PROVE IInv'
  BY <1>1, ControlOnly DEF CheckPath
<1>2. ASSUME NEW w \in Writers, Open(w) PROVE IInv'
  <2>1. pc[w] = "ceremony" /\ UNCHANGED <<job, meddled>>
    BY <1>2 DEF Open
  <2>2. CASE CreateFile(w)
    BY <2>1, <2>2, CreateKeeps
  <2>3. CASE force[w] /\ \E n \in Nodes : entry[out[w]] = File(n) /\ Truncate(w, n)
    BY <2>1, <2>3, TruncateKeeps
  <2>4. CASE Fails(w)
    BY <2>1, <2>4, ControlOnly DEF Fails
  <2>5. QED
    BY <1>2, <2>2, <2>3, <2>4 DEF Open, OpenExclusive, OpenReplacing
<1>3. ASSUME NEW w \in Writers, Write(w) PROVE IInv'
  BY <1>3, WriteKeeps
<1>4. ASSUME NEW w \in Writers, Chmod(w) PROVE IInv'
  <2>1. CASE Fails(w)
    BY <1>4, <2>1, ControlOnly DEF Chmod, Fails
  <2>2. CASE ~Fails(w)
    BY <1>4, <2>2, ChmodKeeps DEF Chmod
  <2>3. QED
    BY <2>1, <2>2
<1>5. ASSUME NEW w \in Writers, Close(w) PROVE IInv'
  BY <1>5, ControlOnly DEF Close
<1>6. ASSUME NEW w \in Writers, Kill(w) PROVE IInv'
  BY <1>6, ControlOnly DEF Kill
<1>7. ASSUME NEW p \in Paths, Plant(p) PROVE IInv'
  BY <1>7, PlantKeeps
<1>8. ASSUME NEW p \in Paths, Remove(p) PROVE IInv'
  BY <1>8, RemoveKeeps
<1>9. CASE UNCHANGED vars
  <2> USE <1>9 DEF IInv, vars, files, job
  <2>1. TypeOK' /\ FilesMade' /\ FileOpenedOnce'
    BY DEF TypeOK, FilesMade, FileOpenedOnce, IsOpen
  <2>2. RivalsKnown' /\ DraftsSound'
    BY DEF RivalsKnown, DraftsSound, DraftSoFar, Busy, IsOpen, Document
  <2>3. NothingReplacedUnforced' /\ LinkTargetKept'
    BY DEF NothingReplacedUnforced, LinkTargetKept
  <2>4. QED
    BY <2>1, <2>2, <2>3
<1>10. QED
  BY <1>1, <1>2, <1>3, <1>4, <1>5, <1>6, <1>7, <1>8, <1>9 DEF Next

\* The inductive invariant holds of every reachable state.
THEOREM Invariance == Spec => []IInv
  BY InitIInv, StepIInv, PTL DEF Spec

\* Every reachable state has the declared types: in particular no command ever
\* opens the file behind a link (binding.go:612-628).
THEOREM TypeCorrect == Spec => []TypeOK
<1>1. IInv => TypeOK
  BY DEF IInv
<1>2. QED
  BY <1>1, Invariance, PTL

\* Without --force no command changes a file it did not create, whatever others
\* do to the path during its ceremony (binding.go:632-637, 642-646).
THEOREM NothingIsReplacedUnforced == Spec => []NothingReplacedUnforced
<1>1. IInv => NothingReplacedUnforced
  BY DEF IInv
<1>2. QED
  BY <1>1, Invariance, PTL

\* A draft never goes where a link points (binding.go:612-628).
THEOREM LinkTargetIsKept == Spec => []LinkTargetKept
<1>1. IInv => LinkTargetKept
  BY DEF IInv
<1>2. QED
  BY <1>1, Invariance, PTL

\* A reported draft is whole and private unless --force let two commands into one
\* file: two that may not replace never share one (binding.go:632-663).
THEOREM ReportedDraftsAreIntact == Spec => []ReportedDraftIntact
<1>1. IInv => ReportedDraftIntact
  <2> SUFFICES ASSUME IInv, NEW w \in Writers, pc[w] = "wrote",
                      \A v \in rivals[w] : ~force[v] /\ ~force[w]
               PROVE  body[fd[w]] = Document(w) /\ mode[fd[w]] = "private"
    BY DEF ReportedDraftIntact
  <2>1. rivals[w] = {}
    <3> SUFFICES ASSUME NEW v \in rivals[w] PROVE FALSE
      OBVIOUS
    <3>1. v \in Writers /\ v # w /\ fd[w] # NoNode /\ fd[v] = fd[w]
      BY DEF IInv, TypeOK, RivalsKnown
    <3>2. creator[fd[w]] = w /\ creator[fd[v]] = v
      BY <3>1 DEF IInv, FilesMade
    <3>3. QED
      BY <3>1, <3>2
  <2>2. QED
    BY <2>1 DEF IInv, DraftsSound, DraftSoFar
<1>2. QED
  BY <1>1, Invariance, PTL
=============================================================================
