--------------------------- MODULE PipelineProofs ---------------------------
(***************************************************************************)
(* Proofs about module Pipeline: for a chain of any length, EOF means that *)
(* a stage has read all of the one before it, and the outcome of Run is    *)
(* complete.                                                               *)
(***************************************************************************)
EXTENDS Pipeline, ProcessProofs

\* Stage a comes before stage b.
Follows(a, b) == \E i \in 1..(Len(Stages) - 1) : a = Stages[i] /\ b = Stages[i + 1]

\* The goroutines of the stages run between Start and Collect.
Phase ==
  /\ ppc \in {"idle", "wait", "done"}
  /\ \A p \in Procs : pc[p] = "new" <=> ppc = "idle" \/ p \notin Used

\* The stream each stage writes: the pipe to the next, the last the pipeline's
\* buffer.
WiredOut ==
  /\ ppc # "idle" => outBuf[Last] = SharedBuf
  /\ \A p \in Procs : /\ out[p] = Nil /\ (p # Last => outBuf[p] = Nil)
                      /\ dst[p] \in {Nil, IF p = Last THEN SharedBuf ELSE Stdout(p)}
                      /\ dst[p] = Nil => pc[p] \in {"new", "ready", "done"} /\ sent[p] = 0

\* The stream each stage reads: only the next stage has the pipe of a stage.
WiredIn ==
  /\ \A p, a \in Procs : Stdout(a) \in {in[p], src[p]} => Follows(a, p)
  /\ \A a, b \in Procs : Follows(a, b) =>
       /\ src[b] \in {Nil, Stdout(a)}
       /\ ppc # "idle" => in[b] = Stdout(a) /\ Stdout(a) \in pipes

\* What a stage writes reaches the next one in order, and the pipe between them
\* is closed only when the runner that writes it has returned.
Links ==
  \A a, b \in Procs : Follows(a, b) =>
    /\ Flow(a, got[b])
    /\ Stdout(a) \in closed => Returned(a)
    /\ eof[b] => Stdout(a) \in closed

\* The pipeline's buffer is the output of the last stage, and the outcome is
\* taken when nothing can change it any more.
Outcome ==
  /\ buf[SharedBuf] = Written(Last)
  /\ ppc = "done" => /\ Joined
                     /\ pout = buf[SharedBuf]
                     /\ perr = \E p \in Used : failed[p]

PipelineInv == Types /\ Phase /\ WiredOut /\ WiredIn /\ Links /\ Outcome

-----------------------------------------------------------------------------
(* The chain.                                                              *)

LEMMA StagesInProcs ==
  /\ First \in Used /\ Last \in Used /\ Used \subseteq Procs
  /\ Len(Stages) \in Nat \ {0}
BY PipelineAssumption DEF First, Last, Used

\* A stage has one stage before it and one after it at most; the first has none
\* before it and the last none after it.
LEMMA FollowsProperties ==
  ASSUME NEW a, NEW b, Follows(a, b)
  PROVE  /\ a \in Used /\ b \in Used /\ a # b /\ a # Last /\ b # First
         /\ \A c : Follows(a, c) => c = b
         /\ \A c : Follows(c, b) => c = a
<1>1. PICK i \in 1..(Len(Stages) - 1) : a = Stages[i] /\ b = Stages[i + 1]
  BY DEF Follows
<1>2. /\ i \in 1..Len(Stages) /\ i + 1 \in 1..Len(Stages)
      /\ i # i + 1 /\ i # Len(Stages) /\ i + 1 # 1
      /\ 1 \in 1..Len(Stages) /\ Len(Stages) \in 1..Len(Stages)
  BY StagesInProcs
<1>3. a \in Used /\ b \in Used /\ a # b /\ a # Last /\ b # First
  BY <1>1, <1>2, PipelineAssumption DEF Used, First, Last
<1>4. ASSUME NEW c, Follows(a, c) PROVE c = b
  <2>1. PICK j \in 1..(Len(Stages) - 1) : a = Stages[j] /\ c = Stages[j + 1]
    BY <1>4 DEF Follows
  <2>2. j \in 1..Len(Stages)
    BY <2>1, StagesInProcs
  <2>3. i = j
    BY <1>1, <1>2, <2>1, <2>2, PipelineAssumption
  <2> QED
    BY <1>1, <2>1, <2>3
<1>5. ASSUME NEW c, Follows(c, b) PROVE c = a
  <2>1. PICK j \in 1..(Len(Stages) - 1) : c = Stages[j] /\ b = Stages[j + 1]
    BY <1>5 DEF Follows
  <2>2. j + 1 \in 1..Len(Stages)
    BY <2>1, StagesInProcs
  <2>3. i + 1 = j + 1
    BY <1>1, <1>2, <2>1, <2>2, PipelineAssumption
  <2>4. i = j
    BY <2>1, <2>3, StagesInProcs
  <2> QED
    BY <1>1, <2>1, <2>4
<1> QED
  BY <1>3, <1>4, <1>5

\* Before finds the stage before one that is not the first.
LEMMA BeforeFollows == \A p \in Used \ {First} : Follows(Before(p), p)
<1> TAKE p \in Used \ {First}
<1>1. PICK j \in 1..Len(Stages) : p = Stages[j]
  BY DEF Used
<1>2. j # 1
  BY <1>1 DEF First
<1>3. j - 1 \in 1..Len(Stages) /\ j - 1 < Len(Stages) /\ (j - 1) + 1 = j
  BY <1>2, StagesInProcs
<1> DEFINE k == CHOOSE i \in 1..Len(Stages) : i < Len(Stages) /\ Stages[i + 1] = p
<1>4. k \in 1..Len(Stages) /\ k < Len(Stages) /\ Stages[k + 1] = p
  BY <1>1, <1>3
<1>5. k \in 1..(Len(Stages) - 1)
  BY <1>4, StagesInProcs
<1> QED
  BY <1>4, <1>5 DEF Before, Follows

\* What a process reads is a stream that it, or the stage before it, writes.
LEMMA ReadsOwn ==
  ASSUME Types, WiredIn, NEW p \in Procs
  PROVE  /\ src[p] # Stdout(p)
         /\ \A a, b \in Procs : Follows(a, b) /\ p # b => src[p] # Stdout(a)
BY FollowsProperties DEF WiredIn

-----------------------------------------------------------------------------
(* Before the pipeline runs, and its start.                                *)

LEMMA InitInv == Init => PipelineInv
<1> SUFFICES ASSUME Init PROVE PipelineInv
  OBVIOUS
<1>1. Types
  <2>1. pc \in [Procs -> {"new", "ready"}]
    BY DEF Init
  <2> QED
    BY <2>1, InitTypes DEF Init
<1>2. \A p \in Procs : Begun(p) = <<>> /\ Written(p) = <<>>
  BY NothingWritten DEF Init, ProcessInit, Begun, Written, WrittenTo
<1>3. Phase /\ WiredOut
  BY DEF Init, ProcessInit, Phase, WiredOut
<1>4. WiredIn
  BY StreamsDiffer DEF Init, ProcessInit, WiredIn
<1>5. Links
  BY <1>2, StreamsDiffer, ConcatEmptySeq DEF Init, ProcessInit, Links, Flow
<1>6. Outcome
  BY <1>2, StagesInProcs, StreamsDiffer DEF Init, ProcessInit, Outcome
<1> QED
  BY <1>1, <1>3, <1>4, <1>5, <1>6 DEF PipelineInv

\* Without a step of a process nothing that it has written or read changes.
LEMMA LinksUnchanged ==
  ASSUME Links, Types,
         UNCHANGED <<closed, offer, sent, got, eof>>,
         \A p \in Procs : /\ pc'[p] = "writing" <=> pc[p] = "writing"
                          /\ Returned(p) => Returned(p)'
  PROVE  Links'
<1> SUFFICES ASSUME NEW a \in Procs, NEW b \in Procs, Follows(a, b)
             PROVE  /\ Flow(a, got[b])'
                    /\ Stdout(a) \in closed' => Returned(a)'
                    /\ eof'[b] => Stdout(a) \in closed'
  BY DEF Links
<1>1. Flow(a, got[b])
  BY DEF Links
<1>2. closed' = closed /\ offer' = offer /\ sent' = sent /\ got' = got /\ eof' = eof
  OBVIOUS
<1>3. Begun(a)' = Begun(a)
  BY <1>2 DEF Begun
<1>4. Flow(a, got[b])'
  BY <1>1, <1>2, <1>3 DEF Flow
<1> QED
  BY <1>2, <1>4 DEF Links

\* A setter called before Run.
LEMMA PrepareInv == PipelineInv /\ Prepare => PipelineInv'
<1> SUFFICES ASSUME PipelineInv, Prepare PROVE PipelineInv'
  OBVIOUS
<1>1. First \in Procs /\ Last \in Procs /\ ppc = "idle" /\ UNCHANGED <<ppc, pout, perr>>
  BY StagesInProcs DEF Prepare
<1>2. SetStdin(First, File) \/ CaptureStdout(Last)
  BY DEF Prepare
<1>3. Types'
  BY <1>1, <1>2, SetterTypes DEF PipelineInv
<1>4. UNCHANGED <<pc, src, dst, sent, got, eof, out, failed, pipes, closed, offer, buf>>
  BY <1>2 DEF SetStdin, CaptureStdout, io, run, seen
<1>5. Phase'
  BY <1>1, <1>4 DEF PipelineInv, Phase
<1>6. WiredOut'
  BY <1>1, <1>2, <1>4, StreamsDiffer
  DEF PipelineInv, WiredOut, Types, FieldTypes, SetStdin, CaptureStdout
<1>7. WiredIn'
  <2>1. \A p \in Procs : in'[p] \in {in[p], File}
    BY <1>2 DEF PipelineInv, Types, FieldTypes, SetStdin, CaptureStdout
  <2> QED
    BY <1>1, <1>4, <2>1, StreamsDiffer DEF PipelineInv, WiredIn
<1>8. Links'
  BY <1>4, LinksUnchanged DEF PipelineInv, Returned
<1>9. Outcome'
  BY <1>1, <1>4 DEF PipelineInv, Outcome, Written
<1> QED
  BY <1>3, <1>5, <1>6, <1>7, <1>8, <1>9 DEF PipelineInv

\* Run connects the stages and starts their goroutines.
LEMMA StartInv == PipelineInv /\ Start => PipelineInv'
<1> SUFFICES ASSUME PipelineInv, Start PROVE PipelineInv'
  OBVIOUS
<1>1. /\ ppc = "idle" /\ ppc' = "wait" /\ Last \in Procs
      /\ \A p \in Procs : pc[p] = "new" /\ pc'[p] = IF p \in Used THEN "ready" ELSE "new"
  BY StagesInProcs DEF Start, PipelineInv, Phase
<1>2. UNCHANGED <<closed, offer, buf, out, src, dst, sent, got, eof, failed, result>>
  BY DEF Start, seen
<1>3. /\ outBuf' = [outBuf EXCEPT ![Last] = SharedBuf]
      /\ pipes' = pipes \cup {Stdout(p) : p \in Used \ {Last}}
      /\ in' = [p \in Procs |-> IF p \in Used \ {First} THEN Stdout(Before(p)) ELSE in[p]]
  BY DEF Start, LastBuf
<1>4. \A p \in Used \ {First} : /\ Follows(Before(p), p) /\ Before(p) \in Procs
                                /\ Stdout(Before(p)) \in pipes'
  BY <1>3, BeforeFollows, FollowsProperties, StagesInProcs
<1>5. Types'
  <2>1. StreamTypes'
    BY <1>2, <1>3, StreamsDiffer, StagesInProcs DEF PipelineInv, Types, StreamTypes
  <2>2. FieldTypes'
    BY <1>1, <1>2, <1>3, <1>4, StreamsDiffer DEF PipelineInv, Types, FieldTypes
  <2>3. RunnerTypes'
    <3>1. pc' = [p \in Procs |-> IF p \in Used THEN "ready" ELSE pc[p]]
      BY DEF Start
    <3> QED
      BY <1>1, <1>2, <3>1 DEF PipelineInv, Types, RunnerTypes
  <2>4. GoroutineTypes'
    BY TypesUnchanged DEF PipelineInv, Types, Start
  <2> QED
    BY <2>1, <2>2, <2>3, <2>4 DEF Types
<1>6. Phase'
  BY <1>1 DEF Phase
<1>7. WiredOut'
  BY <1>1, <1>2, <1>3 DEF PipelineInv, WiredOut, Types, FieldTypes
<1>8. WiredIn'
  <2>1. \A p, a \in Procs : Stdout(a) \in {in'[p], src'[p]} => Follows(a, p)
    BY <1>2, <1>3, <1>4, StreamsDiffer DEF PipelineInv, WiredIn
  <2>2. \A a, b \in Procs : Follows(a, b) => /\ src'[b] \in {Nil, Stdout(a)}
                                             /\ in'[b] = Stdout(a) /\ Stdout(a) \in pipes'
    <3> SUFFICES ASSUME NEW a \in Procs, NEW b \in Procs, Follows(a, b)
                 PROVE  /\ src'[b] \in {Nil, Stdout(a)}
                        /\ in'[b] = Stdout(a) /\ Stdout(a) \in pipes'
      OBVIOUS
    <3>1. b \in Used \ {First} /\ Before(b) = a
      BY FollowsProperties, BeforeFollows
    <3> QED
      BY <1>2, <1>3, <1>4, <3>1 DEF PipelineInv, WiredIn
  <2> QED
    BY <2>1, <2>2 DEF WiredIn
<1>9. Links'
  BY <1>1, <1>2, LinksUnchanged DEF PipelineInv, Returned
<1>10. Outcome'
  BY <1>1, <1>2 DEF PipelineInv, Outcome, Written
<1> QED
  BY <1>5, <1>6, <1>7, <1>8, <1>9, <1>10 DEF PipelineInv

-----------------------------------------------------------------------------
(* The steps of the stages.                                                *)

\* A step of Run or of its runner changes its own process only.
LEMMA RunningFrame ==
  ASSUME Types, NEW p \in Procs, Running(p)
  PROVE  /\ UNCHANGED out
         /\ pipes \subseteq pipes' /\ pc'[p] # "new" /\ pc[p] # "new" /\ pc[p] # "done"
         /\ (Returned(p) => Returned(p)')
         /\ \A q \in Procs \ {p} : /\ pc'[q] = pc[q] /\ dst'[q] = dst[q] /\ src'[q] = src[q]
                                   /\ in'[q] = in[q] /\ outBuf'[q] = outBuf[q]
                                   /\ sent'[q] = sent[q] /\ got'[q] = got[q]
                                   /\ eof'[q] = eof[q] /\ failed'[q] = failed[q]
<1> USE DEF Types, FieldTypes, RunnerTypes, Returned
<1>1. CASE RunFails(p)
  BY <1>1 DEF RunFails, io, fields, seen
<1>2. CASE RunStart(p)
  BY <1>2 DEF RunStart, seen
<1>3. CASE RunCloses(p)
  BY <1>3 DEF RunCloses, fields, seen
<1>4. CASE BeginRead(p)
  BY <1>4 DEF BeginRead, io, fields, seen
<1>5. CASE Read(p)
  BY <1>5 DEF Read, fields
<1>6. CASE ReadEOF(p)
  BY <1>6 DEF ReadEOF, io, fields
<1>7. CASE WriteOut(p)
  BY <1>7 DEF WriteOut, fields, run
<1>8. CASE BeginWrite(p)
  BY <1>8 DEF BeginWrite, fields, seen
<1>9. CASE EndWrite(p)
  BY <1>9 DEF EndWrite, io, fields
<1>10. CASE \E err \in BOOLEAN : Return(p, err)
  BY <1>10 DEF Return, io, fields, seen
<1>11. CASE RunEnd(p)
  BY <1>11 DEF RunEnd, io, fields, seen
<1> QED
  BY <1>1, <1>2, <1>3, <1>4, <1>5, <1>6, <1>7, <1>8, <1>9, <1>10, <1>11 DEF Running

\* A stage runs with the streams that Run has connected.
LEMMA RunningWired ==
  ASSUME PipelineInv, NEW p \in Procs, Running(p), UNCHANGED ppc
  PROVE  Phase' /\ WiredOut' /\ WiredIn'
<1>1. Types /\ Phase /\ WiredOut /\ WiredIn
  BY DEF PipelineInv
<1>2. pc[p] # "new" /\ ppc # "idle" /\ p \in Used
  BY <1>1, RunningFrame DEF Phase
<1>3. Phase'
  BY <1>1, <1>2, RunningFrame DEF Phase
<1>4. CASE RunStart(p)
  <2>1. /\ pc[p] = "ready" /\ pc'[p] = "run" /\ sent' = sent
        /\ src'[p] = ChosenIn(p) /\ in'[p] = ChosenIn(p)
        /\ dst'[p] = ChosenOut(p) /\ outBuf'[p] = KeptBuf(p)
    BY <1>1, <1>4 DEF RunStart, Types, FieldTypes, RunnerTypes, seen
  <2>2. ASSUME p = Last PROVE WiredOut'
    <3>1. ChosenOut(p) = SharedBuf /\ KeptBuf(p) = SharedBuf
      BY <1>1, <1>2, <2>2, StreamsDiffer DEF WiredOut, ChosenOut, KeptBuf
    <3> QED
      BY <1>1, <1>2, <2>1, <2>2, <3>1, RunningFrame, StreamsDiffer DEF WiredOut
  <2>3. ASSUME p # Last PROVE WiredOut'
    <3>1. PICK i \in 1..Len(Stages) : p = Stages[i]
      BY <1>2 DEF Used
    <3>2. i \in 1..(Len(Stages) - 1) /\ i + 1 \in 1..Len(Stages)
      BY <2>3, <3>1, StagesInProcs DEF Last
    <3>3. Follows(p, Stages[i + 1]) /\ Stages[i + 1] \in Procs
      BY <3>1, <3>2, PipelineAssumption DEF Follows
    <3>4. Stdout(p) \in pipes /\ out[p] = Nil /\ outBuf[p] = Nil
      BY <1>1, <1>2, <2>3, <3>3 DEF WiredIn, WiredOut
    <3>5. ChosenOut(p) = Stdout(p) /\ KeptBuf(p) = Nil
      BY <3>4, StreamsDiffer DEF ChosenOut, KeptBuf
    <3> QED
      BY <1>1, <1>2, <2>1, <2>3, <3>5, RunningFrame, StreamsDiffer, StagesInProcs DEF WiredOut
  <2>4. ChosenIn(p) = IF in[p] = Nil THEN Stdin(p) ELSE in[p]
    BY DEF ChosenIn
  <2>5. WiredIn'
    BY <1>1, <1>2, <2>1, <2>4, RunningFrame, StreamsDiffer DEF WiredIn
  <2> QED
    BY <1>3, <2>2, <2>3, <2>5
<1>5. CASE ~RunStart(p)
  <2>1. UNCHANGED <<in, outBuf, src, dst, pipes>>
    BY <1>5 DEF Running, RunFails, RunCloses, RunEnd, BeginRead, Read, ReadEOF, WriteOut,
                BeginWrite, EndWrite, Return, io, fields, run
  <2>2. dst[p] = Nil => pc'[p] \in {"new", "ready", "done"} /\ sent'[p] = 0
    BY <1>1, <1>5
    DEF Running, RunFails, RunCloses, RunEnd, BeginRead, Read, ReadEOF, WriteOut,
        BeginWrite, EndWrite, Return, WiredOut, Types, RunnerTypes, seen
  <2>3. WiredOut'
    BY <1>1, <2>1, <2>2, RunningFrame DEF WiredOut
  <2>4. WiredIn'
    BY <1>1, <2>1 DEF WiredIn
  <2> QED
    BY <1>3, <2>3, <2>4
<1> QED
  BY <1>4, <1>5

\* A pipe is closed by the process that writes it, whose runner has returned.
LEMMA RunningCloses ==
  ASSUME PipelineInv, NEW p \in Procs, Running(p), NEW a \in Procs
  PROVE  /\ closed \subseteq closed'
         /\ Stdout(a) \in closed' \ closed => a = p /\ Returned(a)'
<1>1. CASE RunCloses(p)
  <2>1. closed' = closed \cup ClosedAtEnd(p) /\ Returned(p)'
    BY <1>1 DEF RunCloses, PipelineInv, Types, RunnerTypes, Returned
  <2> QED
    BY <2>1, StreamsDiffer DEF ClosedAtEnd
<1>2. CASE ~RunCloses(p)
  <2>1. closed' = closed
    BY <1>2 DEF Running, RunFails, RunStart, RunEnd, BeginRead, Read, ReadEOF, WriteOut,
                BeginWrite, EndWrite, Return, io
  <2> QED
    BY <2>1
<1> QED
  BY <1>1, <1>2

\* What the reader of a pipe has read and what the pipe offers are together
\* the same after a read.
LEMMA ReaderFlow ==
  ASSUME PipelineInv, NEW a \in Procs, NEW b \in Procs, Follows(a, b), Running(b)
  PROVE  Flow(a, got[b])' /\ (eof'[b] => Stdout(a) \in closed')
<1>1. /\ Types /\ Flow(a, got[b]) /\ (eof[b] => Stdout(a) \in closed)
      /\ src[b] \in {Nil, Stdout(a)} /\ a # b
  BY FollowsProperties DEF PipelineInv, Links, WiredIn
<1>2. /\ pc'[a] = pc[a] /\ sent'[a] = sent[a] /\ Begun(a)' = Begun(a)
      /\ closed \subseteq closed'
  BY <1>1, RunningFrame, RunningCloses DEF Begun
<1>3. CASE Read(b)
  <2>1. src[b] = Stdout(a)
    BY <1>1, <1>3, StreamsDiffer DEF Read, Takes, Types, StreamTypes
  <2>2. /\ got'[b] = got[b] \o offer[Stdout(a)] /\ offer'[Stdout(a)] = <<>>
        /\ eof' = eof
    BY <1>1, <1>3, <2>1, StreamsDiffer
    DEF Read, Withdraw, Types, StreamTypes, RunnerTypes
  <2>3. got'[b] \in Seq(Msgs)
    BY <1>1, RunningTypes DEF Types, RunnerTypes
  <2>4. got'[b] \o offer'[Stdout(a)] = got[b] \o offer[Stdout(a)]
    BY <2>2, <2>3, ConcatEmptySeq
  <2> QED
    BY <1>1, <1>2, <2>2, <2>4 DEF Flow
<1>4. CASE ReadEOF(b)
  <2>1. UNCHANGED <<got, offer, closed>> /\ Stdout(a) \in closed
    BY <1>1, <1>4, StreamsDiffer DEF ReadEOF, Ends, Types, StreamTypes, io
  <2> QED
    BY <1>1, <1>2, <2>1 DEF Flow
<1>5. CASE ~Read(b) /\ ~ReadEOF(b)
  <2>1. UNCHANGED <<got, eof>>
    BY <1>5 DEF Running, RunFails, RunStart, RunCloses, RunEnd, BeginRead, WriteOut,
                BeginWrite, EndWrite, Return, seen
  <2>2. offer'[Stdout(a)] = offer[Stdout(a)]
    <3>1. CASE BeginWrite(b)
      <4>1. dst[b] \in {Nil, File, Stdout(b), Buf(b), SharedBuf} /\ dst[b] \in Pipes
        BY <1>1, <3>1 DEF BeginWrite, Types, FieldTypes
      <4>2. dst[b] = Stdout(b)
        BY <4>1, StreamsDiffer
      <4> QED
        BY <1>1, <3>1, <4>2, StreamsDiffer DEF BeginWrite, Offers, Types, StreamTypes
    <3>2. CASE ~BeginWrite(b)
      BY <1>5, <3>2 DEF Running, RunFails, RunStart, RunCloses, RunEnd, BeginRead,
                        WriteOut, EndWrite, Return, io
    <3> QED
      BY <3>1, <3>2
  <2> QED
    BY <1>1, <1>2, <2>1, <2>2 DEF Flow
<1> QED
  BY <1>3, <1>4, <1>5

\* A step of a stage keeps every pipe of the chain.
LEMMA RunningLinks ==
  ASSUME PipelineInv, NEW p \in Procs, Running(p)
  PROVE  Links'
<1> SUFFICES ASSUME NEW a \in Procs, NEW b \in Procs, Follows(a, b)
             PROVE  /\ Flow(a, got[b])'
                    /\ Stdout(a) \in closed' => Returned(a)'
                    /\ eof'[b] => Stdout(a) \in closed'
  BY DEF Links
<1>1. /\ Types /\ WiredOut /\ WiredIn /\ a # b /\ a # Last
      /\ Flow(a, got[b]) /\ (eof[b] => Stdout(a) \in closed)
      /\ (Stdout(a) \in closed => Returned(a))
  BY FollowsProperties DEF PipelineInv, Links
<1>2. Stdout(a) \in closed' => Returned(a)'
  BY <1>1, RunningFrame, RunningCloses DEF Returned
<1>3. CASE p = b
  BY <1>2, <1>3, ReaderFlow
<1>4. CASE p = a
  <2>1. /\ src[a] # Stdout(a) /\ dst[a] \in {Nil, Stdout(a)}
        /\ (dst[a] = Nil => pc[a] \in {"new", "ready", "done"})
    BY <1>1, ReadsOwn DEF WiredOut
  <2>2. got'[b] = got[b] /\ eof'[b] = eof[b] /\ closed \subseteq closed'
    BY <1>1, <1>4, RunningFrame, RunningCloses
  <2> PICK r \in Seq(Msgs) : r = got[b]
    BY <1>1 DEF Types, RunnerTypes
  <2>3. Flow(a, r)
    BY <1>1
  <2>4. Flow(a, r)'
    BY <1>1, <1>4, <2>1, <2>3, RunningFlow
  <2> QED
    BY <1>1, <1>2, <2>2, <2>4 DEF Flow
<1>5. CASE p # a /\ p # b
  <2>1. Leaves(a)
    BY <1>1, <1>5, ReadsOwn, RunningLeavesOthers
  <2>2. got'[b] = got[b] /\ eof'[b] = eof[b] /\ closed \subseteq closed'
    BY <1>1, <1>5, RunningFrame, RunningCloses
  <2> QED
    BY <1>1, <1>2, <2>1, <2>2 DEF Leaves, Flow, Begun
<1> QED
  BY <1>3, <1>4, <1>5

\* The pipeline's buffer is written by the last stage only, and nothing runs
\* any more once the outcome is taken.
LEMMA RunningOutcome ==
  ASSUME PipelineInv, NEW p \in Procs, Running(p), UNCHANGED <<ppc, perr, pout>>
  PROVE  Outcome'
<1>1. Types /\ Phase /\ WiredOut /\ Outcome /\ Last \in Procs
  BY StagesInProcs DEF PipelineInv
<1>2. ppc # "done"
  BY <1>1, RunningFrame DEF Phase, Outcome, Joined
<1>3. buf'[SharedBuf] = Written(Last)'
  <2>1. CASE WriteOut(p)
    <3>1. /\ sent'[p] = sent[p] + 1 /\ dst[p] # Nil
          /\ \A q \in Procs \ {p} : sent'[q] = sent[q]
          /\ buf'[SharedBuf] = IF dst[p] = SharedBuf
                               THEN Append(buf[SharedBuf], OutMsg(p, sent[p] + 1))
                               ELSE buf[SharedBuf]
      BY <1>1, <2>1, StreamsDiffer DEF WriteOut, Types, RunnerTypes, WiredOut
    <3>2. dst[p] = SharedBuf <=> p = Last
      BY <1>1, <2>1, <3>1, StreamsDiffer DEF WriteOut, WiredOut
    <3>3. CASE p = Last
      <4>1. /\ Written(Last)' = WrittenTo(Last, sent[Last] + 1)
            /\ buf'[SharedBuf] = Append(Written(Last), OutMsg(Last, sent[Last] + 1))
        BY <1>1, <3>1, <3>2, <3>3 DEF Outcome, Written, WrittenTo
      <4>2. Append(Written(Last), OutMsg(Last, sent[Last] + 1)) = WrittenTo(Last, sent[Last] + 1)
        BY <1>1, BegunProperties
      <4> QED
        BY <4>1, <4>2, Zenon
    <3>4. CASE p # Last
      BY <1>1, <3>1, <3>2, <3>4 DEF Outcome, Written
    <3> QED
      BY <3>3, <3>4
  <2>2. CASE EndWrite(p)
    <3>1. p # Last
      BY <1>1, <2>2, StreamsDiffer DEF EndWrite, Types, RunnerTypes, WiredOut
    <3> QED
      <4>1. buf' = buf /\ sent'[Last] = sent[Last]
        BY <1>1, <2>2, <3>1 DEF EndWrite, Types, RunnerTypes, io
      <4>2. Written(Last)' = Written(Last)
        BY <4>1 DEF Written
      <4> QED
        BY <1>1, <4>1, <4>2 DEF Outcome
  <2>3. CASE ~WriteOut(p) /\ ~EndWrite(p)
    <3>1. UNCHANGED <<buf, sent>>
      BY <2>3 DEF Running, RunFails, RunStart, RunCloses, RunEnd, BeginRead, Read, ReadEOF,
                  BeginWrite, Return, io, seen
    <3> QED
      BY <1>1, <3>1 DEF Outcome, Written
  <2> QED
    BY <2>1, <2>2, <2>3
<1> QED
  BY <1>2, <1>3 DEF Outcome

\* The goroutine that feeds the first stage touches its stdin pipe only.
LEMMA FeedingInv ==
  ASSUME PipelineInv, NEW p \in Procs, Feeding(p), UNCHANGED <<ppc, perr, pout>>
  PROVE  PipelineInv'
<1>1. Types /\ Phase /\ WiredOut /\ WiredIn /\ Links /\ Outcome
  BY DEF PipelineInv
<1>2. UNCHANGED <<pc, src, dst, sent, got, eof, failed, out, outBuf, buf>>
  BY DEF Feeding, Write, WriteReturns, Close, fields, run, seen
<1>3. \A a \in Procs : /\ offer'[Stdout(a)] = offer[Stdout(a)]
                       /\ Stdout(a) \in closed' <=> Stdout(a) \in closed
  <2>1. closed' \in {closed, closed \cup StdinWriter(p)}
    BY DEF Feeding, Write, WriteReturns, Close
  <2> QED
    BY <1>1, <2>1, FeedingLeaves, StreamsDiffer DEF StdinWriter, Leaves
<1>4. /\ pipes \subseteq pipes'
      /\ \A q \in Procs : in'[q] = in[q] \/ (in'[q] = Stdin(q) /\ q = p /\ p \in Fed)
  BY <1>1 DEF Feeding, Write, WriteReturns, Close, fields, Types, FieldTypes
<1>5. Phase' /\ WiredOut'
  BY <1>1, <1>2 DEF Phase, WiredOut
<1>6. WiredIn'
  <2>1. \A a, b \in Procs : Follows(a, b) => in'[b] = in[b]
    BY <1>4, FollowsProperties, FeedAssumption
  <2> QED
    BY <1>1, <1>2, <1>4, <2>1, StreamsDiffer DEF WiredIn
<1>7. Links'
  <2>1. \A a, b \in Procs : Flow(a, got[b]) => Flow(a, got[b])'
    BY <1>2, <1>3 DEF Flow, Begun
  <2> QED
    BY <1>1, <1>2, <1>3, <2>1 DEF Links, Returned
<1>8. Outcome'
  BY <1>1, <1>2 DEF Outcome, Joined, Written
<1> QED
  BY <1>1, <1>5, <1>6, <1>7, <1>8, GoroutineStepTypes DEF PipelineInv

\* A runner that gives up on a cancelled context leaves its streams alone.
LEMMA CancelledInv ==
  ASSUME PipelineInv, NEW p \in Procs, Cancelled(p)
  PROVE  PipelineInv'
<1>1. Types /\ Phase /\ WiredOut /\ WiredIn /\ Links /\ Outcome
  BY DEF PipelineInv
<1>2. /\ pc[p] = "run" /\ pc'[p] = "exit" /\ \A q \in Procs \ {p} : pc'[q] = pc[q]
      /\ UNCHANGED <<io, fields, src, dst, sent, got, eof, ppc, perr, pout>>
  BY <1>1 DEF Cancelled, Types, RunnerTypes, seen
<1>3. Types'
  <2>1. RunnerTypes'
    BY <1>1 DEF Cancelled, Types, RunnerTypes, seen
  <2> QED
    BY <1>1, <2>1, TypesUnchanged DEF Cancelled, Types, io
<1>4. Phase' /\ WiredOut' /\ WiredIn'
  BY <1>1, <1>2 DEF Phase, WiredOut, WiredIn, io, fields
<1>5. Links'
  BY <1>1, <1>2, LinksUnchanged DEF io, Returned
<1>6. Outcome'
  <2>1. ppc # "done"
    BY <1>1, <1>2 DEF Outcome, Joined, Phase
  <2> QED
    BY <1>1, <1>2, <2>1 DEF Outcome, Written, io
<1> QED
  BY <1>3, <1>4, <1>5, <1>6 DEF PipelineInv

\* Steps that leave the processes alone: the outcome is collected, the deadline
\* comes.
LEMMA CallerInv ==
  ASSUME PipelineInv, Collect \/ Expire \/ UNCHANGED vars
  PROVE  PipelineInv'
<1>1. Types /\ Phase /\ WiredOut /\ WiredIn /\ Links /\ Outcome
  BY DEF PipelineInv
<1>2. UNCHANGED <<io, fields, run, seen, feeder, tailer>>
  BY DEF Collect, Expire, vars, pvars
<1>3. UNCHANGED <<pipes, closed, offer, buf, in, out, outBuf, pc, src, dst, sent, got, eof,
                  failed, result>>
  BY <1>2 DEF io, fields, run, seen
<1>4. ppc' \in {"idle", "wait", "done"} /\ (ppc' = "idle" <=> ppc = "idle")
  BY <1>1 DEF Collect, Expire, vars, Phase
<1>5. Types'
  BY <1>1, <1>2, <1>3, TypesUnchanged DEF Types
<1>6. Phase' /\ WiredOut' /\ WiredIn'
  BY <1>1, <1>3, <1>4 DEF Phase, WiredOut, WiredIn
<1>7. Links'
  BY <1>1, <1>3, LinksUnchanged DEF Returned
<1>8. Outcome'
  <2>1. Joined' = Joined /\ Written(Last)' = Written(Last)
    BY <1>3 DEF Joined, Written
  <2> QED
    BY <1>1, <1>3, <2>1 DEF Outcome, Collect, Expire, vars
<1> QED
  BY <1>5, <1>6, <1>7, <1>8 DEF PipelineInv

-----------------------------------------------------------------------------
(* The theorems.                                                           *)

\* The inductive invariant: the stages are wired in a chain, each pipe carries
\* what its writer has begun to write, and the pipeline's buffer is the output
\* of the last stage.
THEOREM PipelineInvariant == Spec => []PipelineInv
<1>1. PipelineInv /\ [Next]_vars => PipelineInv'
  <2> SUFFICES ASSUME PipelineInv, [Next]_vars PROVE PipelineInv'
    OBVIOUS
  <2>1. ASSUME NEW p \in Procs, Running(p), UNCHANGED <<ppc, expired, perr, pout>>
        PROVE  PipelineInv'
    BY <2>1, RunningTypes, RunningWired, RunningLinks, RunningOutcome DEF PipelineInv
  <2>2. ASSUME NEW p \in Procs, Feeding(p), UNCHANGED <<ppc, expired, perr, pout>>
        PROVE  PipelineInv'
    BY <2>2, FeedingInv
  <2>3. ASSUME NEW p \in Procs, Stage(p) PROVE PipelineInv'
    BY <2>1, <2>2, <2>3, CancelledInv DEF Stage
  <2> QED
    BY <2>3, PrepareInv, StartInv, CallerInv DEF Next
<1> QED
  BY <1>1, InitInv, PTL DEF Spec

\* A stage of a Pipeline sees EOF on its stdin only when the runner of the stage
\* before it has returned and all its output has been read, in order: data never
\* comes after EOF and EOF never hides data, in a chain of any length.
THEOREM EOFIsMeant == Spec => []EOFMeansAll
<1>1. PipelineInv => EOFMeansAll
  <2> SUFFICES ASSUME PipelineInv, NEW i \in 1..(Len(Stages) - 1), eof[Stages[i + 1]]
               PROVE  /\ Returned(Stages[i])
                      /\ got[Stages[i + 1]] = Written(Stages[i])
    BY DEF EOFMeansAll
  <2> DEFINE a == Stages[i]
             b == Stages[i + 1]
  <2>1. Follows(a, b)
    BY DEF Follows
  <2>2. a \in Procs /\ b \in Procs
    BY <2>1, FollowsProperties, StagesInProcs
  <2>3. Returned(a) /\ Flow(a, got[b])
    BY <2>1, <2>2 DEF PipelineInv, Links
  <2>4. got[b] \o <<>> = Written(a) /\ got[b] \in Seq(Msgs)
    BY <2>2, <2>3, BegunProperties DEF PipelineInv, Types, RunnerTypes, Flow, Returned
  <2> QED
    BY <2>3, <2>4, ConcatEmptySeq
<1> QED
  BY <1>1, PipelineInvariant, PTL

\* When Pipeline.Run returns, PipelineResult.Stdout is all that the last stage
\* wrote, and Err is there iff a stage failed, early or late.
THEOREM OutcomeIsComplete == Spec => []OutcomeComplete
<1>1. PipelineInv => OutcomeComplete
  BY DEF PipelineInv, Outcome, OutcomeComplete
<1> QED
  BY <1>1, PipelineInvariant, PTL
=============================================================================
