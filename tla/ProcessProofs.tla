--------------------------- MODULE ProcessProofs ----------------------------
(***************************************************************************)
(* Proofs about module Process: its types, and that the output of a runner *)
(* is not lost, for any number of processes and messages.                  *)
(***************************************************************************)
EXTENDS Process, SequenceTheorems, TLAPS

\* What a pipe may offer.
Offered == {<<>>} \cup {<<m>> : m \in Msgs}

\* The streams that exist and the messages in them.
StreamTypes ==
  /\ pipes \subseteq Pipes /\ closed \subseteq pipes
  /\ offer \in [Pipes -> Offered]
  /\ \A s \in Pipes : offer[s] # <<>> => s \in pipes
  /\ \A p \in Procs : offer[Stdout(p)] \in Seq(OutMsgs)
  /\ buf \in [Bufs -> Seq(OutMsgs)]

\* The streams a process is given and the streams its runner got.
FieldTypes ==
  /\ in \in [Procs -> pipes \cup {File, Nil}]
  /\ out \in [Procs -> {File, Nil}]
  /\ outBuf \in [Procs -> Bufs \cup {Nil}]
  /\ \A p \in Procs : outBuf[p] \in {Nil, Buf(p), SharedBuf}
  /\ src \in [Procs -> pipes \cup {File, Nil}]
  /\ dst \in [Procs -> Streams]
  /\ \A p \in Procs : /\ dst[p] \in {Nil, File, Stdout(p), Buf(p), SharedBuf}
                      /\ dst[p] = Stdout(p) => Stdout(p) \in pipes

\* The runner and what it has read and written.
RunnerTypes ==
  /\ pc \in [Procs -> {"new", "ready", "run", "reading", "writing", "exit", "closed", "done"}]
  /\ sent \in [Procs -> 0..MaxOut]
  /\ \A p \in Procs : /\ pc[p] = "writing" => sent[p] < MaxOut /\ dst[p] = Stdout(p)
                      /\ pc[p] \in {"new", "ready"} => dst[p] = Nil
  /\ got \in [Procs -> Seq(Msgs)]
  /\ eof \in [Procs -> BOOLEAN] /\ failed \in [Procs -> BOOLEAN]
  /\ result \in [Procs -> Seq(OutMsgs)]

\* The goroutines around it; a pending Write is not acknowledged yet.
GoroutineTypes ==
  /\ wpc \in [Procs -> {"idle", "writing", "done"}]
  /\ tried \in [Procs -> 0..MaxIn] /\ acked \in [Procs -> 0..MaxIn]
  /\ \A p \in Procs : /\ acked[p] <= tried[p]
                      /\ wpc[p] = "writing" => acked[p] < tried[p]
  /\ tail \in [Procs -> Seq(OutMsgs)] /\ tailEOF \in [Procs -> BOOLEAN]

Types == StreamTypes /\ FieldTypes /\ RunnerTypes /\ GoroutineTypes

\* The messages up to the n-th, and those whose write has begun.
WrittenTo(p, n) == [k \in 1..n |-> OutMsg(p, k)]
Begun(p) == WrittenTo(p, IF pc[p] = "writing" THEN sent[p] + 1 ELSE sent[p])

\* A reader that has read r of the stdout pipe of p: r and what is on offer is
\* all that p has begun to write, and nothing is on offer between the writes.
Flow(p, r) ==
  /\ r \o offer[Stdout(p)] = Begun(p)
  /\ pc[p] # "writing" => offer[Stdout(p)] = <<>>

\* Before its runner starts a process has written nothing.
Untouched(p) ==
  /\ pc[p] \in {"ready", "done"}
  /\ sent[p] = 0 /\ result[p] = <<>> /\ tail[p] = <<>>
  /\ offer[Stdout(p)] = <<>> /\ buf[Buf(p)] = <<>>

\* Where the output of p is, by the stream its runner got: a capture buffer is
\* kept in p.outBuf and holds all of it; a pipe is read by p's reader only.
Kept(p) ==
  /\ dst[p] = Nil => Untouched(p)
  /\ dst[p] # Stdout(p) => offer[Stdout(p)] = <<>>
  /\ dst[p] = Stdout(p) => Flow(p, tail[p])
  /\ dst[p] = Buf(p) => /\ outBuf[p] = Buf(p) /\ buf[Buf(p)] = Written(p)
                        /\ pc[p] = "done" => result[p] = Written(p)

\* In a process that is run on its own nobody else has its streams.
Own(p) ==
  /\ in[p] \in {Stdin(p), File, Nil} /\ src[p] \in {Stdin(p), File, Nil}
  /\ outBuf[p] \in {Nil, Buf(p)} /\ dst[p] # SharedBuf

StandaloneInv == Types /\ \A p \in Procs : Own(p) /\ Kept(p)

-----------------------------------------------------------------------------
(* Streams and messages.                                                   *)

\* The streams of two processes, and the streams given from outside, are not
\* the same: what one process closes or writes is not another's.
LEMMA StreamsDiffer ==
  /\ {File, Nil} \cap (Pipes \cup Bufs) = {} /\ File # Nil
  /\ SharedBuf \in Bufs /\ SharedBuf \notin Pipes
  /\ \A p \in Procs : /\ Stdin(p) \in Pipes /\ Stdout(p) \in Pipes
                      /\ Buf(p) \in Bufs /\ Buf(p) \notin Pipes /\ Buf(p) # SharedBuf
  /\ \A p, q \in Procs : /\ Stdin(p) # Stdout(q)
                         /\ p # q => /\ Stdin(p) # Stdin(q) /\ Stdout(p) # Stdout(q)
                                     /\ Buf(p) # Buf(q)
BY StreamAssumption DEF Pipes, Bufs, Stdin, Stdout, Buf

\* A pipe offers at most one message, so a read extends a sequence of messages.
LEMMA OfferedProperties ==
  /\ <<>> \in Offered /\ \A m \in Msgs : <<m>> \in Offered
  /\ \A o \in Offered : o \in Seq(Msgs) /\ o \in UpTo(Msgs, 1)
<1>1. <<>> \in Offered /\ \A m \in Msgs : <<m>> \in Offered
  BY DEF Offered
<1>2. <<>> \in [1..0 -> Msgs] /\ \A m \in Msgs : <<m>> \in [1..1 -> Msgs]
  OBVIOUS
<1>3. <<>> \in UpTo(Msgs, 1) /\ \A m \in Msgs : <<m>> \in UpTo(Msgs, 1)
  BY <1>2 DEF UpTo
<1>4. <<>> \in Seq(Msgs) /\ \A m \in Msgs : <<m>> \in Seq(Msgs)
  OBVIOUS
<1> QED
  BY <1>1, <1>3, <1>4 DEF Offered

\* The messages of runners and of feeding goroutines, by their numbers.
LEMMA MessageTypes ==
  /\ OutMsgs \subseteq Msgs
  /\ \A p \in Procs : \A k \in 0..MaxOut : k < MaxOut => OutMsg(p, k + 1) \in OutMsgs
  /\ \A p \in Procs : \A k \in 0..MaxIn : k < MaxIn => InMsg(p, k + 1) \in Msgs
BY ProcessAssumption DEF Msgs, OutMsgs

\* One more message written: the sequence grows by it.
LEMMA WrittenGrows ==
  ASSUME NEW p, NEW n \in Nat
  PROVE  Append(WrittenTo(p, n), OutMsg(p, n + 1)) = WrittenTo(p, n + 1)
<1> DEFINE Fn(k) == OutMsg(p, k)
           w == [k \in 1..n |-> Fn(k)]
           v == [k \in 1..(n + 1) |-> Fn(k)]
<1>1. Append(w, Fn(n + 1)) = v
  <2> HIDE DEF Fn
  <2>1. Len(w) = n /\ Len(v) = n + 1
    OBVIOUS
  <2>2. Append(w, Fn(n + 1)) = [k \in 1..(n + 1) |-> IF k <= n THEN w[k] ELSE Fn(n + 1)]
    BY <2>1
  <2> QED
    BY <2>2
<1> QED
  BY <1>1 DEF WrittenTo

\* Nothing written is the empty sequence.
LEMMA NothingWritten == \A p : WrittenTo(p, 0) = <<>>
BY DEF WrittenTo

-----------------------------------------------------------------------------
(* Types.                                                                  *)

\* What a step that changes some of the variables leaves of the types.
LEMMA TypesUnchanged ==
  /\ StreamTypes /\ UNCHANGED io => StreamTypes'
  /\ FieldTypes /\ UNCHANGED <<pipes, fields, src, dst>> => FieldTypes'
  /\ RunnerTypes /\ UNCHANGED <<pc, dst, failed, result, seen>> => RunnerTypes'
  /\ GoroutineTypes /\ UNCHANGED <<feeder, tailer>> => GoroutineTypes'
BY DEF StreamTypes, FieldTypes, RunnerTypes, GoroutineTypes, io, fields, seen, feeder, tailer

\* NewProcess returns a process of the types.
LEMMA InitTypes == ProcessInit => \A f \in [Procs -> {"new", "ready"}] : pc = f => Types
<1> SUFFICES ASSUME ProcessInit, NEW f \in [Procs -> {"new", "ready"}], pc = f
             PROVE  Types
  OBVIOUS
<1>1. StreamTypes
  BY StreamsDiffer, OfferedProperties DEF ProcessInit, StreamTypes
<1>2. FieldTypes
  BY StreamsDiffer DEF ProcessInit, FieldTypes, Streams
<1>3. RunnerTypes
  BY ProcessAssumption DEF ProcessInit, RunnerTypes
<1>4. GoroutineTypes
  BY ProcessAssumption DEF ProcessInit, GoroutineTypes
<1> QED
  BY <1>1, <1>2, <1>3, <1>4 DEF Types

\* A setter, called at any time.
LEMMA SetterTypes ==
  ASSUME Types, NEW p \in Procs,
         \/ StdoutPipe(p) \/ CaptureStdout(p)
         \/ SetStdin(p, File) \/ SetStdout(p, File)
  PROVE  Types'
<1> USE TypesUnchanged DEF Types, run
<1>1. CASE StdoutPipe(p)
  <2>1. StreamTypes'
    BY <1>1, StreamsDiffer DEF StdoutPipe, StreamTypes
  <2>2. FieldTypes'
    BY <1>1 DEF StdoutPipe, FieldTypes, fields
  <2> QED
    BY <1>1, <2>1, <2>2 DEF StdoutPipe
<1>2. CASE CaptureStdout(p)
  <2>1. FieldTypes'
    BY <1>2, StreamsDiffer DEF CaptureStdout, FieldTypes, io
  <2> QED
    BY <1>2, <2>1 DEF CaptureStdout
<1>3. CASE SetStdin(p, File)
  <2>1. FieldTypes'
    BY <1>3 DEF SetStdin, FieldTypes, io
  <2> QED
    BY <1>3, <2>1 DEF SetStdin
<1>4. CASE SetStdout(p, File)
  <2>1. FieldTypes'
    BY <1>4 DEF SetStdout, FieldTypes, io
  <2> QED
    BY <1>4, <2>1 DEF SetStdout
<1> QED
  BY <1>1, <1>2, <1>3, <1>4

\* A step of Run or of the runner it calls.
LEMMA RunningTypes ==
  ASSUME Types, NEW p \in Procs, Running(p)
  PROVE  Types'
<1> USE TypesUnchanged DEF Types
<1>1. CASE RunFails(p)
  BY <1>1 DEF RunFails, RunnerTypes, io, fields, seen
<1>2. CASE RunStart(p)
  <2>1. StreamTypes'
    BY <1>2, StreamsDiffer DEF RunStart, StreamTypes
  <2>2. /\ ChosenIn(p) \in pipes' \cup {File}
        /\ ChosenOut(p) \in {File, Stdout(p), Buf(p), SharedBuf}
        /\ ChosenOut(p) = Stdout(p) => Stdout(p) \in pipes
        /\ KeptBuf(p) \in {Nil, Buf(p), SharedBuf}
    BY <1>2, StreamsDiffer DEF RunStart, ChosenIn, ChosenOut, KeptBuf, FieldTypes
  <2>3. FieldTypes'
    BY <1>2, <2>2, StreamsDiffer DEF RunStart, FieldTypes, Streams
  <2>4. RunnerTypes'
    BY <1>2 DEF RunStart, RunnerTypes, seen
  <2> QED
    BY <1>2, <2>1, <2>3, <2>4 DEF RunStart
<1>3. CASE RunCloses(p)
  <2>1. StreamTypes'
    BY <1>3 DEF RunCloses, StreamTypes, ClosedAtEnd
  <2>2. RunnerTypes'
    BY <1>3 DEF RunCloses, RunnerTypes, seen
  <2> QED
    BY <1>3, <2>1, <2>2 DEF RunCloses
<1>4. CASE BeginRead(p)
  BY <1>4 DEF BeginRead, RunnerTypes, io, seen
<1>5. CASE Read(p)
  <2>1. src[p] \in Pipes /\ offer[src[p]] \in Seq(Msgs)
    BY <1>5, OfferedProperties DEF Read, Takes, StreamTypes
  <2>2. StreamTypes'
    BY <1>5, <2>1, OfferedProperties DEF Read, Withdraw, StreamTypes
  <2>3. RunnerTypes'
    BY <1>5, <2>1 DEF Read, RunnerTypes
  <2> QED
    BY <1>5, <2>2, <2>3 DEF Read
<1>6. CASE ReadEOF(p)
  BY <1>6 DEF ReadEOF, RunnerTypes, io
<1>7. CASE WriteOut(p)
  <2>1. OutMsg(p, sent[p] + 1) \in OutMsgs
    BY <1>7, MessageTypes DEF WriteOut, RunnerTypes
  <2>2. StreamTypes'
    BY <1>7, <2>1 DEF WriteOut, StreamTypes
  <2>3. RunnerTypes'
    BY <1>7, ProcessAssumption DEF WriteOut, RunnerTypes, run
  <2> QED
    BY <1>7, <2>2, <2>3 DEF WriteOut, run
<1>8. CASE BeginWrite(p)
  <2>1. OutMsg(p, sent[p] + 1) \in OutMsgs
    BY <1>8, MessageTypes DEF BeginWrite, RunnerTypes
  <2>2. dst[p] = Stdout(p)
    BY <1>8, StreamsDiffer DEF BeginWrite, FieldTypes
  <2>3. StreamTypes'
    BY <1>8, <2>1, <2>2, MessageTypes, OfferedProperties, StreamsDiffer
    DEF BeginWrite, Offers, StreamTypes, FieldTypes
  <2>4. RunnerTypes'
    BY <1>8, <2>2 DEF BeginWrite, RunnerTypes, seen
  <2> QED
    BY <1>8, <2>3, <2>4 DEF BeginWrite
<1>9. CASE EndWrite(p)
  <2>1. RunnerTypes'
    BY <1>9, ProcessAssumption DEF EndWrite, RunnerTypes
  <2> QED
    BY <1>9, <2>1 DEF EndWrite, io
<1>10. ASSUME NEW err \in BOOLEAN, Return(p, err) PROVE Types'
  BY <1>10 DEF Return, RunnerTypes, io, seen
<1>11. CASE RunEnd(p)
  <2>1. RunnerTypes'
    BY <1>11 DEF RunEnd, RunnerTypes, StreamTypes, FieldTypes, seen
  <2> QED
    BY <1>11, <2>1 DEF RunEnd, io
<1> QED
  BY <1>1, <1>2, <1>3, <1>4, <1>5, <1>6, <1>7, <1>8, <1>9, <1>10, <1>11 DEF Running

\* A step of the goroutine that feeds a process or of the one that reads it.
LEMMA GoroutineStepTypes ==
  ASSUME Types, NEW p \in Procs, Feeding(p) \/ Tailing(p)
  PROVE  Types'
<1> USE TypesUnchanged DEF Types, run
<1>1. CASE Write(p)
  <2>1. InMsg(p, acked[p] + 1) \in Msgs
    BY <1>1, MessageTypes, ProcessAssumption DEF Write, GoroutineTypes
  <2>2. StreamTypes'
    BY <1>1, <2>1, OfferedProperties, StreamsDiffer DEF Write, Offers, StreamTypes
  <2>3. FieldTypes'
    BY <1>1, StreamsDiffer DEF Write, FieldTypes
  <2>4. tried'[p] \in 0..MaxIn /\ acked[p] < tried'[p]
    BY <1>1, ProcessAssumption DEF Write, GoroutineTypes
  <2>5. wpc' \in [Procs -> {"idle", "writing", "done"}]
        /\ \A q \in Procs : q # p => wpc'[q] = wpc[q] /\ tried'[q] = tried[q]
    BY <1>1 DEF Write, GoroutineTypes
  <2>6. tried' \in [Procs -> 0..MaxIn]
    BY <1>1, <2>4 DEF Write, GoroutineTypes
  <2>7. \A q \in Procs : /\ acked[q] <= tried'[q]
                         /\ wpc'[q] = "writing" => acked[q] < tried'[q]
    <3> SUFFICES ASSUME NEW q \in Procs
                 PROVE  /\ acked[q] <= tried'[q]
                        /\ wpc'[q] = "writing" => acked[q] < tried'[q]
      OBVIOUS
    <3>1. acked[q] \in 0..MaxIn /\ tried'[q] \in 0..MaxIn
      BY <2>6 DEF GoroutineTypes
    <3>2. CASE q = p
      BY <2>4, <3>1, <3>2, ProcessAssumption
    <3>3. CASE q # p
      BY <2>5, <3>3 DEF GoroutineTypes
    <3> QED
      BY <3>2, <3>3
  <2>8. GoroutineTypes'
    BY <1>1, <2>5, <2>6, <2>7 DEF Write, GoroutineTypes, tailer
  <2> QED
    BY <1>1, <2>2, <2>3, <2>8 DEF Write
<1>2. CASE WriteReturns(p)
  <2>1. StreamTypes'
    BY <1>2, OfferedProperties, StreamsDiffer DEF WriteReturns, Withdraw, StreamTypes
  <2>2. GoroutineTypes'
    BY <1>2, ProcessAssumption DEF WriteReturns, GoroutineTypes, tailer
  <2> QED
    BY <1>2, <2>1, <2>2 DEF WriteReturns
<1>3. CASE Close(p)
  <2>1. StreamTypes'
    BY <1>3 DEF Close, StreamTypes, StdinWriter
  <2>2. GoroutineTypes'
    BY <1>3 DEF Close, GoroutineTypes, tailer
  <2> QED
    BY <1>3, <2>1, <2>2 DEF Close
<1>4. CASE TailRead(p)
  <2>1. StreamTypes'
    BY <1>4, OfferedProperties, StreamsDiffer DEF TailRead, Withdraw, Takes, StreamTypes
  <2>2. GoroutineTypes'
    BY <1>4 DEF TailRead, GoroutineTypes, StreamTypes, feeder
  <2> QED
    BY <1>4, <2>1, <2>2 DEF TailRead
<1>5. CASE TailEOF(p)
  BY <1>5 DEF TailEOF, GoroutineTypes, io, feeder
<1> QED
  BY <1>1, <1>2, <1>3, <1>4, <1>5 DEF Feeding, Tailing

\* Types imply the type invariant of the model.
LEMMA TypesOK == Types => ProcessTypeOK
<1> SUFFICES ASSUME Types PROVE ProcessTypeOK
  OBVIOUS
<1>1. in \in [Procs -> Streams] /\ out \in [Procs -> Streams]
  BY DEF Types, FieldTypes, StreamTypes, Streams
<1>2. \A s \in Pipes : offer[s] \in UpTo(Msgs, 1)
  BY OfferedProperties DEF Types, StreamTypes
<1> QED
  BY <1>1, <1>2 DEF Types, StreamTypes, FieldTypes, RunnerTypes, GoroutineTypes, ProcessTypeOK

-----------------------------------------------------------------------------
(* The output of a runner.                                                 *)

\* A step that leaves the runner of q and its output alone; q may get a capture
\* buffer.
Leaves(q) ==
  /\ dst'[q] = dst[q] /\ pc'[q] = pc[q] /\ sent'[q] = sent[q] /\ result'[q] = result[q]
  /\ tail'[q] = tail[q] /\ offer'[Stdout(q)] = offer[Stdout(q)] /\ buf'[Buf(q)] = buf[Buf(q)]
  /\ outBuf[q] = Buf(q) => outBuf'[q] = Buf(q)

LEMMA LeavesKept == \A q : Kept(q) /\ Leaves(q) => Kept(q)'
BY DEF Kept, Leaves, Untouched, Flow, Begun, Written

\* What is written so far, by the state of the runner; a completed write leaves
\* one message more.
LEMMA BegunProperties ==
  ASSUME Types, NEW p \in Procs
  PROVE  /\ pc[p] # "writing" => Begun(p) = Written(p)
         /\ Append(Written(p), OutMsg(p, sent[p] + 1)) = WrittenTo(p, sent[p] + 1)
         /\ Written(p) \in Seq(OutMsgs)
<1>1. sent[p] \in 0..MaxOut /\ sent[p] \in Nat
  BY ProcessAssumption DEF Types, RunnerTypes
<1>2. Written(p) = WrittenTo(p, sent[p])
  BY DEF Written, WrittenTo
<1>3. Written(p) \in Seq(OutMsgs)
  <2>1. \A k \in 1..sent[p] : OutMsg(p, k) \in OutMsgs
    BY <1>1, ProcessAssumption DEF OutMsgs
  <2>2. Written(p) \in [1..sent[p] -> OutMsgs]
    BY <2>1 DEF Written
  <2> QED
    BY <1>1, <2>2
<1> QED
  BY <1>1, <1>2, <1>3, WrittenGrows DEF Begun

\* A setter of a process that is run on its own.
LEMMA ConfigureKept ==
  ASSUME StandaloneInv, NEW p \in Procs, Configure(p)
  PROVE  \A q \in Procs : Own(q)' /\ Kept(q)'
<1> SUFFICES ASSUME NEW q \in Procs PROVE Own(q)' /\ Leaves(q)
  BY LeavesKept DEF StandaloneInv
<1>1. CASE StdoutPipe(p)
  BY <1>1 DEF StdoutPipe, StandaloneInv, Own, Leaves, fields, run, seen, tailer
<1>2. CASE CaptureStdout(p)
  BY <1>2, StreamsDiffer
  DEF CaptureStdout, StandaloneInv, Types, FieldTypes, Own, Leaves, io, run, seen, tailer
<1>3. CASE SetStdin(p, File)
  BY <1>3 DEF SetStdin, StandaloneInv, Types, FieldTypes, Own, Leaves, io, run, seen, tailer
<1>4. CASE SetStdout(p, File)
  BY <1>4 DEF SetStdout, StandaloneInv, Own, Leaves, io, run, seen, tailer
<1> QED
  BY <1>1, <1>2, <1>3, <1>4 DEF Configure

\* A step of the goroutine that feeds p: only its stdin is concerned.
LEMMA FeedingLeaves ==
  ASSUME Types, NEW p \in Procs, Feeding(p), NEW q \in Procs
  PROVE  /\ Leaves(q)
         /\ UNCHANGED <<outBuf, src, got, eof, failed>>
         /\ in'[q] \in {in[q], Stdin(q)}
<1>1. CASE Write(p)
  BY <1>1, StreamsDiffer
  DEF Write, Offers, Leaves, Types, StreamTypes, FieldTypes, run, seen, tailer
<1>2. CASE WriteReturns(p)
  BY <1>2, StreamsDiffer
  DEF WriteReturns, Withdraw, Leaves, Types, StreamTypes, fields, run, seen, tailer
<1>3. CASE Close(p)
  BY <1>3 DEF Close, Leaves, fields, run, seen, tailer
<1> QED
  BY <1>1, <1>2, <1>3 DEF Feeding

\* The goroutine that reads StdoutPipe takes what is on offer, in order.
LEMMA TailingKept ==
  ASSUME StandaloneInv, NEW p \in Procs, Tailing(p)
  PROVE  \A q \in Procs : Own(q)' /\ Kept(q)'
<1>1. CASE TailEOF(p)
  <2> SUFFICES ASSUME NEW q \in Procs PROVE Own(q)' /\ Leaves(q)
    BY LeavesKept DEF StandaloneInv
  <2> QED
    BY <1>1 DEF TailEOF, StandaloneInv, Own, Leaves, io, fields, run, seen
<1>2. CASE TailRead(p)
  <2>1. \A q \in Procs : Own(q)'
    BY <1>2 DEF TailRead, StandaloneInv, Own, fields, run
  <2>2. \A q \in Procs : q # p => Leaves(q)
    BY <1>2, StreamsDiffer
    DEF TailRead, Withdraw, StandaloneInv, Types, StreamTypes, GoroutineTypes, Leaves,
        fields, run, seen
  <2>3. tail'[p] = tail[p] \o offer[Stdout(p)] /\ offer'[Stdout(p)] = <<>>
        /\ offer[Stdout(p)] # <<>>
    BY <1>2, StreamsDiffer
    DEF TailRead, Withdraw, Takes, StandaloneInv, Types, StreamTypes, GoroutineTypes
  <2>4. dst[p] = Stdout(p) /\ Flow(p, tail[p])
    BY <2>3 DEF StandaloneInv, Kept, Untouched
  <2>5. /\ tail'[p] \in Seq(OutMsgs)
        /\ UNCHANGED <<dst, pc, sent, result, buf, outBuf>>
    BY <1>2, GoroutineStepTypes
    DEF TailRead, Tailing, StandaloneInv, Types, GoroutineTypes, fields, run, seen
  <2>6. Kept(p)'
    <3>1. tail'[p] \o offer'[Stdout(p)] = tail[p] \o offer[Stdout(p)]
      BY <2>3, <2>5
    <3>2. Begun(p)' = Begun(p)
      BY <2>5 DEF Begun
    <3>3. Flow(p, tail[p])'
      BY <2>3, <2>4, <2>5, <3>1, <3>2 DEF Flow
    <3> QED
      BY <2>4, <2>5, <3>3, StreamsDiffer DEF Kept
  <2> QED
    BY <2>1, <2>2, <2>6, LeavesKept DEF StandaloneInv
<1> QED
  BY <1>1, <1>2 DEF Tailing

\* A step of Run or of its runner leaves another process alone whose pipe this
\* runner does not read: a buffer is written by its own process only.
LEMMA RunningLeavesOthers ==
  ASSUME Types, NEW p \in Procs, Running(p),
         NEW q \in Procs, q # p, src[p] # Stdout(q)
  PROVE  Leaves(q)
<1> USE DEF Leaves, Types, FieldTypes, RunnerTypes
<1>1. CASE RunFails(p)
  BY <1>1 DEF RunFails, io, fields, seen, tailer
<1>2. CASE RunStart(p)
  BY <1>2 DEF RunStart, seen, tailer
<1>3. CASE RunCloses(p)
  BY <1>3 DEF RunCloses, fields, seen, tailer
<1>4. CASE BeginRead(p)
  BY <1>4 DEF BeginRead, io, fields, seen, tailer
<1>5. CASE Read(p)
  BY <1>5, StreamsDiffer DEF Read, Withdraw, Takes, StreamTypes, fields, tailer
<1>6. CASE ReadEOF(p)
  BY <1>6 DEF ReadEOF, io, fields, tailer
<1>7. CASE WriteOut(p)
  <2>1. buf'[Buf(q)] = buf[Buf(q)]
    BY <1>7, StreamsDiffer DEF WriteOut
  <2> QED
    BY <1>7, <2>1 DEF WriteOut, fields, run, tailer
<1>8. CASE BeginWrite(p)
  <2>1. dst[p] = Stdout(p)
    <3>1. dst[p] \in Pipes /\ dst[p] \in {Nil, File, Stdout(p), Buf(p), SharedBuf}
      BY <1>8 DEF BeginWrite
    <3> QED
      BY <3>1, StreamsDiffer
  <2>2. offer'[Stdout(q)] = offer[Stdout(q)]
    BY <1>8, <2>1, StreamsDiffer DEF BeginWrite, Offers, StreamTypes
  <2> QED
    BY <1>8, <2>2 DEF BeginWrite, fields, seen, tailer
<1>9. CASE EndWrite(p)
  BY <1>9 DEF EndWrite, io, fields, tailer
<1>10. ASSUME NEW err \in BOOLEAN, Return(p, err) PROVE Leaves(q)
  BY <1>10 DEF Return, io, fields, seen, tailer
<1>11. CASE RunEnd(p)
  BY <1>11 DEF RunEnd, io, fields, seen, tailer
<1> QED
  BY <1>1, <1>2, <1>3, <1>4, <1>5, <1>6, <1>7, <1>8, <1>9, <1>10, <1>11 DEF Running

\* A step of Run or of its runner, seen by whoever reads its stdout pipe: what was
\* read and what is on offer is still what the runner has begun to write.
LEMMA RunningFlow ==
  ASSUME Types, NEW p \in Procs, Running(p), src[p] # Stdout(p),
         dst[p] \in {Nil, Stdout(p)}, dst[p] = Nil => pc[p] \in {"new", "ready", "done"},
         NEW r \in Seq(Msgs), Flow(p, r)
  PROVE  Flow(p, r)'
<1> USE DEF Types
<1>1. CASE RunFails(p)
  BY <1>1 DEF RunFails, RunnerTypes, Flow, Begun, io, seen
<1>2. CASE RunStart(p)
  BY <1>2 DEF RunStart, RunnerTypes, Flow, Begun, seen
<1>3. CASE RunCloses(p)
  BY <1>3 DEF RunCloses, RunnerTypes, Flow, Begun, seen
<1>4. CASE BeginRead(p)
  BY <1>4 DEF BeginRead, RunnerTypes, Flow, Begun, io, seen
<1>5. CASE Read(p)
  BY <1>5 DEF Read, Withdraw, StreamTypes, RunnerTypes, Flow, Begun
<1>6. CASE ReadEOF(p)
  BY <1>6 DEF ReadEOF, RunnerTypes, Flow, Begun, io
<1>7. CASE WriteOut(p)
  BY <1>7, StreamsDiffer DEF WriteOut, run
<1>8. CASE BeginWrite(p)
  <2>1. dst[p] = Stdout(p)
    BY <1>8 DEF BeginWrite
  <2>2. /\ pc[p] = "run" /\ pc'[p] = "writing" /\ sent'[p] = sent[p]
        /\ offer[Stdout(p)] = <<>> /\ offer'[Stdout(p)] = <<OutMsg(p, sent[p] + 1)>>
    BY <1>8, <2>1, StreamsDiffer DEF BeginWrite, Offers, StreamTypes, RunnerTypes, seen
  <2>3. r = Written(p)
    BY <2>2, BegunProperties, ConcatEmptySeq DEF Flow
  <2>4. Begun(p)' = Append(Written(p), OutMsg(p, sent[p] + 1))
    BY <2>2, BegunProperties DEF Begun
  <2>5. Written(p) \o <<OutMsg(p, sent[p] + 1)>> = Append(Written(p), OutMsg(p, sent[p] + 1))
    BY BegunProperties
  <2> QED
    BY <2>2, <2>3, <2>4, <2>5 DEF Flow
<1>9. CASE EndWrite(p)
  <2>1. /\ UNCHANGED offer /\ pc[p] = "writing" /\ pc'[p] = "run" /\ sent'[p] = sent[p] + 1
        /\ offer[Stdout(p)] = <<>>
    BY <1>9 DEF EndWrite, RunnerTypes, io
  <2> QED
    BY <2>1 DEF Flow, Begun
<1>10. ASSUME NEW err \in BOOLEAN, Return(p, err) PROVE Flow(p, r)'
  BY <1>10 DEF Return, RunnerTypes, Flow, Begun, io, seen
<1>11. CASE RunEnd(p)
  BY <1>11 DEF RunEnd, RunnerTypes, Flow, Begun, io, seen
<1> QED
  BY <1>1, <1>2, <1>3, <1>4, <1>5, <1>6, <1>7, <1>8, <1>9, <1>10, <1>11 DEF Running

\* A step of Run or of its runner keeps to the streams of its own process.
LEMMA RunningOwn ==
  ASSUME StandaloneInv, NEW p \in Procs, Running(p)
  PROVE  \A q \in Procs : Own(q)'
<1> SUFFICES ASSUME NEW q \in Procs PROVE Own(q)'
  OBVIOUS
<1>1. CASE RunStart(p)
  BY <1>1, StreamsDiffer
  DEF RunStart, StandaloneInv, Types, FieldTypes, Own, ChosenIn, ChosenOut, KeptBuf
<1>2. CASE ~RunStart(p)
  <2>1. UNCHANGED <<in, outBuf, src, dst>>
    BY <1>2 DEF Running, RunFails, RunCloses, RunEnd, BeginRead, Read, ReadEOF, WriteOut,
                BeginWrite, EndWrite, Return, fields, run
  <2> QED
    BY <2>1 DEF StandaloneInv, Own
<1> QED
  BY <1>1, <1>2

\* A step of Run or of its runner: what the runner has written is where its
\* stream put it, whichever stream that is.
LEMMA RunningKept ==
  ASSUME StandaloneInv, NEW p \in Procs, Running(p)
  PROVE  Kept(p)'
<1>1. Types /\ Own(p) /\ Kept(p) /\ src[p] # Stdout(p)
  BY StreamsDiffer DEF StandaloneInv, Own
<1>2. Types' /\ tail' = tail
  BY <1>1, RunningTypes
  DEF Running, RunFails, RunStart, RunCloses, RunEnd, BeginRead, Read, ReadEOF, WriteOut,
      BeginWrite, EndWrite, Return, tailer
<1>3. ASSUME dst[p] = Stdout(p) PROVE Flow(p, tail[p])'
  <2> PICK r \in Seq(OutMsgs) : r = tail[p]
    BY <1>1 DEF Types, GoroutineTypes
  <2>1. Flow(p, r) /\ r \in Seq(Msgs)
    BY <1>1, <1>3, MessageTypes DEF Kept
  <2>2. Flow(p, r)'
    BY <1>1, <1>3, <2>1, RunningFlow, StreamsDiffer
  <2> QED
    BY <1>2, <2>2 DEF Flow
<1>4. CASE RunFails(p)
  BY <1>1, <1>2, <1>4
  DEF RunFails, Types, RunnerTypes, Kept, Untouched, Flow, Begun, Written, io, fields, seen
<1>5. CASE RunStart(p)
  <2>1. Untouched(p) /\ ChosenOut(p) \in {File, Stdout(p), Buf(p)}
        /\ (ChosenOut(p) = Buf(p) => KeptBuf(p) = Buf(p))
    BY <1>1, <1>5, StreamsDiffer
    DEF RunStart, Kept, Own, Types, FieldTypes, RunnerTypes, ChosenOut, KeptBuf
  <2>2. UNCHANGED <<offer, buf, result, sent>> /\ pc'[p] = "run"
        /\ dst'[p] = ChosenOut(p) /\ outBuf'[p] = KeptBuf(p)
    BY <1>1, <1>5 DEF RunStart, Types, FieldTypes, RunnerTypes, seen
  <2>3. Written(p)' = <<>> /\ Begun(p)' = <<>>
    BY <2>1, <2>2, NothingWritten DEF Written, WrittenTo, Begun, Untouched
  <2> QED
    BY <1>2, <2>1, <2>2, <2>3, StreamsDiffer DEF Kept, Untouched, Flow
<1>6. CASE RunEnd(p)
  <2>1. UNCHANGED <<offer, buf, sent, dst, outBuf>> /\ pc[p] = "closed" /\ pc'[p] = "done"
        /\ (outBuf[p] # Nil => result'[p] = buf[outBuf[p]])
    BY <1>1, <1>6 DEF RunEnd, Types, RunnerTypes, io, fields, seen
  <2> QED
    BY <1>1, <1>2, <2>1, StreamsDiffer DEF Kept, Untouched, Flow, Begun, Written
<1>7. CASE BeginRead(p)
  BY <1>1, <1>2, <1>7
  DEF BeginRead, Types, RunnerTypes, Kept, Untouched, Flow, Begun, Written, io, fields, seen
<1>8. CASE Read(p)
  <2>1. UNCHANGED <<buf, sent, dst, outBuf, result>> /\ pc[p] = "reading" /\ pc'[p] = "run"
        /\ offer'[Stdout(p)] = offer[Stdout(p)]
    BY <1>1, <1>8 DEF Read, Withdraw, Types, StreamTypes, RunnerTypes, fields
  <2> QED
    BY <1>1, <1>2, <2>1 DEF Kept, Untouched, Flow, Begun, Written
<1>9. CASE ReadEOF(p)
  BY <1>1, <1>2, <1>9
  DEF ReadEOF, Types, RunnerTypes, Kept, Untouched, Flow, Begun, Written, io, fields
<1>10. CASE WriteOut(p)
  <2>1. UNCHANGED <<offer, dst, outBuf, pc>> /\ pc[p] = "run" /\ sent'[p] = sent[p] + 1
        /\ dst[p] # Stdout(p)
        /\ (dst[p] = Buf(p) => buf'[Buf(p)] = Append(buf[Buf(p)], OutMsg(p, sent[p] + 1)))
    BY <1>1, <1>10, StreamsDiffer DEF WriteOut, Types, RunnerTypes, fields, run
  <2>2. dst[p] # Nil
    BY <1>1, <2>1 DEF Kept, Untouched
  <2>3. dst[p] = Buf(p) => buf'[Buf(p)] = Written(p)'
    BY <1>1, <2>1, BegunProperties DEF Kept, Written, WrittenTo
  <2> QED
    BY <1>1, <2>1, <2>2, <2>3, StreamsDiffer DEF Kept
<1>11. CASE BeginWrite(p)
  <2>1. dst[p] = Stdout(p) /\ dst'[p] = dst[p]
    BY <1>1, <1>11, StreamsDiffer DEF BeginWrite, Types, FieldTypes
  <2> QED
    BY <1>3, <2>1, StreamsDiffer DEF Kept
<1>12. CASE EndWrite(p)
  <2>1. dst[p] = Stdout(p) /\ dst'[p] = dst[p]
    BY <1>1, <1>12 DEF EndWrite, Types, RunnerTypes
  <2> QED
    BY <1>3, <2>1, StreamsDiffer DEF Kept
<1>13. ASSUME NEW err \in BOOLEAN, Return(p, err) PROVE Kept(p)'
  BY <1>1, <1>2, <1>13
  DEF Return, Types, RunnerTypes, Kept, Untouched, Flow, Begun, Written, io, fields, seen
<1>14. CASE RunCloses(p)
  BY <1>1, <1>2, <1>14
  DEF RunCloses, Types, RunnerTypes, Kept, Untouched, Flow, Begun, Written, fields, seen
<1> QED
  BY <1>4, <1>5, <1>6, <1>7, <1>8, <1>9, <1>10, <1>11, <1>12, <1>13, <1>14 DEF Running

-----------------------------------------------------------------------------
(* The theorems.                                                           *)

\* The inductive invariant: types, each process keeps to its own streams, and
\* what its runner has written is where its stream put it.
THEOREM StandaloneInvariant == ProcessSpec => []StandaloneInv
<1>1. Standalone => StandaloneInv
  <2> SUFFICES ASSUME Standalone PROVE StandaloneInv
    OBVIOUS
  <2>1. Types
    BY InitTypes DEF Standalone
  <2> QED
    BY <2>1, StreamsDiffer
    DEF Standalone, ProcessInit, StandaloneInv, Own, Kept, Untouched
<1>2. StandaloneInv /\ [ProcessNext]_pvars => StandaloneInv'
  <2> SUFFICES ASSUME StandaloneInv, [ProcessNext]_pvars PROVE StandaloneInv'
    OBVIOUS
  <2>1. CASE UNCHANGED pvars
    <3>1. UNCHANGED <<io, fields, run, seen, feeder, tailer>>
      BY <2>1 DEF pvars
    <3>2. Types'
      BY <3>1, TypesUnchanged DEF StandaloneInv, Types, io, fields, run
    <3>3. \A q \in Procs : Own(q)' /\ Leaves(q)
      BY <3>1 DEF StandaloneInv, Own, Leaves, io, fields, run, seen, tailer
    <3> QED
      BY <3>2, <3>3, LeavesKept DEF StandaloneInv
  <2>2. ASSUME NEW p \in Procs, Running(p) PROVE StandaloneInv'
    <3>1. \A q \in Procs : src[p] # Stdout(q)
      BY StreamsDiffer DEF StandaloneInv, Own
    <3>2. \A q \in Procs : q # p => Kept(q)'
      BY <2>2, <3>1, RunningLeavesOthers, LeavesKept DEF StandaloneInv
    <3> QED
      BY <2>2, <3>2, RunningTypes, RunningOwn, RunningKept DEF StandaloneInv
  <2>3. ASSUME NEW p \in Procs, Feeding(p) PROVE StandaloneInv'
    <3>1. \A q \in Procs : Own(q)' /\ Kept(q)'
      BY <2>3, FeedingLeaves, LeavesKept DEF StandaloneInv, Own, Leaves
    <3> QED
      BY <2>3, <3>1, GoroutineStepTypes DEF StandaloneInv
  <2>4. ASSUME NEW p \in Procs, Tailing(p) PROVE StandaloneInv'
    BY <2>4, GoroutineStepTypes, TailingKept DEF StandaloneInv
  <2>5. ASSUME NEW p \in Procs, Configure(p) PROVE StandaloneInv'
    BY <2>5, SetterTypes, ConfigureKept DEF StandaloneInv, Configure
  <2> QED
    BY <2>1, <2>2, <2>3, <2>4, <2>5 DEF ProcessNext
<1> QED
  BY <1>1, <1>2, PTL DEF ProcessSpec

\* Every variable keeps its type, and only pipes that Process.Write, Run or
\* StdoutPipe have created are read, written or closed.
THEOREM ProcessTypesHold == ProcessSpec => []ProcessTypeOK
<1>1. StandaloneInv => ProcessTypeOK
  BY TypesOK DEF StandaloneInv
<1> QED
  BY <1>1, StandaloneInvariant, PTL

\* Process.Run loses no output, however SetStdout, CaptureStdout and StdoutPipe
\* race with it: when Run is done, what the runner wrote is in the result or has
\* been read from StdoutPipe, unless it went to the writer of SetStdout.
THEOREM OutputIsNotLost == ProcessSpec => []OutputNotLost
<1>1. StandaloneInv => OutputNotLost
  <2> SUFFICES ASSUME StandaloneInv, NEW p \in Procs, pc[p] = "done", dst[p] # File
               PROVE  result[p] = Written(p) \/ tail[p] = Written(p)
    BY DEF OutputNotLost
  <2>1. CASE dst[p] = Nil
    BY <2>1, NothingWritten DEF StandaloneInv, Kept, Untouched, Written, WrittenTo
  <2>2. CASE dst[p] = Buf(p)
    BY <2>2 DEF StandaloneInv, Kept
  <2>3. CASE dst[p] = Stdout(p)
    <3>1. tail[p] \o <<>> = Written(p) /\ tail[p] \in Seq(OutMsgs)
      BY <2>3, BegunProperties DEF StandaloneInv, Kept, Flow, Types, GoroutineTypes
    <3> QED
      BY <3>1, ConcatEmptySeq
  <2> QED
    BY <2>1, <2>2, <2>3 DEF StandaloneInv, Types, FieldTypes, Own
<1> QED
  BY <1>1, StandaloneInvariant, PTL
=============================================================================
