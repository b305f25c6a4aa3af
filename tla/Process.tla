------------------------------ MODULE Process ------------------------------
(***************************************************************************)
(* sandbox.Process: a Runner executed with streams that its callers        *)
(* configure, each setter and each locked section of Run one step, and the *)
(* goroutines around it: a writer feeding its stdin with Write and Close,  *)
(* a reader consuming StdoutPipe.                                          *)
(*                                                                         *)
(* io.Pipe is external: synchronous, a write waits until a read takes it   *)
(* or the writer is closed, a read waits until a write or the close.  One  *)
(* write is one message taken by one read, and each pipe has one writer.   *)
(* Runners are external too: they read, write at most MaxOut messages and  *)
(* return, in any order; a runner in Drains returns only at EOF, and one   *)
(* in Sources never reads.  Stderr is handled as stdout and never piped,   *)
(* so only stdout is modelled.                                             *)
(***************************************************************************)
EXTENDS Integers, Sequences

CONSTANTS
  Procs,      \* the *Process values
  Broken,     \* those with no runner, or given a runtime that cannot be cloned
  Sources,    \* runners that never read
  Drains,     \* runners that return only after EOF on their stdin
  Fed,        \* processes whose stdin a goroutine feeds with Write and Close
  Tailed,     \* processes whose StdoutPipe a goroutine reads to EOF
  MaxOut,     \* bound on the messages a runner writes
  MaxIn,      \* bound on the messages a feeding goroutine writes
  File,       \* a stream given to SetStdin or SetStdout that is not a pipe
  SharedBuf,  \* a buffer that belongs to a Pipeline
  Nil

ASSUME ProcessAssumption ==
  /\ Broken \subseteq Procs /\ Sources \subseteq Procs /\ Drains \subseteq Procs
  /\ Fed \subseteq Procs /\ Tailed \subseteq Procs
  /\ Sources \cap Drains = {}
  /\ MaxOut \in Nat /\ MaxIn \in Nat

Stdin(p)  == <<"stdin", p>>
Stdout(p) == <<"stdout", p>>
Pipes     == {"stdin", "stdout"} \X Procs
Buf(p)    == <<"buf", p>>
Bufs      == {Buf(p) : p \in Procs} \cup {SharedBuf}

\* The streams given from outside are none of the process's own, nor each other.
ASSUME StreamAssumption ==
  /\ {File, SharedBuf, Nil} \cap (Pipes \cup {Buf(p) : p \in Procs}) = {}
  /\ File # SharedBuf /\ File # Nil /\ SharedBuf # Nil

\* The k-th message of the runner of p, and of the goroutine feeding it.
OutMsg(p, k) == <<p, "out", k>>
InMsg(p, k)  == <<p, "in", k>>

VARIABLES
  pipes,    \* the pipes created so far
  closed,   \* those whose writer has been closed
  offer,    \* the message a blocked Write offers on a pipe, if any
  buf,      \* contents of the buffers
  in,       \* Process.in
  out,      \* Process.out
  outBuf,   \* Process.outBuf
  pc,       \* where Run is: new, ready, run, reading, writing, exit, closed, done
  src, dst, \* locals of Run: the streams the runner got
  sent,     \* messages the runner has written
  got,      \* messages the runner has read
  eof,      \* the runner has seen the end of its stdin
  failed,   \* ProcessResult.Err # nil
  result,   \* ProcessResult.Stdout
  wpc,      \* the feeding goroutine: idle, writing, done
  tried,    \* its Write calls
  acked,    \* its messages whose Write returned nil
  tail,     \* what the tailing goroutine has read
  tailEOF   \* it has seen the end

io     == <<pipes, closed, offer, buf>>
fields == <<in, out, outBuf>>
run    == <<pc, src, dst, failed, result>>
seen   == <<sent, got, eof>>
feeder == <<wpc, tried, acked>>
tailer == <<tail, tailEOF>>
pvars  == <<io, fields, run, seen, feeder, tailer>>

-----------------------------------------------------------------------------
(* io.Pipe.                                                                *)

\* A read of pipe s returns a message.
Takes(s) == s \in pipes \ closed /\ offer[s] # <<>>

\* A read of stream s returns EOF.
Ends(s) == s = File \/ s \in closed

\* A write is offered on the open pipe s.
Offers(s, m) ==
  /\ s \notin closed /\ offer[s] = <<>>
  /\ offer' = [offer EXCEPT ![s] = <<m>>]

\* A read takes what is offered.
Withdraw(s) == offer' = [offer EXCEPT ![s] = <<>>]

-----------------------------------------------------------------------------
(* NewProcess and the setters: one critical section each.                  *)

ProcessInit ==
  /\ pipes = {} /\ closed = {}
  /\ offer  = [s \in Pipes |-> <<>>]
  /\ buf    = [b \in Bufs |-> <<>>]
  /\ in     = [p \in Procs |-> Nil]
  /\ out    = [p \in Procs |-> Nil]
  /\ outBuf = [p \in Procs |-> Nil]
  /\ src    = [p \in Procs |-> Nil]
  /\ dst    = [p \in Procs |-> Nil]
  /\ sent   = [p \in Procs |-> 0]
  /\ got    = [p \in Procs |-> <<>>]
  /\ eof    = [p \in Procs |-> FALSE]
  /\ failed = [p \in Procs |-> FALSE]
  /\ result = [p \in Procs |-> <<>>]
  /\ wpc    = [p \in Procs |-> "idle"]
  /\ tried  = [p \in Procs |-> 0]
  /\ acked  = [p \in Procs |-> 0]
  /\ tail   = [p \in Procs |-> <<>>]
  /\ tailEOF = [p \in Procs |-> FALSE]

StdoutPipe(p) ==
  /\ pipes' = pipes \cup {Stdout(p)}
  /\ UNCHANGED <<closed, offer, buf, fields, run, seen, feeder, tailer>>

CaptureStdout(p) ==
  /\ outBuf' = [outBuf EXCEPT ![p] = IF @ = Nil THEN Buf(p) ELSE @]
  /\ UNCHANGED <<io, in, out, run, seen, feeder, tailer>>

\* SetStdin, and the assignment RunWithIO makes before it calls Run.
SetStdin(p, s) ==
  /\ in' = [in EXCEPT ![p] = s]
  /\ UNCHANGED <<io, out, outBuf, run, seen, feeder, tailer>>

SetStdout(p, s) ==
  /\ out' = [out EXCEPT ![p] = s]
  /\ UNCHANGED <<io, in, outBuf, run, seen, feeder, tailer>>

-----------------------------------------------------------------------------
(* Process.Run.                                                            *)

\* The early returns: no runner, no runtime, no clone.  Nothing is closed.
RunFails(p) ==
  /\ pc[p] = "ready" /\ p \in Broken
  /\ pc'     = [pc EXCEPT ![p] = "done"]
  /\ failed' = [failed EXCEPT ![p] = TRUE]
  /\ UNCHANGED <<io, fields, src, dst, result, seen, feeder, tailer>>

\* The stream the runner reads: p.in, or the process's stdin pipe.
ChosenIn(p) == IF in[p] = Nil THEN Stdin(p) ELSE in[p]

\* Faulty variant: without SetStdout, output is captured, pipe or not.
CapturedOut(p) == IF out[p] # Nil THEN out[p] ELSE Buf(p)

\* The stream the runner writes: p.out, else the capture buffer, else the pipe
\* of StdoutPipe, else a new buffer.
ChosenOut(p) ==
  CASE out[p] # Nil                             -> out[p]
    [] out[p] = Nil /\ outBuf[p] # Nil          -> outBuf[p]
    [] out[p] = Nil /\ outBuf[p] = Nil
                    /\ Stdout(p) \in pipes      -> Stdout(p)
    [] OTHER                                    -> Buf(p)

\* Faulty variant: the new buffer stays local to Run.
LocalBuf(p) == outBuf[p]

\* p.outBuf once the streams are picked: a new buffer is kept there.
KeptBuf(p) == IF ChosenOut(p) = Buf(p) THEN Buf(p) ELSE outBuf[p]

\* The section of Run that picks the streams, and the call of the runner.
RunStart(p) ==
  /\ pc[p] = "ready" /\ p \notin Broken
  /\ pc'     = [pc EXCEPT ![p] = "run"]
  /\ src'    = [src EXCEPT ![p] = ChosenIn(p)]
  /\ in'     = [in EXCEPT ![p] = ChosenIn(p)]
  /\ pipes'  = pipes \cup (IF in[p] = Nil THEN {Stdin(p)} ELSE {})
  /\ dst'    = [dst EXCEPT ![p] = ChosenOut(p)]
  /\ outBuf' = [outBuf EXCEPT ![p] = KeptBuf(p)]
  /\ UNCHANGED <<closed, offer, buf, out, failed, result, seen, feeder, tailer>>

\* Faulty variant: only the stdin writer is closed.
ClosedInAtEnd(p) == {Stdin(p)} \cap pipes

\* Faulty variant: only the stdout writer is closed.
ClosedOutAtEnd(p) == {Stdout(p)} \cap pipes

\* Faulty variant: writers that were never created are closed as well.
AllClosedAtEnd(p) == {Stdin(p), Stdout(p)}

\* The writers Run closes once the runner has returned.
ClosedAtEnd(p) == {Stdin(p), Stdout(p)} \cap pipes

\* The section after the runner.
RunCloses(p) ==
  /\ pc[p] = "exit"
  /\ pc'     = [pc EXCEPT ![p] = "closed"]
  /\ closed' = closed \cup ClosedAtEnd(p)
  /\ UNCHANGED <<pipes, offer, buf, fields, src, dst, failed, result, seen, feeder, tailer>>

\* The last section takes the captured output.
RunEnd(p) ==
  /\ pc[p] = "closed"
  /\ pc'     = [pc EXCEPT ![p] = "done"]
  /\ result' = [result EXCEPT ![p] = IF outBuf[p] = Nil THEN <<>> ELSE buf[outBuf[p]]]
  /\ UNCHANGED <<io, fields, src, dst, failed, seen, feeder, tailer>>

\* The runner has returned, and Run has closed the writers behind it.
Returned(p) == pc[p] \in {"closed", "done"}

-----------------------------------------------------------------------------
(* The runner.                                                             *)

BeginRead(p) ==
  /\ pc[p] = "run" /\ p \notin Sources /\ ~eof[p]
  /\ pc' = [pc EXCEPT ![p] = "reading"]
  /\ UNCHANGED <<io, fields, src, dst, failed, result, seen, feeder, tailer>>

Read(p) ==
  /\ pc[p] = "reading" /\ Takes(src[p])
  /\ pc'  = [pc EXCEPT ![p] = "run"]
  /\ got' = [got EXCEPT ![p] = @ \o offer[src[p]]]
  /\ Withdraw(src[p])
  /\ UNCHANGED <<pipes, closed, buf, fields, src, dst, failed, result, sent, eof,
                 feeder, tailer>>

ReadEOF(p) ==
  /\ pc[p] = "reading" /\ Ends(src[p])
  /\ pc'  = [pc EXCEPT ![p] = "run"]
  /\ eof' = [eof EXCEPT ![p] = TRUE]
  /\ UNCHANGED <<io, fields, src, dst, failed, result, sent, got, feeder, tailer>>

\* A write to a buffer or to a given stream returns at once.
WriteOut(p) ==
  /\ pc[p] = "run" /\ sent[p] < MaxOut /\ dst[p] \notin Pipes
  /\ sent' = [sent EXCEPT ![p] = @ + 1]
  /\ buf'  = [b \in Bufs |-> IF b = dst[p] THEN Append(buf[b], OutMsg(p, sent[p] + 1))
                                           ELSE buf[b]]
  /\ UNCHANGED <<pipes, closed, offer, fields, run, got, eof, feeder, tailer>>

\* A write to a pipe waits for its reader.
BeginWrite(p) ==
  /\ pc[p] = "run" /\ sent[p] < MaxOut /\ dst[p] \in Pipes
  /\ Offers(dst[p], OutMsg(p, sent[p] + 1))
  /\ pc' = [pc EXCEPT ![p] = "writing"]
  /\ UNCHANGED <<pipes, closed, buf, fields, src, dst, failed, result, seen, feeder, tailer>>

EndWrite(p) ==
  /\ pc[p] = "writing" /\ offer[dst[p]] = <<>>
  /\ pc'   = [pc EXCEPT ![p] = "run"]
  /\ sent' = [sent EXCEPT ![p] = @ + 1]
  /\ UNCHANGED <<io, fields, src, dst, failed, result, got, eof, feeder, tailer>>

\* The runner returns, with or without an error.
Return(p, err) ==
  /\ pc[p] = "run" /\ (p \in Drains => eof[p])
  /\ pc'     = [pc EXCEPT ![p] = "exit"]
  /\ failed' = [failed EXCEPT ![p] = err]
  /\ UNCHANGED <<io, fields, src, dst, result, seen, feeder, tailer>>

-----------------------------------------------------------------------------
(* The goroutines around the process.                                      *)

\* Process.Write creates the stdin pipe if need be (and makes it p.in), then
\* writes outside the lock; on a closed pipe it fails at once.
Write(p) ==
  /\ p \in Fed /\ wpc[p] = "idle" /\ tried[p] < MaxIn
  /\ pipes' = pipes \cup {Stdin(p)}
  /\ in'    = IF Stdin(p) \in pipes THEN in ELSE [in EXCEPT ![p] = Stdin(p)]
  /\ tried' = [tried EXCEPT ![p] = @ + 1]
  /\ IF Stdin(p) \in closed
     THEN UNCHANGED <<offer, wpc>>
     ELSE Offers(Stdin(p), InMsg(p, acked[p] + 1)) /\ wpc' = [wpc EXCEPT ![p] = "writing"]
  /\ UNCHANGED <<closed, buf, out, outBuf, run, seen, acked, tailer>>

\* The pending Write returns: its message was read, or the pipe was closed.
WriteReturns(p) ==
  /\ wpc[p] = "writing"
  /\ offer[Stdin(p)] = <<>> \/ Stdin(p) \in closed
  /\ wpc'   = [wpc EXCEPT ![p] = "idle"]
  /\ acked' = [acked EXCEPT ![p] = IF offer[Stdin(p)] = <<>> THEN @ + 1 ELSE @]
  /\ Withdraw(Stdin(p))
  /\ UNCHANGED <<pipes, closed, buf, fields, run, seen, tried, tailer>>

\* Faulty variant: Close forgets the writer.
NoWriter(p) == {}

\* The writer Close has to close.
StdinWriter(p) == {Stdin(p)} \cap pipes

\* Process.Close: a no-op while there is no stdin writer.  The feeding goroutine
\* has written something: a Close before that and before Run is lost, and a
\* runner that reads to the end then waits for ever.
Close(p) ==
  /\ p \in Fed /\ wpc[p] = "idle"
  /\ tried[p] > 0
  /\ closed' = closed \cup StdinWriter(p)
  /\ wpc'    = [wpc EXCEPT ![p] = "done"]
  /\ UNCHANGED <<pipes, offer, buf, fields, run, seen, tried, acked, tailer>>

\* The goroutine that reads StdoutPipe.
TailRead(p) ==
  /\ p \in Tailed /\ Takes(Stdout(p))
  /\ tail' = [tail EXCEPT ![p] = @ \o offer[Stdout(p)]]
  /\ Withdraw(Stdout(p))
  /\ UNCHANGED <<pipes, closed, buf, fields, run, seen, feeder, tailEOF>>

TailEOF(p) ==
  /\ p \in Tailed /\ Ends(Stdout(p)) /\ ~tailEOF[p]
  /\ tailEOF' = [tailEOF EXCEPT ![p] = TRUE]
  /\ UNCHANGED <<io, fields, run, seen, feeder, tail>>

-----------------------------------------------------------------------------
(* What a process does once Run is called, and its surroundings.           *)

Running(p) ==
  \/ RunFails(p) \/ RunStart(p) \/ RunCloses(p) \/ RunEnd(p)
  \/ BeginRead(p) \/ Read(p) \/ ReadEOF(p)
  \/ WriteOut(p) \/ BeginWrite(p) \/ EndWrite(p)
  \/ \E err \in BOOLEAN : Return(p, err)

Feeding(p) == Write(p) \/ WriteReturns(p) \/ Close(p)
Tailing(p) == TailRead(p) \/ TailEOF(p)

\* The setters of a process that is run on its own.  Stdout is piped only for
\* a goroutine that reads it.
Configure(p) ==
  \/ p \in Tailed /\ StdoutPipe(p)
  \/ CaptureStdout(p)
  \/ SetStdin(p, File)
  \/ SetStdout(p, File)

Standalone == ProcessInit /\ pc = [p \in Procs |-> "ready"]

ProcessNext == \E p \in Procs : Running(p) \/ Feeding(p) \/ Tailing(p) \/ Configure(p)

ProcessSpec == Standalone /\ [][ProcessNext]_pvars

\* Goroutines that can run do: Run is called and runners go on, the feeding
\* goroutine writes and in the end closes, the tailing one reads.  Nobody owes
\* a call of a setter.
Goroutines == \A p \in Procs : /\ WF_pvars(Running(p))
                               /\ WF_pvars(Feeding(p))
                               /\ WF_pvars(Tailing(p))

ProcessLiveSpec == ProcessSpec /\ Goroutines

-----------------------------------------------------------------------------
(* Properties.                                                             *)

Streams == Pipes \cup Bufs \cup {File, Nil}
OutMsgs == {OutMsg(p, k) : p \in Procs, k \in 1..MaxOut}
Msgs    == OutMsgs \cup {InMsg(p, k) : p \in Procs, k \in 1..MaxIn}
UpTo(S, n) == UNION {[1..m -> S] : m \in 0..n}

\* Every variable has its type, and only pipes that exist are used.
ProcessTypeOK ==
  /\ pipes \subseteq Pipes /\ closed \subseteq pipes
  /\ \A s \in Pipes : offer[s] \in UpTo(Msgs, 1) /\ (offer[s] # <<>> => s \in pipes)
  /\ \A b \in Bufs : buf[b] \in Seq(OutMsgs)
  /\ in \in [Procs -> Streams] /\ out \in [Procs -> Streams]
  /\ outBuf \in [Procs -> Bufs \cup {Nil}]
  /\ pc \in [Procs -> {"new", "ready", "run", "reading", "writing", "exit", "closed", "done"}]
  /\ src \in [Procs -> pipes \cup {File, Nil}] /\ dst \in [Procs -> Streams]
  /\ sent \in [Procs -> 0..MaxOut] /\ \A p \in Procs : got[p] \in Seq(Msgs)
  /\ eof \in [Procs -> BOOLEAN] /\ failed \in [Procs -> BOOLEAN]
  /\ \A p \in Procs : result[p] \in Seq(OutMsgs) /\ tail[p] \in Seq(OutMsgs)
  /\ wpc \in [Procs -> {"idle", "writing", "done"}]
  /\ tried \in [Procs -> 0..MaxIn] /\ acked \in [Procs -> 0..MaxIn]
  /\ tailEOF \in [Procs -> BOOLEAN]

\* What the runner of p has written, in order.
Written(p) == [k \in 1..sent[p] |-> OutMsg(p, k)]

\* However the setters race with Run, the output of a runner is not lost: it
\* is in the result, or was read from StdoutPipe, or went to SetStdout's writer.
OutputNotLost ==
  \A p \in Procs : pc[p] = "done" /\ dst[p] # File =>
    result[p] = Written(p) \/ tail[p] = Written(p)

\* A Process.Write returns that begins before Run closes the writers: when its
\* data is read or, at the latest, at that close, whatever the runner read and
\* wherever SetStdin made it read.  A first Write after the close makes a pipe
\* that nobody reads or closes any more, and the early returns of Run close none.
WritesReturn ==
  \A p \in Procs \ Broken : wpc[p] = "writing" /\ ~Returned(p) ~> wpc[p] # "writing"

\* A goroutine reading a StdoutPipe obtained before Run gets to EOF.
TailEnds == \A p \in Tailed : Stdout(p) \in pipes /\ pc[p] = "ready" ~> tailEOF[p]

\* Run returns when its stdin is fed by a goroutine that writes and closes.
RunReturns == \A p \in Procs : pc[p] = "run" ~> pc[p] = "done"
=============================================================================
