------------------------------ MODULE Pipeline ------------------------------
(***************************************************************************)
(* sandbox.Pipeline: a chain of processes, the stdout of each piped to the *)
(* stdin of the next, run concurrently and joined.  The wiring and the     *)
(* collection of the outcome are done by the goroutine that calls Run; in  *)
(* between the processes of module Process run on their own.               *)
(***************************************************************************)
EXTENDS Process

CONSTANTS
  Stages,   \* the processes of the stages, in order
  Timeout   \* the pipeline is run by RunWithTimeout

ASSUME PipelineAssumption ==
  /\ Stages \in Seq(Procs) /\ Len(Stages) > 0
  /\ \A i, j \in 1..Len(Stages) : i # j => Stages[i] # Stages[j]
  /\ Timeout \in BOOLEAN

VARIABLES
  ppc,       \* where Pipeline.Run is: idle, wait, done
  expired,   \* the deadline of RunWithTimeout has passed
  perr,      \* PipelineResult.Err # nil
  pout       \* PipelineResult.Stdout

vars == <<pvars, ppc, expired, perr, pout>>

First == Stages[1]
Last  == Stages[Len(Stages)]
Used  == {Stages[i] : i \in 1..Len(Stages)}

\* Nobody feeds a stage whose stdin Run connects to the stage before it.
ASSUME FeedAssumption == Fed \cap Used \subseteq {First}

\* The stage before p.
Before(p) == Stages[CHOOSE i \in 1..Len(Stages) : i < Len(Stages) /\ Stages[i + 1] = p]

Init ==
  /\ ProcessInit
  /\ pc = [p \in Procs |-> "new"]
  /\ ppc = "idle" /\ expired = FALSE /\ perr = FALSE /\ pout = <<>>

\* Before Run a caller that holds the processes of the stages (StageWithName)
\* may give the first its stdin and capture the output of the last.
Prepare ==
  /\ ppc = "idle"
  /\ \/ SetStdin(First, File)
     \/ CaptureStdout(Last)
  /\ UNCHANGED <<ppc, expired, perr, pout>>

\* Faulty variant: the last stage keeps a buffer it already has.
KeptLastBuf == IF outBuf[Last] = Nil THEN SharedBuf ELSE outBuf[Last]

\* The capture buffer the last stage runs with: the pipeline's own.
LastBuf == SharedBuf

\* Pipeline.Run connects the stages and starts a goroutine for each.
Start ==
  /\ ppc = "idle"
  /\ pipes'  = pipes \cup {Stdout(p) : p \in Used \ {Last}}
  /\ in'     = [p \in Procs |-> IF p \in Used \ {First} THEN Stdout(Before(p)) ELSE in[p]]
  /\ outBuf' = [outBuf EXCEPT ![Last] = LastBuf]
  /\ pc'     = [p \in Procs |-> IF p \in Used THEN "ready" ELSE pc[p]]
  /\ ppc'    = "wait"
  /\ UNCHANGED <<closed, offer, buf, out, src, dst, failed, result, seen, feeder, tailer,
                 expired, perr, pout>>

\* wg.Wait() returns: every stage's goroutine is done.
Joined == \A p \in Used : pc[p] = "done"

\* Pipeline.Run joins the errors of the stages and takes the captured output.
Collect ==
  /\ ppc = "wait" /\ Joined
  /\ ppc'  = "done"
  /\ perr' = \E p \in Used : failed[p]
  /\ pout' = buf[SharedBuf]
  /\ UNCHANGED <<pvars, expired>>

\* The context of RunWithTimeout is cancelled.
Expire ==
  /\ Timeout /\ ppc = "wait" /\ ~expired
  /\ expired' = TRUE
  /\ UNCHANGED <<pvars, ppc, perr, pout>>

\* A runner that looks at its context gives up, between two reads or writes.
Cancelled(p) ==
  /\ expired /\ pc[p] = "run"
  /\ pc'     = [pc EXCEPT ![p] = "exit"]
  /\ failed' = [failed EXCEPT ![p] = TRUE]
  /\ UNCHANGED <<io, fields, src, dst, result, seen, feeder, tailer, ppc, expired, perr, pout>>

Stage(p) ==
  \/ (Running(p) \/ Feeding(p)) /\ UNCHANGED <<ppc, expired, perr, pout>>
  \/ Cancelled(p)

Next == Prepare \/ Start \/ Collect \/ Expire \/ \E p \in Procs : Stage(p)

Spec == Init /\ [][Next]_vars

\* Goroutines that can run do, and a runner looks at its context in the end.
\* Run need not be called, and the deadline need not come.
Fairness ==
  /\ WF_vars(Collect)
  /\ \A p \in Procs : WF_vars(Running(p) /\ UNCHANGED <<ppc, expired, perr, pout>>)
                   /\ WF_vars(Feeding(p) /\ UNCHANGED <<ppc, expired, perr, pout>>)
                   /\ WF_vars(Cancelled(p))

LiveSpec == Spec /\ Fairness

-----------------------------------------------------------------------------
(* Properties.                                                             *)

\* A stage reaches EOF only when the runner of the stage before it has returned,
\* and has then read everything that stage wrote, in order.
EOFMeansAll ==
  \A i \in 1..(Len(Stages) - 1) :
    eof[Stages[i + 1]] => /\ Returned(Stages[i])
                          /\ got[Stages[i + 1]] = Written(Stages[i])

\* The outcome of the pipeline is the output of its last stage, and an error
\* iff any stage returned one, however early the last stage is done.
OutcomeComplete ==
  ppc = "done" => /\ pout = Written(Last)
                  /\ perr = \E p \in Used : failed[p]

\* Run returns when every stage behind the first reads its input to the end:
\* every pipe of the chain is closed by the stage that writes it.
PipelineReturns == ppc = "wait" ~> ppc = "done" \/ expired

\* RunWithTimeout executes the pipeline with a deadline: once it has passed,
\* with runners that give up on a cancelled context, the call returns.
DeadlineEndsRun == expired ~> ppc = "done"
=============================================================================
