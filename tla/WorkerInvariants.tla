-------------------------- MODULE WorkerInvariants --------------------------
(***************************************************************************)
(* The inductive invariants of WorkerSession: where a call stands, and how *)
(* far its exchange with the helper has come.  They are conjunctions of    *)
(* implications from the step of the calling thread.                       *)
(***************************************************************************)
EXTENDS WorkerSession

\* Steps of a call that has its answer.
EndingSteps == {"revoke", "grace", "done"}

\* Types of what the call and its child are about.
CallTypes ==
  /\ pc \in Steps
  /\ attempts \in Nat /\ attempts <= Restarts + 1
  /\ answer \in Answers
  /\ child \in {"running", "exited", "reaped"}
  /\ cancelled \in BOOLEAN

\* A call without a supervisor has no child, a call that goes on with one has
\* tried to start it, and a revoked session stays revoked.
CallOK ==
  /\ CallTypes
  /\ pc \in {"idle", "spawn", "judge", "done"} => child = "reaped"
  /\ pc = "spawn" => attempts <= Restarts
  /\ pc \notin {"idle", "spawn"} => attempts > 0
  /\ pc \in EndingSteps => answer # "none"
  /\ pc \notin EndingSteps \cup {"idle"} => answer = "none"
  /\ answer = "cancelled" => cancelled

\* The machine in each step: between two attempts it has not left the
\* handshake.
MachineOK ==
  /\ machine \in Machine
  /\ pc = "spawn" => machine.at \in {"AwaitingReady", "Ready"}
  /\ pc \in {"hello", "ready"} => machine = At("AwaitingReady")
  /\ pc = "start" => machine = At("Ready")
  /\ pc \in {"offer", "write", "end"} => machine.at = "Streaming"
  /\ pc = "writeEnd" => machine = At("AwaitingResult")
  /\ pc \in {"results", "receive"} =>
       machine.at \in {"AwaitingResult", "ReceivingResult", "AwaitingComplete"}
  /\ pc \in {"exit", "judge"} => machine.at = "Finished"

\* The chunks taken are numbered from 0, and the machine counts them.
OutputOK ==
  /\ output \in Seq(Nat)
  /\ \A i \in 1..Len(output) : output[i] = i - 1
  /\ pc \in StartupSteps \cup {"offer", "write", "end", "writeEnd"} =>
       output = <<>>
  /\ pc \in {"results", "receive"}
       /\ machine.at \in {"AwaitingResult", "ReceivingResult"} =>
       machine.next = Len(output)

\* What makes a class a success: the frame, then the exit code.
ClassOK == pc = "judge" /\ class = "Success" => status = "success"

ExchangeInv == CallOK /\ MachineOK /\ OutputOK /\ ClassOK /\ AcceptedMeansFinished

-----------------------------------------------------------------------------
\* A chunk is counted before it is written, a result from its first chunk.
CountsOK ==
  /\ pc = "write" => machine.next > 0
  /\ pc \in {"results", "receive"} /\ machine.at = "AwaitingResult"
       => machine.next = 0

\* Steps of the broker in which the stream to the worker gets nothing more, and
\* those after which it does not even get a Cancel.
SilentSteps == {"grace", "done", "idle", "spawn"}

\* What is on its way to the worker: the end of the input carries the count of
\* the whole, and half a chunk comes only with the last words of a broker that
\* has given up, a Cancel at most behind it.
SendingOK ==
  \A i \in 1..Len(toWorker) :
    /\ toWorker[i].kind = "End" => toWorker[i].n = Chunks
    /\ toWorker[i].kind = "Torn" =>
         \/ pc = "revoke" /\ i = Len(toWorker)
         \/ pc \in SilentSteps /\ Len(toWorker) <= i + 1

\* The worker has every chunk under its own number, or nothing more comes.
InputOK ==
  \/ \A i \in 1..Len(input) : input[i] = i - 1
  \/ pc \in SilentSteps /\ toWorker = <<>>

\* An honest worker has read the whole input and sent its whole result.
Delivered ==
  /\ input = [i \in 1..Chunks |-> i - 1]
  /\ wpc \in {"complete", "leaving", "gone"}

\* The end of the result says that it is whole, to the broker that waits for it
\* and up to the answer.
ResultOK ==
  /\ \A i \in 1..Len(toBroker) :
       toBroker[i].kind = "ResultEnd" => toBroker[i].n = results /\ Delivered
  /\ \/ pc \in {"results", "receive"} /\ machine.at = "AwaitingComplete"
     \/ pc \in {"exit", "judge"} /\ output # <<>>
     \/ answer = "prepared"
     => Len(output) = results /\ Delivered

\* The locks of the worker are told by its last frame.
LocksOK ==
  /\ \A i \in 1..Len(toBroker) :
       toBroker[i].kind = "Complete" =>
         toBroker[i].degraded = wlocks /\ wpc \in {"leaving", "gone"}
  /\ pc \in {"exit", "judge"} /\ class = "Success" =>
       (wlocks => locks) /\ wpc \in {"leaving", "gone"}

\* What the broker has seen of a child it serves is with the supervisor.
ObservedOK ==
  /\ pc \in {"hello", "ready"} => ~observed
  /\ pc \in {"start"} \cup ServingSteps => (observed => locks)

ResultInv ==
  /\ ExchangeInv
  /\ TypeOK /\ CountsOK
  /\ SendingOK /\ InputOK /\ TransformOnlyWhole
  /\ ~rogue => ResultOK /\ LocksOK
  /\ ObservedOK /\ LockedMeansLocked
=============================================================================
