---------------------------- MODULE WorkerSession ----------------------------
(***************************************************************************)
(* One caller and its isolated helper: the image import                    *)
(* (crates/osv-import/src/lib.rs, prepare_rendition_cancellable) drives a  *)
(* Supervisor (crates/osv-isolation/src/supervisor.rs), which starts a     *)
(* child process, sends it the input chunk by chunk over a stream socket,  *)
(* collects its result and waits for its exit; the child runs the worker   *)
(* loop (worker.rs).  Both sides block on a full or an empty stream        *)
(* (transport.rs), the broker until a deadline or a revocation, the worker *)
(* without limit.                                                          *)
(*                                                                         *)
(* A stream holds Capacity frames.  The bytes of a frame that was only     *)
(* half written when its sender gave up are a "Torn" frame.                *)
(***************************************************************************)
EXTENDS WorkerProtocol, Sequences

CONSTANTS
  Chunks,      \* Data frames of a request: its header and the source
  MaxResults,  \* longest result of a transform, in chunks
  Ceiling,     \* result chunks the broker takes: MAX_RESULT_CHUNKS and the
               \*   maximum_output of the call
  Capacity,    \* frames the socket buffer of one direction holds
  Restarts,    \* SupervisorLimits::maximum_restarts
  Faults       \* what the environment may do

\* "startup" and "operation" are the deadlines of the two phases, "cancel" the
\* revocation of the session, "memlock" memory that cannot be locked, "rogue" a
\* helper that does not keep to the protocol.
FaultKind == {"spawn", "startup", "operation", "cancel", "crash", "rogue",
              "memlock"}

ASSUME SessionAssumption ==
  /\ Chunks \in Nat \ {0}
  /\ MaxResults \in Nat \ {0}
  /\ Ceiling \in Nat \ {0} /\ MaxResults <= Ceiling
  /\ Capacity \in Nat \ {0}
  /\ Restarts \in Nat
  /\ Faults \subseteq FaultKind

VARIABLES
  pc,         \* step of the calling thread
  attempts,   \* children it tried to start in this call
  machine,    \* BrokerMachine of the current attempt
  output,     \* result chunks taken so far
  class,      \* ExitClass of the finished exchange
  channel,    \* FramedChannel::lock_status of the broker: TRUE is Degraded
  locks,      \* Supervisor::lock_status
  answer,     \* what the call returns
  told,       \* degradation that the answer carries
  cancelled,  \* the session's flag: set by revoke, never taken back
  expired,    \* the deadline of the current phase has passed
  surfaced,   \* security_degraded of the session
  observed    \* degradation the broker has seen of this child (history)

VARIABLES
  child,      \* the child process, "exited" until it is waited for
  status,     \* ... how it ended, or is about to
  wpc,        \* step of the worker loop
  input,      \* Data chunks it has received
  results,    \* length of its result
  emitted,    \* result chunks it has sent
  wlocks,     \* degradation it reports: channel and plaintext owners
  rogue       \* this child does not keep to the protocol

VARIABLES
  toWorker, toBroker,  \* frames on the way in each direction
  hup                  \* the broker has shut its end down

callVars == <<answer, told, surfaced, observed>>
brokerVars == <<pc, attempts, machine, output, class, channel, locks>>
workerVars == <<child, status, wpc, input, results, emitted, wlocks, rogue>>
streamVars == <<toWorker, toBroker, hup>>
vars == <<callVars, brokerVars, workerVars, streamVars, cancelled, expired>>

StartupSteps == {"hello", "ready", "start"}
ServingSteps == {"offer", "write", "end", "writeEnd", "results", "receive",
                 "exit", "judge"}
Steps == {"idle", "spawn", "revoke", "grace", "done"} \cup StartupSteps
           \cup ServingSteps

\* "prepared" is a result, "refused" ImageImportError::Input, "failed" a
\* SupervisorError.
Answers == {"none", "prepared", "refused", "failed", "cancelled"}

\* The lock status of a protected allocation.
Degrade == IF "memlock" \in Faults THEN BOOLEAN ELSE {FALSE}

-----------------------------------------------------------------------------
(* The streams, as the broker sees them. *)

WorkerGone == child # "running"

\* A send buffer of Capacity frames; the torn beginning of one leaves room for others.
Room(stream) == Len(SelectSeq(stream, LAMBDA f : f.kind # "Torn")) < Capacity

\* A whole frame can be read: a torn one is waited for until its sender is gone.
Arrived(stream) == stream # <<>> /\ Head(stream).kind # "Torn"

\* read_exact meets the end of the stream.
EndOfFile == ~Arrived(toBroker) /\ WorkerGone

\* wait() polls: no byte to read, no room to write.
ReadBlocked == ~Arrived(toBroker) /\ ~WorkerGone
WriteBlocked == ~Room(toWorker) /\ ~WorkerGone

Post(f) ==
  /\ Room(toWorker) /\ ~WorkerGone
  /\ toWorker' = Append(toWorker, f)
  /\ UNCHANGED <<toBroker, hup>>

\* A blocked send of a Data frame is given up: some of its bytes may be out.
GiveUp ==
  /\ WriteBlocked
  /\ \/ UNCHANGED toWorker
     \/ toWorker' = Append(toWorker, Plain("Torn"))
  /\ UNCHANGED <<toBroker, hup>>

-----------------------------------------------------------------------------
(* The broker: startup. *)

\* prepare_* has read the source and calls spawn.
Begin ==
  /\ pc = "idle" /\ ~cancelled
  /\ pc' = "spawn"
  /\ attempts' = 0
  /\ machine' = At("AwaitingReady")
  /\ answer' = "none" /\ told' = FALSE /\ observed' = FALSE
  /\ UNCHANGED <<output, class, channel, locks, surfaced, workerVars,
                 streamVars, cancelled, expired>>

\* ... or answers at once that the session is revoked.
Decline ==
  /\ pc = "idle" /\ cancelled
  /\ attempts' = 0
  /\ answer' = "cancelled" /\ told' = FALSE /\ observed' = FALSE
  /\ UNCHANGED <<pc, machine, output, class, channel, locks, surfaced,
                 workerVars, streamVars, cancelled, expired>>

\* spawn tries again, or returns the error of the last attempt.
Retry(tries, degraded) ==
  IF tries <= Restarts
  THEN pc' = "spawn" /\ UNCHANGED <<answer, told>>
  ELSE pc' = "done" /\ answer' = "failed" /\ told' = degraded

SpawnFails ==
  /\ "spawn" \in Faults
  /\ pc = "spawn"
  /\ attempts' = attempts + 1
  /\ observed' = FALSE
  /\ Retry(attempts + 1, FALSE)
  /\ UNCHANGED <<machine, output, class, channel, locks, surfaced, workerVars,
                 streamVars, cancelled, expired>>

SpawnOnce ==
  /\ pc = "spawn"
  /\ pc' = "hello"
  /\ attempts' = attempts + 1
  /\ machine' = At("AwaitingReady")
  /\ output' = <<>> /\ class' = "none"
  /\ channel' = FALSE /\ locks' = FALSE
  /\ expired' = FALSE
  /\ child' = "running" /\ status' = "none"
  /\ wpc' = "boot" /\ input' = <<>> /\ results' = 0 /\ emitted' = 0
  /\ wlocks' = FALSE
  /\ rogue' \in (IF "rogue" \in Faults THEN BOOLEAN ELSE {FALSE})
  /\ toWorker' = <<>> /\ toBroker' = <<>> /\ hup' = FALSE
  /\ observed' = FALSE
  /\ UNCHANGED <<answer, told, surfaced, cancelled>>

\* Mutant: an abandoned attempt leaves its child behind.
LeaveChild == UNCHANGED <<child, status, wpc>>

\* The drop of StartupChild: kill and wait.
KillAndWait ==
  /\ child' = "reaped"
  /\ status' = IF WorkerGone THEN status ELSE "signal"
  /\ wpc' = "gone"

\* An error in spawn_once drops the channel and the child.
StartupFails(degraded) ==
  /\ KillAndWait
  /\ toWorker' = <<>> /\ toBroker' = <<>> /\ hup' = TRUE
  /\ Retry(attempts, degraded)
  /\ UNCHANGED <<input, results, emitted, wlocks, rogue, attempts, output,
                 class, surfaced, cancelled, expired>>

StartupBreaks ==
  /\ \/ pc \in {"hello", "start"} /\ WorkerGone
     \/ pc = "ready" /\ EndOfFile
     \/ pc = "ready" /\ expired /\ ReadBlocked
     \/ pc = "start" /\ expired /\ WriteBlocked
  /\ StartupFails(channel)
  /\ UNCHANGED <<machine, channel, locks, observed>>

SendHello ==
  /\ pc = "hello"
  /\ Post(Plain("Hello"))
  /\ machine' = Sent(machine, Plain("Hello"))
  /\ pc' = "ready"
  /\ UNCHANGED <<attempts, output, class, channel, locks, callVars, workerVars,
                 cancelled, expired>>

ReceiveReady ==
  /\ pc = "ready" /\ Arrived(toBroker)
  /\ \E d \in Degrade :
       LET f == Head(toBroker)
           next == Received(machine, f)
       IN  /\ channel' = (channel \/ d)
           /\ IF next = InvalidTransition
              THEN /\ StartupFails(channel')
                   /\ observed' = (observed \/ d)
                   /\ UNCHANGED <<machine, locks>>
              ELSE /\ machine' = next
                   /\ locks' = (channel' \/ f.degraded)
                   /\ observed' = (observed \/ locks')
                   /\ IF f.n = NoSandbox
                      THEN StartupFails(locks')
                      ELSE /\ pc' = "start"
                           /\ toBroker' = Tail(toBroker)
                           /\ UNCHANGED <<attempts, output, class, answer,
                                told, surfaced, workerVars, toWorker, hup,
                                cancelled, expired>>

SendStart ==
  /\ pc = "start"
  /\ Post(Plain("Start"))
  /\ machine' = Sent(machine, Plain("Start"))
  /\ pc' = "offer"
  /\ expired' = FALSE
  /\ UNCHANGED <<attempts, output, class, channel, locks, callVars, workerVars,
                 cancelled>>

-----------------------------------------------------------------------------
(* The broker: input.  All steps that end a call go through the drop of the  *)
(* Supervisor, which is cancel() once more.                                  *)

Conclude(a, degraded) ==
  /\ pc' = "revoke"
  /\ answer' = a
  /\ told' = degraded

\* Mutant: a send that fails is tried again with a new child.
RespawnOnError == pc' = "spawn" /\ UNCHANGED <<answer, told>>

\* An error of send_authenticated: the caller looks at the flag first.
SendFails == IF cancelled THEN Conclude("cancelled", FALSE)
                          ELSE Conclude("failed", locks)

\* The loop over the source, and what send_authenticated checks before it sends.
OfferChunk ==
  /\ pc = "offer"
  /\ IF machine.next = Chunks
     THEN pc' = "end" /\ UNCHANGED <<machine, answer, told>>
     ELSE IF cancelled \/ expired
     THEN SendFails /\ UNCHANGED machine
     ELSE /\ machine' = Sent(machine, Numbered("Data", machine.next))
          /\ pc' = "write"
          /\ UNCHANGED <<answer, told>>
  /\ UNCHANGED <<attempts, output, class, channel, locks, surfaced, observed,
                 workerVars, streamVars, cancelled, expired>>

WriteChunk ==
  /\ pc = "write"
  /\ Post(Numbered("Data", machine.next - 1))
  /\ \E d \in Degrade :
       /\ locks' = (locks \/ d)
       /\ observed' = (observed \/ d)
  /\ pc' = "offer"
  /\ UNCHANGED <<attempts, machine, output, class, channel, answer, told,
                 surfaced, workerVars, cancelled, expired>>

\* The worker is gone, or the flag or the deadline ends the wait for room.
WriteFails ==
  /\ pc = "write"
  /\ \/ WorkerGone /\ UNCHANGED streamVars
     \/ (cancelled \/ expired) /\ GiveUp
  /\ SendFails
  /\ UNCHANGED <<attempts, machine, output, class, channel, locks, surfaced,
                 observed, workerVars, cancelled, expired>>

BeginFinish ==
  /\ pc = "end"
  /\ IF cancelled
     THEN Conclude("cancelled", FALSE) /\ UNCHANGED machine
     ELSE IF expired
     THEN Conclude("failed", locks) /\ UNCHANGED machine
     ELSE /\ machine' = Sent(machine, Numbered("End", machine.next))
          /\ pc' = "writeEnd"
          /\ UNCHANGED <<answer, told>>
  /\ UNCHANGED <<attempts, output, class, channel, locks, surfaced, observed,
                 workerVars, streamVars, cancelled, expired>>

\* Mutant: the end of the input is not sent.
ForgetEnd ==
  /\ pc = "writeEnd"
  /\ pc' = "results"
  /\ UNCHANGED <<attempts, machine, output, class, channel, locks, callVars,
                 workerVars, streamVars, cancelled, expired>>

WriteEnd ==
  /\ pc = "writeEnd"
  /\ Post(Numbered("End", Chunks))
  /\ pc' = "results"
  /\ UNCHANGED <<attempts, machine, output, class, channel, locks, callVars,
                 workerVars, cancelled, expired>>

\* An error of finish_with_output is returned as it is; a cancelled exchange
\* has a class and no output, and the caller looks at the flag.
WriteEndFails ==
  /\ pc = "writeEnd"
  /\ \/ WorkerGone /\ Conclude("failed", locks)
     \/ WriteBlocked /\ cancelled /\ Conclude("cancelled", FALSE)
     \/ WriteBlocked /\ ~cancelled /\ expired /\ Conclude("failed", locks)
  /\ UNCHANGED <<attempts, machine, output, class, channel, locks, surfaced,
                 observed, workerVars, streamVars, cancelled, expired>>

-----------------------------------------------------------------------------
(* The broker: result and exit. *)

\* The loop of finish_with_output looks at the flag before each receive.
CheckCancelled ==
  /\ pc = "results"
  /\ IF cancelled THEN Conclude("cancelled", FALSE)
                  ELSE pc' = "receive" /\ UNCHANGED <<answer, told>>
  /\ UNCHANGED <<attempts, machine, output, class, channel, locks, surfaced,
                 observed, workerVars, streamVars, cancelled, expired>>

ResponseClass(f) == IF f.kind = "Complete" THEN "Success" ELSE "WorkerFailure"

\* Mutant: the report that comes with the last frame is ignored.
NotReported(f) == FALSE

\* The page-lock status in a frame the machine accepts.
Reported(f) == f.degraded /\ Received(machine, f) # InvalidTransition

\* Mutant: the chunks are not counted.
NoLimit(f) == FALSE

OverCeiling(f) == f.kind = "Result" /\ Len(output) = Ceiling

TakeFrame(f, degraded) ==
  LET next == Received(machine, f)
  IN  IF next = InvalidTransition \/ OverCeiling(f)
      THEN /\ Conclude("failed", degraded)
           /\ machine' = IF next = InvalidTransition THEN machine ELSE next
           /\ UNCHANGED <<output, class>>
      ELSE /\ machine' = next
           /\ output' = IF f.kind = "Result" THEN Append(output, f.n) ELSE output
           /\ IF f.kind \in {"Complete", "Failed"}
              THEN class' = ResponseClass(f) /\ pc' = "exit"
              ELSE pc' = "results" /\ UNCHANGED class
           /\ UNCHANGED <<answer, told>>

Receive ==
  /\ pc = "receive" /\ Arrived(toBroker)
  /\ \E d \in Degrade :
       LET f == Head(toBroker)
           bad == d \/ Reported(f)
       IN  /\ locks' = (locks \/ bad)
           /\ observed' = (observed \/ bad)
           /\ TakeFrame(f, locks \/ bad)
  /\ toBroker' = Tail(toBroker)
  /\ UNCHANGED <<attempts, channel, surfaced, workerVars, toWorker, hup,
                 cancelled, expired>>

\* Mutant: the wait for a frame does not look at the flag.
ReceiveIgnoresFlag ==
  /\ pc = "receive"
  /\ EndOfFile \/ (ReadBlocked /\ expired)
  /\ Conclude("failed", locks)
  /\ UNCHANGED <<attempts, machine, output, class, channel, locks, surfaced,
                 observed, workerVars, streamVars, cancelled, expired>>

\* Mutant: it does not look at the deadline.
ReceiveWithoutDeadline ==
  /\ pc = "receive"
  /\ \/ EndOfFile /\ Conclude("failed", locks)
     \/ ReadBlocked /\ cancelled /\ Conclude("cancelled", FALSE)
  /\ UNCHANGED <<attempts, machine, output, class, channel, locks, surfaced,
                 observed, workerVars, streamVars, cancelled, expired>>

ReceiveFails ==
  /\ pc = "receive"
  /\ \/ EndOfFile /\ Conclude("failed", locks)
     \/ ReadBlocked /\ cancelled /\ Conclude("cancelled", FALSE)
     \/ ReadBlocked /\ ~cancelled /\ expired /\ Conclude("failed", locks)
  /\ UNCHANGED <<attempts, machine, output, class, channel, locks, surfaced,
                 observed, workerVars, streamVars, cancelled, expired>>

Classify(s) == CASE s = "success" -> "Success"
                 [] s = "signal" -> "Signal"
                 [] OTHER -> "WorkerFailure"

\* wait_for_exit: the flag, the child, the deadline, in this order.
WaitForExit ==
  /\ pc = "exit"
  /\ CASE cancelled ->
            Conclude("cancelled", FALSE) /\ UNCHANGED <<class, child>>
       [] ~cancelled /\ WorkerGone ->
            /\ child' = "reaped"
            /\ class' = IF class = "Success" THEN Classify(status) ELSE class
            /\ pc' = "judge"
            /\ UNCHANGED <<answer, told>>
       [] OTHER ->
            expired /\ Conclude("failed", locks) /\ UNCHANGED <<class, child>>
  /\ UNCHANGED <<attempts, machine, output, channel, locks, surfaced, observed,
                 status, wpc, input, results, emitted, wlocks, rogue,
                 streamVars, cancelled, expired>>

\* Mutant: a class other than Success is not looked at.
JudgeAnyClass ==
  /\ pc = "judge"
  /\ IF cancelled THEN Conclude("cancelled", FALSE)
     ELSE IF output = <<>> THEN Conclude("refused", FALSE)
     ELSE \/ Conclude("prepared", locks)
          \/ rogue /\ Conclude("refused", FALSE)
  /\ UNCHANGED <<attempts, machine, output, class, channel, locks, surfaced,
                 observed, workerVars, streamVars, cancelled, expired>>

\* The caller's checks of the result; only a rogue worker's contradicts the
\* probe of the source.
Judge ==
  /\ pc = "judge"
  /\ IF cancelled THEN Conclude("cancelled", FALSE)
     ELSE IF class # "Success" \/ output = <<>> THEN Conclude("refused", FALSE)
     ELSE \/ Conclude("prepared", locks)
          \/ rogue /\ Conclude("refused", FALSE)
  /\ UNCHANGED <<attempts, machine, output, class, channel, locks, surfaced,
                 observed, workerVars, streamVars, cancelled, expired>>

-----------------------------------------------------------------------------
(* The broker: cancel() and the return to the session. *)

\* One attempt to send Cancel without blocking, then shutdown(Both).
Revoke ==
  /\ pc = "revoke"
  /\ pc' = "grace"
  /\ machine' = LET next == Sent(machine, Plain("Cancel"))
                IN  IF next = InvalidTransition THEN machine ELSE next
  /\ IF Room(toWorker) /\ ~WorkerGone
     THEN toWorker' = Append(toWorker, Plain("Cancel"))
     ELSE UNCHANGED toWorker
  /\ toBroker' = <<>>
  /\ hup' = TRUE
  /\ UNCHANGED <<attempts, output, class, channel, locks, callVars, workerVars,
                 cancelled, expired>>

Reap ==
  /\ pc = "grace" /\ WorkerGone
  /\ child' = "reaped"
  /\ pc' = "done"
  /\ UNCHANGED <<attempts, machine, output, class, channel, locks, callVars,
                 status, wpc, input, results, emitted, wlocks, rogue,
                 streamVars, cancelled, expired>>

\* The grace period is over.
Kill ==
  /\ pc = "grace" /\ ~WorkerGone
  /\ KillAndWait
  /\ pc' = "done"
  /\ UNCHANGED <<attempts, machine, output, class, channel, locks, callVars,
                 input, results, emitted, wlocks, rogue, streamVars,
                 cancelled, expired>>

\* The owner thread records the lock status of what it got.
Return ==
  /\ pc = "done"
  /\ pc' = "idle"
  /\ surfaced' = (surfaced \/ (answer = "prepared" /\ told))
  /\ UNCHANGED <<attempts, machine, output, class, channel, locks, answer,
                 told, observed, workerVars, streamVars, cancelled, expired>>

-----------------------------------------------------------------------------
(* The worker.  It has no deadline: it waits until the broker's end moves or *)
(* is shut.                                                                  *)

Serving(step) == child = "running" /\ ~rogue /\ wpc = step

Exit(s) ==
  /\ child' = "exited"
  /\ status' = s
  /\ wpc' = "gone"

\* A send whose error ends the worker with code 1.
Emit(f, step) ==
  /\ \/ /\ ~hup /\ Room(toBroker)
        /\ toBroker' = Append(toBroker, f)
        /\ wpc' = step
        /\ UNCHANGED <<child, status>>
     \/ hup /\ Exit("failure") /\ UNCHANGED toBroker
  /\ UNCHANGED <<toWorker, hup>>

\* The last send before an exit with status s, and with status e when the
\* broker is no longer there.
EmitAndLeave(f, s, e) ==
  /\ \/ /\ ~hup /\ Room(toBroker)
        /\ toBroker' = Append(toBroker, f)
        /\ wpc' = "leaving" /\ status' = s
        /\ UNCHANGED child
     \/ hup /\ Exit(e) /\ UNCHANGED toBroker
  /\ UNCHANGED <<toWorker, hup>>

Consume == toWorker' = Tail(toWorker) /\ UNCHANGED <<toBroker, hup>>

\* run_worker_transformed up to the first receive: sandbox applied.
Boot ==
  /\ Serving("boot")
  /\ wpc' = "hello"
  /\ UNCHANGED <<child, status, input, results, emitted, wlocks, rogue,
                 streamVars, callVars, brokerVars, cancelled, expired>>

\* A receive ends with the stream, within a frame or between two.
WorkerEndOfFile ==
  /\ \E step \in {"hello", "start", "input"} : Serving(step)
  /\ hup /\ ~Arrived(toWorker)
  /\ Exit("failure")
  /\ UNCHANGED <<input, results, emitted, wlocks, rogue, streamVars, callVars,
                 brokerVars, cancelled, expired>>

\* The first two frames have to be the expected ones.
ReceiveOpening(step, kind, follow) ==
  /\ Serving(step) /\ Arrived(toWorker)
  /\ \E d \in Degrade : wlocks' = (wlocks \/ d)
  /\ IF Head(toWorker).kind = kind
     THEN wpc' = follow /\ UNCHANGED <<child, status>>
     ELSE Exit("failure")
  /\ Consume
  /\ UNCHANGED <<input, results, emitted, rogue, callVars, brokerVars,
                 cancelled, expired>>

ReceiveHello == ReceiveOpening("hello", "Hello", "ready")
ReceiveStart == ReceiveOpening("start", "Start", "input")

SendReady ==
  /\ Serving("ready")
  /\ Emit(Report("Ready", wlocks), "start")
  /\ UNCHANGED <<input, results, emitted, wlocks, rogue, callVars, brokerVars,
                 cancelled, expired>>

\* Mutant: any End starts the transform.
TakeInputUncounted(f) ==
  CASE f.kind = "Data" /\ f.n = Len(input) ->
         /\ input' = Append(input, f.n)
         /\ UNCHANGED <<wpc, child, status>>
    [] f.kind \in {"End", "Cancel"} ->
         wpc' = "transform" /\ UNCHANGED <<input, child, status>>
    [] OTHER -> wpc' = "reject" /\ UNCHANGED <<input, child, status>>

\* A chunk in order, the end with the right count, a Cancel, or an error.  The
\* size limits are above what the caller sends.
TakeInput(f) ==
  CASE f.kind = "Data" /\ f.n = Len(input) ->
         /\ input' = Append(input, f.n)
         /\ UNCHANGED <<wpc, child, status>>
    [] f.kind = "End" /\ f.n = Len(input) ->
         wpc' = "transform" /\ UNCHANGED <<input, child, status>>
    [] f.kind = "Cancel" -> Exit("success") /\ UNCHANGED input
    [] OTHER -> wpc' = "reject" /\ UNCHANGED <<input, child, status>>

ReceiveInput ==
  /\ Serving("input") /\ Arrived(toWorker)
  /\ \E d \in Degrade :
       /\ wlocks' = (wlocks \/ d)
       /\ IF d
          THEN wpc' = "reject" /\ UNCHANGED <<input, child, status>>
          ELSE TakeInput(Head(toWorker))
  /\ Consume
  /\ UNCHANGED <<results, emitted, rogue, callVars, brokerVars, cancelled,
                 expired>>

\* The frame after a torn Data frame completes it: a chunk with foreign bytes.
Foreign == Chunks

ReceiveForeign ==
  /\ Serving("input") /\ Len(toWorker) > 1 /\ Head(toWorker).kind = "Torn"
  /\ input' = Append(input, Foreign)
  /\ toWorker' = Tail(Tail(toWorker))
  /\ UNCHANGED <<child, status, wpc, results, emitted, wlocks, rogue, toBroker,
                 hup, callVars, brokerVars, cancelled, expired>>

\* The transform is a function of the input: here its result's length.
Transform ==
  /\ Serving("transform")
  /\ \/ /\ wpc' = "result"
        /\ results' \in 1..MaxResults
        /\ \E d \in Degrade : wlocks' = (wlocks \/ d)
     \/ /\ wpc' = "refuse"
        /\ UNCHANGED <<results, wlocks>>
  /\ UNCHANGED <<child, status, input, emitted, rogue, streamVars, callVars,
                 brokerVars, cancelled, expired>>

SendResult ==
  /\ Serving("result") /\ emitted < results
  /\ Emit(Numbered("Result", emitted), "result")
  /\ emitted' = emitted + 1
  /\ UNCHANGED <<input, results, wlocks, rogue, callVars, brokerVars,
                 cancelled, expired>>

SendResultEnd ==
  /\ Serving("result") /\ emitted = results
  /\ Emit(Numbered("ResultEnd", emitted), "complete")
  /\ UNCHANGED <<input, results, emitted, wlocks, rogue, callVars, brokerVars,
                 cancelled, expired>>

\* Complete, and the two ways to fail: an error of the transform ends in exit
\* code 0 whether or not it can be reported, a bad frame in exit code 1.
SendLast ==
  /\ \/ /\ Serving("complete")
        /\ EmitAndLeave(Report("Complete", wlocks), "success", "failure")
     \/ /\ Serving("refuse")
        /\ EmitAndLeave(Report("Failed", wlocks), "success", "success")
     \/ /\ Serving("reject")
        /\ EmitAndLeave(Report("Failed", wlocks), "failure", "failure")
  /\ UNCHANGED <<input, results, emitted, wlocks, rogue, callVars, brokerVars,
                 cancelled, expired>>

\* The worker loop has returned.
Leave ==
  /\ Serving("leaving")
  /\ Exit(status)
  /\ UNCHANGED <<input, results, emitted, wlocks, rogue, streamVars, callVars,
                 brokerVars, cancelled, expired>>

\* A panic, a failed allocation or limit, or a signal, perhaps within a write.
Crash ==
  /\ "crash" \in Faults
  /\ child = "running" /\ ~rogue
  /\ \E s \in {"failure", "signal"} : Exit(s)
  /\ \/ UNCHANGED toBroker
     \/ wpc = "result" /\ ~hup /\ toBroker' = Append(toBroker, Plain("Torn"))
  /\ UNCHANGED <<input, results, emitted, wlocks, rogue, toWorker, hup,
                 callVars, brokerVars, cancelled, expired>>

\* A helper that does not keep to the protocol sends and reads what it likes.
RogueFrames ==
  {Report(kind, d) : kind \in {"Complete", "Failed"}, d \in Degrade}
    \cup {[kind |-> "Ready", n |-> c, degraded |-> d] :
            c \in ReadyClaims, d \in Degrade}
    \cup {Numbered(kind, n) : kind \in {"Result", "ResultEnd"}, n \in 0..Ceiling}
    \cup {Plain("Garbage"), Plain("Torn")}

Rogue ==
  /\ child = "running" /\ rogue
  /\ \/ /\ ~hup /\ Room(toBroker)
        /\ \A i \in 1..Len(toBroker) : toBroker[i].kind # "Torn"
        /\ \E f \in RogueFrames : toBroker' = Append(toBroker, f)
        /\ UNCHANGED <<toWorker, hup, child, status, wpc>>
     \/ toWorker # <<>> /\ Consume /\ UNCHANGED <<child, status, wpc>>
     \/ (\E s \in {"success", "failure", "signal"} : Exit(s))
          /\ UNCHANGED streamVars
  /\ UNCHANGED <<input, results, emitted, wlocks, rogue, callVars, brokerVars,
                 cancelled, expired>>

-----------------------------------------------------------------------------
(* Revocation, time, and the whole. *)

\* VaultSession::revoke, from the UI thread.
RequestCancel ==
  /\ "cancel" \in Faults
  /\ ~cancelled
  /\ cancelled' = TRUE
  /\ UNCHANGED <<callVars, brokerVars, workerVars, streamVars, expired>>

Expire ==
  /\ \/ "startup" \in Faults /\ pc \in StartupSteps
     \/ "operation" \in Faults /\ pc \in ServingSteps
  /\ ~expired
  /\ expired' = TRUE
  /\ UNCHANGED <<callVars, brokerVars, workerVars, streamVars, cancelled>>

BrokerStep ==
  \/ SpawnFails \/ SpawnOnce \/ StartupBreaks
  \/ SendHello \/ ReceiveReady \/ SendStart
  \/ OfferChunk \/ WriteChunk \/ WriteFails
  \/ BeginFinish \/ WriteEnd \/ WriteEndFails
  \/ CheckCancelled \/ Receive \/ ReceiveFails
  \/ WaitForExit \/ Judge
  \/ Revoke \/ Reap \/ Kill \/ Return

WorkerStep ==
  \/ Boot \/ WorkerEndOfFile
  \/ ReceiveHello \/ SendReady \/ ReceiveStart
  \/ ReceiveInput \/ ReceiveForeign \/ Transform
  \/ SendResult \/ SendResultEnd \/ SendLast \/ Leave

Init ==
  /\ pc = "idle" /\ attempts = 0
  /\ machine = At("AwaitingReady") /\ output = <<>> /\ class = "none"
  /\ channel = FALSE /\ locks = FALSE
  /\ answer = "none" /\ told = FALSE /\ surfaced = FALSE /\ observed = FALSE
  /\ cancelled = FALSE /\ expired = FALSE
  /\ child = "reaped" /\ status = "none" /\ wpc = "gone" /\ input = <<>>
  /\ results = 0 /\ emitted = 0 /\ wlocks = FALSE /\ rogue = FALSE
  /\ toWorker = <<>> /\ toBroker = <<>> /\ hup = TRUE

Next ==
  \/ Begin \/ Decline
  \/ BrokerStep \/ WorkerStep
  \/ Rogue \/ Crash \/ RequestCancel \/ Expire

Spec == Init /\ [][Next]_vars

\* The calling thread and an honest helper are scheduled, its transform ends
\* (it is bounded by RLIMIT_CPU), and the startup deadline comes.  Nothing is
\* assumed of the operation deadline, of a rogue helper, or of the session.
Fairness ==
  /\ WF_vars(BrokerStep)
  /\ WF_vars(WorkerStep)
  /\ WF_vars(Expire /\ pc \in StartupSteps)

FairSpec == Spec /\ Fairness

-----------------------------------------------------------------------------
(* Properties. *)

\* Every variable has its type: in particular the machine never refuses a frame
\* the broker sends, and the broker holds no more output than its limits allow.
TypeOK ==
  /\ pc \in Steps /\ attempts \in 0..(Restarts + 1)
  /\ machine \in Machine
  /\ output \in Seq(Nat) /\ Len(output) <= Ceiling
  /\ class \in {"none", "Success", "WorkerFailure", "Signal"}
  /\ answer \in Answers
  /\ {channel, locks, told, cancelled, expired, surfaced, observed}
       \subseteq BOOLEAN
  /\ child \in {"running", "exited", "reaped"}
  /\ status \in {"none", "success", "failure", "signal"}
  /\ wpc \in {"boot", "hello", "ready", "start", "input", "transform",
              "result", "complete", "refuse", "reject", "leaving", "gone"}
  /\ input \in Seq(Nat)
  /\ results \in 0..MaxResults /\ emitted \in 0..MaxResults
  /\ {wlocks, rogue, hup} \subseteq BOOLEAN
  /\ toWorker \in Seq(Frame) /\ toBroker \in Seq(Frame)

\* A worker starts its transform only on the whole input, every chunk once, in
\* order and unaltered, however the send was cut short: the Cancel frame that
\* follows half a chunk, or the end of the stream, is never taken for the end
\* of the input.
TransformOnlyWhole ==
  wpc \in {"transform", "result", "complete", "refuse"} =>
    input = [i \in 1..Chunks |-> i - 1]

\* "The confined helper independently performs a complete decode before any
\* result is accepted" (osv-import/src/lib.rs:173): what the caller gets from an
\* honest helper is its whole result, computed from the whole input, and the
\* helper ended well after it.
ResultIsWhole ==
  answer = "prepared" /\ ~rogue =>
    /\ input = [i \in 1..Chunks |-> i - 1]
    /\ output = [i \in 1..results |-> i - 1]
    /\ status = "success"

\* Of any helper: a result is accepted only after its chunks came in order,
\* their count and Complete followed, and the process exited with code 0 and
\* was waited for.
AcceptedMeansFinished ==
  answer = "prepared" =>
    /\ machine.at = "Finished"
    /\ output # <<>>
    /\ \A i \in 1..Len(output) : output[i] = i - 1
    /\ child = "reaped" /\ status = "success"

\* A result that is said to have been handled in locked memory was: neither
\* side has met an allocation it could not lock.
LockedMeansLocked ==
  answer = "prepared" /\ ~rogue /\ ~told => ~wlocks /\ ~observed

\* "Transient and retained image-operation degradation is now aggregated
\* monotonically and surfaced" (ROADMAP.md:1841): when a call is over, the
\* session knows of the degradation its broker has seen last.
DegradationSurfaces == pc = "idle" /\ observed => surfaced

\* "Startup retry is bounded by policy and never applies beyond the handshake"
\* (docs/adr/0010-worker-protocol-and-sandbox.md:31): a call starts no child
\* after it has sent a chunk of input to an earlier one.
RetryOnlyInHandshake ==
  [][attempts' > attempts /\ attempts > 0 =>
       machine.at \in {"AwaitingReady", "Ready"}]_vars

\* The call implements the abstract request.
Abstract == INSTANCE AbstractRequest
              WITH working <- pc # "idle", launches <- attempts,
                   live <- child # "reaped",
                   reply <- IF pc = "idle" THEN answer ELSE "none"

\* Whatever the helper does and wherever the call ends, there is at most one
\* child at a time and none is left, running or unreaped, when it returns.
AbstractSpec == Abstract!Spec

\* A call that has got through the handshake with an honest helper returns
\* without any deadline: the two never wait for each other, whether the helper
\* answers early, fails, crashes or finds its input torn.
HonestCallReturns == (pc \in ServingSteps /\ ~rogue) ~> (pc = "idle")

\* However the helper behaves, the startup deadline ends the handshake of every
\* attempt, and a call whose operation deadline has passed returns.
DeadlineEnds ==
  /\ (pc \in {"spawn"} \cup StartupSteps) ~> (pc \in {"idle"} \cup ServingSteps)
  /\ (pc \in ServingSteps /\ expired) ~> (pc = "idle")

\* Once the session is revoked a call whose helper has started returns, however
\* the helper behaves, and without its operation deadline (ROADMAP.md:1628).
CancellationEnds == (cancelled /\ pc \in ServingSteps) ~> (pc = "idle")
=============================================================================
