------------------------ MODULE WorkerSessionProofs ------------------------
(***************************************************************************)
(* What holds of WorkerSession for every number of chunks, every stream    *)
(* capacity, number of restarts and set of faults.                         *)
(***************************************************************************)
EXTENDS WorkerInvariants, TLAPS

\* The steps that are not the broker's.
WorkerMoves == WorkerStep \/ Rogue \/ Crash

\* A step of the helper, honest or not, changes nothing of the calling thread,
\* and ends the child at most: it is the broker that waits for it.
LEMMA HelperKeepsCall ==
  ASSUME WorkerMoves
  PROVE  /\ UNCHANGED <<callVars, brokerVars, cancelled>>
         /\ child = "running" /\ child' \in {"running", "exited"}
<1>1. CASE WorkerStep
  <2>1. CASE Boot \/ WorkerEndOfFile \/ Leave
    BY <2>1 DEF Boot, WorkerEndOfFile, Leave, Serving, Exit
  <2>2. CASE ReceiveHello \/ ReceiveStart
    BY <2>2 DEF ReceiveHello, ReceiveStart, ReceiveOpening, Serving, Exit
  <2>3. CASE SendReady \/ SendResult \/ SendResultEnd
    BY <2>3 DEF SendReady, SendResult, SendResultEnd, Emit, Serving, Exit
  <2>4. CASE ReceiveInput
    BY <2>4 DEF ReceiveInput, TakeInput, Serving, Exit
  <2>5. CASE ReceiveForeign \/ Transform
    BY <2>5 DEF ReceiveForeign, Transform, Serving
  <2>6. CASE SendLast
    BY <2>6 DEF SendLast, EmitAndLeave, Serving, Exit
  <2> QED BY <1>1, <2>1, <2>2, <2>3, <2>4, <2>5, <2>6 DEF WorkerStep
<1>2. CASE Rogue
  BY <1>2 DEF Rogue, Exit
<1>3. CASE Crash
  BY <1>3 DEF Crash, Exit
<1> QED BY <1>1, <1>2, <1>3 DEF WorkerMoves

-----------------------------------------------------------------------------
(* Where a call stands. *)

\* A call starts in order.
LEMMA CallInit == Init => CallOK
<1>1. Restarts \in Nat
  BY SessionAssumption
<1>2. ASSUME Init PROVE attempts = 0 /\ cancelled = FALSE /\ answer = "none"
                          /\ pc = "idle" /\ child = "reaped"
  BY <1>2 DEF Init
<1> QED
  BY <1>1, <1>2 DEF CallOK, CallTypes, Steps, StartupSteps, ServingSteps,
              Answers, EndingSteps

\* Every step keeps it in order.
LEMMA CallStep ==
  ASSUME CallOK, [Next]_vars
  PROVE  CallOK'
<1>0. Restarts \in Nat
  BY SessionAssumption
<1> USE DEF CallOK, CallTypes, Steps, StartupSteps, ServingSteps, Answers,
            EndingSteps
<1>1. CASE Begin \/ Decline \/ Return
  BY <1>0, <1>1 DEF Begin, Decline, Return, workerVars
<1>2. CASE SpawnFails \/ SpawnOnce
  <2>1. pc = "spawn" /\ attempts' = attempts + 1
    BY <1>2 DEF SpawnFails, SpawnOnce
  <2>2. attempts' \in Nat /\ attempts' > 0 /\ attempts' <= Restarts + 1
    BY <1>0, <2>1
  <2> QED
    BY <1>0, <1>2, <2>1, <2>2 DEF SpawnFails, SpawnOnce, Retry, workerVars
<1>3. CASE StartupBreaks
  BY <1>3 DEF StartupBreaks, StartupFails, KillAndWait, Retry
<1>4. CASE ReceiveReady
  BY <1>4 DEF ReceiveReady, StartupFails, KillAndWait, Retry, workerVars
<1>5. CASE SendHello \/ SendStart
  BY <1>5 DEF SendHello, SendStart, callVars, workerVars
<1>6. CASE OfferChunk \/ WriteChunk \/ WriteFails
  BY <1>6 DEF OfferChunk, WriteChunk, WriteFails, SendFails, Conclude,
              workerVars
<1>7. CASE BeginFinish \/ WriteEnd \/ WriteEndFails \/ CheckCancelled
  BY <1>7 DEF BeginFinish, WriteEnd, WriteEndFails, CheckCancelled, Conclude,
              workerVars, callVars
<1>8. CASE Receive
  BY <1>8 DEF Receive, TakeFrame, Conclude, workerVars
<1>9. CASE ReceiveFails \/ Judge
  BY <1>9 DEF ReceiveFails, Judge, Conclude, workerVars
<1>10. CASE WaitForExit
  BY <1>10 DEF WaitForExit, WorkerGone, Conclude
<1>11. CASE Revoke \/ Reap \/ Kill
  BY <1>11 DEF Revoke, Reap, Kill, KillAndWait, callVars, workerVars
<1>12. CASE WorkerMoves
  BY <1>12, HelperKeepsCall DEF callVars, brokerVars
<1>13. CASE RequestCancel \/ Expire \/ UNCHANGED vars
  BY <1>13 DEF RequestCancel, Expire, vars, callVars, brokerVars, workerVars
<1> QED
  BY <1>1, <1>2, <1>3, <1>4, <1>5, <1>6, <1>7, <1>8, <1>9, <1>10, <1>11,
     <1>12, <1>13 DEF Next, BrokerStep, WorkerMoves

\* At every moment a call without a supervisor has no child process, running or
\* unreaped, and tries no more starts than its restarts allow.
THEOREM CallStands == Spec => []CallOK
BY CallInit, CallStep, PTL DEF Spec

-----------------------------------------------------------------------------
(* The call implements the abstract request. *)

\* The session starts as the abstract request does.
LEMMA AbstractInit == Init => Abstract!Init
BY DEF Init, Abstract!Init

\* Every step is one of the abstract actions or none: a failed or a first start
\* launches, what reaps the child stops it, and a call answers when it returns.
LEMMA AbstractStep ==
  ASSUME CallOK, CallOK', [Next]_vars
  PROVE  [Abstract!Next]_Abstract!avars
<1> USE DEF CallOK, CallTypes, Abstract!avars
<1>1. CASE Begin
  <2>1. Abstract!Call
    BY <1>1 DEF Begin, Abstract!Call, workerVars
  <2> QED BY <2>1 DEF Abstract!Next
<1>2. CASE Decline
  <2>1. Abstract!Decline
    BY <1>2 DEF Decline, Abstract!Decline, workerVars
  <2> QED BY <2>1 DEF Abstract!Next
<1>3. CASE SpawnFails \/ SpawnOnce
  <2>1. Abstract!Launch
    BY <1>3 DEF SpawnFails, SpawnOnce, Retry, Abstract!Launch, workerVars
  <2> QED BY <2>1 DEF Abstract!Next
<1>4. CASE StartupBreaks
  <2>1. Abstract!Stop \/ UNCHANGED Abstract!avars
    BY <1>4 DEF StartupBreaks, StartupFails, KillAndWait, Retry, Abstract!Stop
  <2> QED BY <2>1 DEF Abstract!Next
<1>5. CASE ReceiveReady
  <2>1. Abstract!Stop \/ UNCHANGED Abstract!avars
    BY <1>5 DEF ReceiveReady, StartupFails, KillAndWait, Retry, Abstract!Stop,
                workerVars
  <2> QED BY <2>1 DEF Abstract!Next
<1>6. CASE SendHello \/ SendStart
  BY <1>6 DEF SendHello, SendStart, callVars, workerVars
<1>7. CASE OfferChunk \/ WriteChunk \/ WriteFails
  BY <1>7 DEF OfferChunk, WriteChunk, WriteFails, SendFails, Conclude,
              workerVars
<1>8. CASE BeginFinish \/ WriteEnd \/ WriteEndFails \/ CheckCancelled
  BY <1>8 DEF BeginFinish, WriteEnd, WriteEndFails, CheckCancelled, Conclude,
              workerVars, callVars
<1>9. CASE Receive
  BY <1>9 DEF Receive, TakeFrame, Conclude, workerVars
<1>10. CASE ReceiveFails \/ Judge
  BY <1>10 DEF ReceiveFails, Judge, Conclude, workerVars
<1>11. CASE WaitForExit
  <2>1. Abstract!Stop \/ UNCHANGED Abstract!avars
    BY <1>11 DEF WaitForExit, Conclude, Abstract!Stop
  <2> QED BY <2>1 DEF Abstract!Next
<1>12. CASE Revoke
  BY <1>12 DEF Revoke, callVars, workerVars
<1>13. CASE Reap \/ Kill
  <2>1. Abstract!Stop \/ UNCHANGED Abstract!avars
    BY <1>13 DEF Reap, Kill, KillAndWait, Abstract!Stop, callVars
  <2> QED BY <2>1 DEF Abstract!Next
<1>14. CASE Return
  <2>1. Abstract!Answer
    BY <1>14 DEF Return, Abstract!Answer, Abstract!Answers, Answers,
                 EndingSteps, workerVars
  <2> QED BY <2>1 DEF Abstract!Next
<1>15. CASE WorkerMoves
  BY <1>15, HelperKeepsCall DEF callVars, brokerVars
<1>16. CASE RequestCancel
  <2>1. Abstract!Revoke
    BY <1>16 DEF RequestCancel, Abstract!Revoke, callVars, brokerVars,
                 workerVars
  <2> QED BY <2>1 DEF Abstract!Next
<1>17. CASE Expire \/ UNCHANGED vars
  BY <1>17 DEF Expire, vars, callVars, brokerVars, workerVars
<1> QED
  BY <1>1, <1>2, <1>3, <1>4, <1>5, <1>6, <1>7, <1>8, <1>9, <1>10, <1>11,
     <1>12, <1>13, <1>14, <1>15, <1>16, <1>17
  DEF Next, BrokerStep, WorkerMoves

\* For any helper and any faults: a call runs one child at a time, launches it
\* once and Restarts times more at most, answers when no child is left, and
\* says "cancelled" only of a revoked session.
THEOREM RequestImplements == Spec => AbstractSpec
<1>1. Init => Abstract!Init
  BY AbstractInit
<1>2. CallOK /\ CallOK' /\ [Next]_vars => [Abstract!Next]_Abstract!avars
  BY AbstractStep
<1> QED
  BY <1>1, <1>2, CallStands, PTL DEF Spec, AbstractSpec, Abstract!Spec

-----------------------------------------------------------------------------
(* How far the exchange has come. *)

\* The machine takes one frame before Start, a sound Ready.
LEMMA HandshakeFrame ==
  ASSUME NEW f, Received(At("AwaitingReady"), f) # InvalidTransition
  PROVE  Received(At("AwaitingReady"), f) = At("Ready")
BY DEF Received, At, InvalidTransition

\* After End it takes chunks in order, their count, and the last frame.
LEMMA ResultFrame ==
  ASSUME NEW m, NEW f, Received(m, f) # InvalidTransition,
         m.at \in {"AwaitingResult", "ReceivingResult", "AwaitingComplete"}
  PROVE  \/ /\ f.kind = "Result" /\ f.n = m.next
            /\ m.at \in {"AwaitingResult", "ReceivingResult"}
            /\ Received(m, f) = [at |-> "ReceivingResult", next |-> m.next + 1]
         \/ /\ f.kind = "ResultEnd"
            /\ Received(m, f) = At("AwaitingComplete")
         \/ /\ f.kind \in {"Complete", "Failed"}
            /\ Received(m, f) = At("Finished")
BY DEF Received, At, InvalidTransition

\* The frames the broker sends are those the machine expects.
LEMMA SentFrames ==
  /\ Sent(At("AwaitingReady"), Plain("Hello")) = At("AwaitingReady")
  /\ Sent(At("Ready"), Plain("Start")) = At("Streaming")
  /\ \A m \in Machine : m.at = "Streaming" =>
       /\ Sent(m, Numbered("Data", m.next)) = [m EXCEPT !.next = m.next + 1]
       /\ Sent(m, Numbered("End", m.next)) = At("AwaitingResult")
  /\ \A m \in Machine :
       Sent(m, Plain("Cancel")) \in {At("Finished"), InvalidTransition}
  /\ \A m \in Machine : m.at = "Finished" =>
       Sent(m, Plain("Cancel")) = InvalidTransition
BY DEF Sent, At, Plain, Numbered, InvalidTransition, Machine

\* The worker's machine starts in order.
LEMMA MachineInit == Init => MachineOK
BY DEF Init, MachineOK, Machine, Phases, At

\* Every step keeps it in order.
LEMMA MachineStep ==
  ASSUME MachineOK, [Next]_vars
  PROVE  MachineOK'
<1> USE DEF MachineOK, StartupSteps
<1>0. \A p \in Phases : At(p) \in Machine /\ At(p).at = p
  BY DEF At, Machine
<1>1. CASE Begin \/ Decline \/ Return \/ SpawnFails \/ SpawnOnce
  BY <1>0, <1>1 DEF Begin, Decline, Return, SpawnFails, SpawnOnce, Retry,
     Phases
<1>2. CASE StartupBreaks
  BY <1>2 DEF StartupBreaks, StartupFails, Retry, At
<1>3. CASE ReceiveReady
  <2>1. Received(machine, Head(toBroker)) # InvalidTransition =>
          Received(machine, Head(toBroker)) = At("Ready")
    BY <1>3, HandshakeFrame DEF ReceiveReady
  <2> QED
    BY <1>0, <1>3, <2>1 DEF ReceiveReady, StartupFails, Retry, At, Phases
<1>4. CASE SendHello \/ SendStart
  BY <1>0, <1>4, SentFrames DEF SendHello, SendStart, Phases
<1>5. CASE OfferChunk
  <2>1. CASE UNCHANGED machine
    BY <1>5, <2>1 DEF OfferChunk, SendFails, Conclude
  <2>2. CASE machine' = Sent(machine, Numbered("Data", machine.next))
    <3>1. machine' = [machine EXCEPT !.next = machine.next + 1]
      BY <1>5, <2>2, SentFrames DEF OfferChunk
    <3>2. machine' \in Machine /\ machine'.at = "Streaming"
      BY <1>5, <3>1 DEF OfferChunk, Machine
    <3> QED BY <1>5, <3>2 DEF OfferChunk, SendFails, Conclude
  <2> QED BY <1>5, <2>1, <2>2 DEF OfferChunk
<1>6. CASE WriteChunk \/ WriteFails \/ WriteEnd \/ WriteEndFails
  BY <1>6 DEF WriteChunk, WriteFails, WriteEnd, WriteEndFails, SendFails,
     Conclude, At
<1>7. CASE BeginFinish
  BY <1>0, <1>7, SentFrames DEF BeginFinish, Conclude, Phases
<1>8. CASE CheckCancelled \/ ReceiveFails \/ WaitForExit \/ Judge
  BY <1>8 DEF CheckCancelled, ReceiveFails, WaitForExit, Judge, Conclude
<1>9. CASE Receive
  <2> DEFINE f == Head(toBroker)
  <2>1. CASE Received(machine, f) = InvalidTransition
    <3>1. PICK d \in Degrade : TakeFrame(f, locks \/ d \/ Reported(f))
      BY <1>9 DEF Receive
    <3>2. pc' = "revoke" /\ machine' = machine
      BY <2>1, <3>1 DEF TakeFrame, Conclude
    <3> QED BY <3>2
  <2>2. CASE Received(machine, f) # InvalidTransition
    <3>1. machine.at \in {"AwaitingResult", "ReceivingResult",
                          "AwaitingComplete"}
      BY <1>9 DEF Receive
    <3>2. machine' = Received(machine, f)
      BY <1>9, <2>2 DEF Receive, TakeFrame
    <3>3. machine' \in Machine
      BY <1>0, <2>2, <3>1, <3>2, ResultFrame DEF Machine, Phases
    <3>4. /\ machine'.at = "Finished" => f.kind \in {"Complete", "Failed"}
          /\ f.kind \in {"Complete", "Failed"} => machine'.at = "Finished"
          /\ machine'.at \in {"ReceivingResult", "AwaitingComplete",
                              "Finished"}
      BY <2>2, <3>1, <3>2, ResultFrame DEF At
    <3>5. \/ pc' = "revoke"
          \/ pc' = "exit" /\ f.kind \in {"Complete", "Failed"}
          \/ pc' = "results" /\ f.kind \notin {"Complete", "Failed"}
      BY <1>9, <2>2 DEF Receive, TakeFrame, Conclude
    <3> QED BY <3>3, <3>4, <3>5
  <2> QED BY <2>1, <2>2
<1>10. CASE Revoke \/ Reap \/ Kill
  BY <1>0, <1>10, SentFrames DEF Revoke, Reap, Kill, Phases
<1>11. CASE WorkerMoves
  BY <1>11, HelperKeepsCall DEF brokerVars
<1>12. CASE RequestCancel \/ Expire \/ UNCHANGED vars
  BY <1>12 DEF RequestCancel, Expire, vars, brokerVars
<1> QED
  BY <1>1, <1>2, <1>3, <1>4, <1>5, <1>6, <1>7, <1>8, <1>9, <1>10, <1>11,
     <1>12 DEF Next, BrokerStep, WorkerMoves

\* No output is taken at first.
LEMMA OutputInit == Init => OutputOK
BY DEF Init, OutputOK, StartupSteps

\* Only Receive adds a chunk, with the number the machine expected, and only a
\* new child starts the output anew.
LEMMA OutputStep ==
  ASSUME MachineOK, OutputOK, [Next]_vars
  PROVE  OutputOK'
<1> USE DEF OutputOK, StartupSteps
<1>1. CASE Begin \/ Decline \/ Return \/ SpawnFails
  BY <1>1 DEF Begin, Decline, Return, SpawnFails, Retry
<1>2. CASE SpawnOnce
  BY <1>2 DEF SpawnOnce
<1>3. CASE StartupBreaks \/ ReceiveReady
  BY <1>3 DEF StartupBreaks, ReceiveReady, StartupFails, Retry
<1>4. CASE SendHello \/ SendStart
  BY <1>4 DEF SendHello, SendStart
<1>5. CASE OfferChunk \/ WriteChunk \/ WriteFails \/ BeginFinish
  BY <1>5 DEF OfferChunk, WriteChunk, WriteFails, BeginFinish, SendFails,
     Conclude
<1>6. CASE WriteEnd
  <2>1. machine' = machine /\ machine.next = 0 /\ output' = <<>>
    BY <1>6 DEF WriteEnd, MachineOK, At
  <2> QED BY <1>6, <2>1 DEF WriteEnd
<1>7. CASE WriteEndFails \/ CheckCancelled \/ ReceiveFails \/ WaitForExit
             \/ Judge
  BY <1>7 DEF WriteEndFails, CheckCancelled, ReceiveFails, WaitForExit, Judge,
     Conclude
<1>8. CASE Receive
  <2> DEFINE f == Head(toBroker)
             next == Received(machine, f)
  <2>1. CASE next = InvalidTransition \/ OverCeiling(f)
    BY <1>8, <2>1 DEF Receive, TakeFrame, Conclude
  <2>2. CASE next # InvalidTransition /\ ~OverCeiling(f)
    <3>1. machine' = next /\ pc' \in {"results", "exit"}
          /\ output' = IF f.kind = "Result" THEN Append(output, f.n)
                                           ELSE output
      BY <1>8, <2>2 DEF Receive, TakeFrame
    <3>2. pc = "receive" /\ machine \in Machine
          /\ machine.at \in {"AwaitingResult", "ReceivingResult",
                             "AwaitingComplete"}
      BY <1>8 DEF Receive, MachineOK
    <3>3. CASE f.kind = "Result"
      <4>1. f.n = Len(output) /\ next.next = Len(output) + 1
        BY <2>2, <3>2, <3>3, ResultFrame DEF Machine, At
      <4>2. output' = Append(output, Len(output))
        BY <3>1, <3>3, <4>1
      <4> QED BY <3>1, <4>1, <4>2
    <3>4. CASE f.kind # "Result"
      <4>1. next.at \in {"AwaitingComplete", "Finished"}
        BY <2>2, <3>2, <3>4, ResultFrame DEF At
      <4> QED BY <3>1, <3>4, <4>1
    <3> QED BY <3>3, <3>4
  <2> QED BY <2>1, <2>2
<1>9. CASE Revoke \/ Reap \/ Kill
  BY <1>9 DEF Revoke, Reap, Kill
<1>10. CASE WorkerMoves
  BY <1>10, HelperKeepsCall DEF brokerVars
<1>11. CASE RequestCancel \/ Expire \/ UNCHANGED vars
  BY <1>11 DEF RequestCancel, Expire, vars, brokerVars
<1> QED
  BY <1>1, <1>2, <1>3, <1>4, <1>5, <1>6, <1>7, <1>8, <1>9, <1>10, <1>11
  DEF Next, BrokerStep, WorkerMoves

-----------------------------------------------------------------------------
(* What an accepted result has been through. *)

\* A worker that moves has not been reaped.
LEMMA HelperKeepsReaped ==
  ASSUME WorkerMoves
  PROVE  child # "reaped"
BY HelperKeepsCall

\* Every step keeps the class of an exit honest.
LEMMA ClassStep ==
  ASSUME CallOK, ClassOK, [Next]_vars
  PROVE  ClassOK'
<1> USE DEF ClassOK
<1>1. CASE WaitForExit
  BY <1>1 DEF WaitForExit, Classify, Conclude
<1>2. CASE Begin \/ Decline \/ Return \/ SpawnFails \/ SpawnOnce
             \/ StartupBreaks \/ ReceiveReady \/ SendHello \/ SendStart
  BY <1>2 DEF Begin, Decline, Return, SpawnFails, SpawnOnce, StartupBreaks,
     ReceiveReady, StartupFails, Retry, SendHello, SendStart
<1>3. CASE OfferChunk \/ WriteChunk \/ WriteFails \/ BeginFinish \/ WriteEnd
             \/ WriteEndFails \/ CheckCancelled \/ ReceiveFails \/ Judge
  BY <1>3 DEF OfferChunk, WriteChunk, WriteFails, BeginFinish, WriteEnd,
     WriteEndFails, CheckCancelled, ReceiveFails, Judge, SendFails, Conclude
<1>4. CASE Receive
  BY <1>4 DEF Receive, TakeFrame, Conclude
<1>5. CASE Revoke \/ Reap \/ Kill
  BY <1>5 DEF Revoke, Reap, Kill
<1>6. CASE WorkerMoves
  BY <1>6, HelperKeepsCall, HelperKeepsReaped DEF brokerVars, CallOK
<1>7. CASE RequestCancel \/ Expire \/ UNCHANGED vars
  BY <1>7 DEF RequestCancel, Expire, vars, brokerVars, workerVars
<1> QED
  BY <1>1, <1>2, <1>3, <1>4, <1>5, <1>6, <1>7 DEF Next, BrokerStep, WorkerMoves

\* Every step keeps an accepted result a finished one.
LEMMA AcceptedStep ==
  ASSUME CallOK, MachineOK, OutputOK, OutputOK', ClassOK,
         AcceptedMeansFinished, [Next]_vars
  PROVE  AcceptedMeansFinished'
<1> USE DEF AcceptedMeansFinished, CallOK, EndingSteps
<1>1. CASE Begin \/ Decline \/ SpawnOnce
  BY <1>1 DEF Begin, Decline, SpawnOnce
<1>2. CASE Return
  BY <1>2 DEF Return, workerVars
<1>3. CASE SpawnFails \/ StartupBreaks \/ ReceiveReady
  BY <1>3 DEF SpawnFails, StartupBreaks, ReceiveReady, StartupFails, Retry
<1>4. CASE SendHello \/ SendStart
  BY <1>4 DEF SendHello, SendStart, callVars
<1>5. CASE OfferChunk \/ WriteChunk \/ WriteFails
  BY <1>5 DEF OfferChunk, WriteChunk, WriteFails, SendFails, Conclude
<1>6. CASE BeginFinish \/ WriteEnd \/ WriteEndFails \/ CheckCancelled
  BY <1>6 DEF BeginFinish, WriteEnd, WriteEndFails, CheckCancelled, Conclude,
     callVars
<1>7. CASE Receive
  BY <1>7 DEF Receive, TakeFrame, Conclude
<1>8. CASE ReceiveFails \/ WaitForExit
  BY <1>8 DEF ReceiveFails, WaitForExit, Conclude
<1>9. CASE Judge
  <2>1. SUFFICES ASSUME answer' = "prepared"
                 PROVE  AcceptedMeansFinished'
    OBVIOUS
  <2>2. class = "Success" /\ output # <<>>
    BY <1>9, <2>1 DEF Judge, Conclude
  <2>3. machine.at = "Finished" /\ status = "success" /\ child = "reaped"
    BY <1>9, <2>2 DEF Judge, MachineOK, ClassOK
  <2> QED
    BY <1>9, <2>2, <2>3 DEF Judge, OutputOK, workerVars
<1>10. CASE Revoke \/ Reap \/ Kill
  <2>1. CASE Revoke
    <3>1. machine.at = "Finished" => machine' = machine
      BY <1>10, <2>1, SentFrames DEF Revoke, MachineOK
    <3> QED BY <2>1, <3>1 DEF Revoke, callVars, workerVars
  <2>2. CASE Reap \/ Kill
    BY <2>2 DEF Reap, Kill, KillAndWait, WorkerGone, callVars
  <2> QED BY <1>10, <2>1, <2>2
<1>11. CASE WorkerMoves
  BY <1>11, HelperKeepsCall, HelperKeepsReaped DEF brokerVars, callVars
<1>12. CASE RequestCancel \/ Expire \/ UNCHANGED vars
  BY <1>12 DEF RequestCancel, Expire, vars, brokerVars, callVars, workerVars
<1> QED
  BY <1>1, <1>2, <1>3, <1>4, <1>5, <1>6, <1>7, <1>8, <1>9, <1>10, <1>11,
     <1>12 DEF Next, BrokerStep, WorkerMoves

\* The whole inductive invariant.
THEOREM ExchangeStands == Spec => []ExchangeInv
<1>1. Init => ExchangeInv
  BY CallInit, MachineInit, OutputInit
  DEF Init, ExchangeInv, ClassOK, AcceptedMeansFinished
<1>2. ExchangeInv /\ [Next]_vars => ExchangeInv'
  BY CallStep, MachineStep, OutputStep, ClassStep, AcceptedStep DEF ExchangeInv
<1> QED BY <1>1, <1>2, PTL DEF Spec

\* Whatever a helper sends: its result is accepted only after a complete
\* exchange, with chunks in order, and its clean, awaited exit.
THEOREM AcceptedFinished == Spec => []AcceptedMeansFinished
<1>1. ExchangeInv => AcceptedMeansFinished
  BY DEF ExchangeInv
<1> QED BY <1>1, ExchangeStands, PTL

\* No second child gets a request whose input was sent to the first.
THEOREM RetriesInHandshake == Spec => RetryOnlyInHandshake
<1> DEFINE Retries == attempts' > attempts /\ attempts > 0
<1>1. ASSUME ExchangeInv, Next, Retries
      PROVE  machine.at \in {"AwaitingReady", "Ready"}
  <2>1. pc = "spawn"
    <3>1. attempts' # attempts /\ attempts' # 0
      BY <1>1 DEF ExchangeInv, CallOK, CallTypes
    <3>2. ~WorkerMoves
      BY <3>1, HelperKeepsCall DEF brokerVars
    <3>3. ~(Begin \/ Decline \/ Return \/ RequestCancel \/ Expire)
      BY <3>1 DEF Begin, Decline, Return, RequestCancel, Expire, brokerVars
    <3>4. ~(StartupBreaks \/ ReceiveReady \/ SendHello \/ SendStart)
      BY <3>1 DEF StartupBreaks, ReceiveReady, StartupFails, SendHello,
         SendStart
    <3>5. ~(OfferChunk \/ WriteChunk \/ WriteFails \/ BeginFinish \/ WriteEnd
              \/ WriteEndFails)
      BY <3>1 DEF OfferChunk, WriteChunk, WriteFails, BeginFinish, WriteEnd,
         WriteEndFails
    <3>6. ~(CheckCancelled \/ Receive \/ ReceiveFails \/ WaitForExit \/ Judge
              \/ Revoke \/ Reap \/ Kill)
      BY <3>1 DEF CheckCancelled, Receive, ReceiveFails, WaitForExit, Judge,
         Revoke, Reap, Kill
    <3>7. SpawnFails \/ SpawnOnce
      BY <1>1, <3>2, <3>3, <3>4, <3>5, <3>6
      DEF Next, BrokerStep, WorkerMoves
    <3> QED BY <3>7 DEF SpawnFails, SpawnOnce
  <2> QED BY <1>1, <2>1 DEF ExchangeInv, MachineOK
<1>2. ExchangeInv /\ [Next]_vars =>
        [Retries => machine.at \in {"AwaitingReady", "Ready"}]_vars
  BY <1>1
<1> QED
  BY <1>2, ExchangeStands, PTL DEF Spec, RetryOnlyInHandshake
-----------------------------------------------------------------------------
(* The types of the whole state. *)

\* The variables that are truth values.
Degraded == {channel, locks, told, cancelled, expired, surfaced, observed}

\* The frames that are sent are frames.
LEMMA FrameTypes ==
  /\ \A k \in Kinds : Plain(k) \in Frame
  /\ \A k \in Kinds, n \in Nat : Numbered(k, n) \in Frame
  /\ \A k \in Kinds, d \in BOOLEAN : Report(k, d) \in Frame
BY DEF Plain, Numbered, Report, Frame

\* What is read from a stream is a frame, what is left of it a stream.
LEMMA StreamTypes ==
  ASSUME NEW s \in Seq(Frame)
  PROVE  /\ s # <<>> => Head(s) \in Frame /\ Tail(s) \in Seq(Frame)
         /\ \A f \in Frame : Append(s, f) \in Seq(Frame)
OBVIOUS

\* The types hold at first.
LEMMA TypeInit == Init => TypeOK /\ CountsOK
<1>0. Restarts \in Nat /\ MaxResults \in Nat /\ Ceiling \in Nat
  BY SessionAssumption
<1> SUFFICES ASSUME Init PROVE TypeOK /\ CountsOK
  OBVIOUS
<1>1. machine \in Machine
  BY MachineInit DEF MachineOK
<1>2. /\ pc \in Steps /\ attempts \in 0..(Restarts + 1) /\ answer \in Answers
      /\ output \in Seq(Nat) /\ Len(output) <= Ceiling
      /\ input \in Seq(Nat)
      /\ results \in 0..MaxResults /\ emitted \in 0..MaxResults
      /\ toWorker \in Seq(Frame) /\ toBroker \in Seq(Frame)
  BY <1>0 DEF Init, Steps, Answers
<1>3. /\ Degraded \subseteq BOOLEAN
      /\ {wlocks, rogue, hup} \subseteq BOOLEAN
  BY DEF Init, Degraded
<1>4. CountsOK
  BY DEF Init, CountsOK
<1> QED
  BY <1>1, <1>2, <1>3, <1>4 DEF Init, TypeOK, Degraded

\* The calling thread keeps its own types.
LEMMA BrokerTypesStep ==
  ASSUME TypeOK, [Next]_vars
  PROVE  /\ class' \in {"none", "Success", "WorkerFailure", "Signal"}
         /\ Degraded' \subseteq BOOLEAN
         /\ Len(output') <= Ceiling
<1> DEFINE Goal == /\ class' \in {"none", "Success", "WorkerFailure", "Signal"}
                   /\ Degraded' \subseteq BOOLEAN
                   /\ Len(output') <= Ceiling
<1> USE DEF TypeOK, Degraded
<1>0. Ceiling \in Nat /\ Degrade \subseteq BOOLEAN
  BY SessionAssumption DEF Degrade
<1>1. CASE Begin \/ Decline \/ Return \/ SpawnFails
  BY <1>1 DEF Begin, Decline, Return, SpawnFails, Retry
<1>2. CASE SpawnOnce
  <2>1. Len(output') <= Ceiling
    BY <1>0, <1>2 DEF SpawnOnce
  <2>2. Degraded' \subseteq BOOLEAN /\ class' = "none"
    BY <1>2 DEF SpawnOnce
  <2> QED
    BY <2>1, <2>2
<1>3. CASE StartupBreaks
  BY <1>3 DEF StartupBreaks, StartupFails, Retry
<1>4. CASE ReceiveReady
  <2>1. Head(toBroker).degraded \in BOOLEAN
    BY <1>4, StreamTypes DEF ReceiveReady, Arrived, Frame
  <2> QED
    BY <1>0, <1>4, <2>1 DEF ReceiveReady, StartupFails, Retry
<1>5. CASE SendHello \/ SendStart
  BY <1>5 DEF SendHello, SendStart, callVars
<1>6. CASE OfferChunk \/ WriteFails \/ BeginFinish \/ WriteEnd
             \/ WriteEndFails \/ CheckCancelled
  BY <1>6 DEF OfferChunk, WriteFails, BeginFinish, WriteEnd, WriteEndFails,
     CheckCancelled, SendFails, Conclude, callVars
<1>7. CASE WriteChunk
  BY <1>0, <1>7 DEF WriteChunk
<1>8. CASE Receive
  <2> DEFINE f == Head(toBroker)
  <2>1. f \in Frame
    BY <1>8, StreamTypes DEF Receive, Arrived
  <2>2. PICK d \in Degrade : /\ locks' = (locks \/ d \/ Reported(f))
                             /\ observed' = (observed \/ d \/ Reported(f))
                             /\ TakeFrame(f, locks \/ d \/ Reported(f))
    BY <1>8 DEF Receive
  <2>3. (locks \/ d \/ Reported(f)) \in BOOLEAN
    BY <1>0
  <2>4. told' \in BOOLEAN /\ class' \in {class, "Success", "WorkerFailure"}
    BY <2>2, <2>3 DEF TakeFrame, Conclude, ResponseClass
  <2>5. Len(output') <= Ceiling
    BY <1>0, <2>1, <2>2 DEF TakeFrame, OverCeiling, Frame
  <2> QED
    BY <1>0, <1>8, <2>2, <2>4, <2>5 DEF Receive
<1>9. CASE ReceiveFails \/ Judge
  BY <1>9 DEF ReceiveFails, Judge, Conclude
<1>10. CASE WaitForExit
  BY <1>10 DEF WaitForExit, Conclude, Classify
<1>11. CASE Revoke \/ Reap \/ Kill
  BY <1>11 DEF Revoke, Reap, Kill, callVars
<1>12. CASE WorkerMoves
  <2>1. expired' = expired
    BY <1>12 DEF WorkerMoves, WorkerStep, Rogue, Crash, Boot, WorkerEndOfFile,
       ReceiveHello, ReceiveStart, ReceiveOpening, SendReady, ReceiveInput,
       ReceiveForeign, Transform, SendResult, SendResultEnd, SendLast, Leave
  <2> QED
    BY <1>12, <2>1, HelperKeepsCall DEF callVars, brokerVars
<1>13. CASE RequestCancel \/ Expire \/ UNCHANGED vars
  BY <1>13 DEF RequestCancel, Expire, vars, callVars, brokerVars
<1> QED
  BY <1>1, <1>2, <1>3, <1>4, <1>5, <1>6, <1>7, <1>8, <1>9, <1>10, <1>11,
     <1>12, <1>13 DEF Next, BrokerStep, WorkerMoves

\* The worker keeps its types.
LEMMA WorkerTypesStep ==
  ASSUME TypeOK, [Next]_vars
  PROVE  /\ status' \in {"none", "success", "failure", "signal"}
         /\ wpc' \in {"boot", "hello", "ready", "start", "input", "transform",
                      "result", "complete", "refuse", "reject", "leaving",
                      "gone"}
         /\ input' \in Seq(Nat)
         /\ results' \in 0..MaxResults /\ emitted' \in 0..MaxResults
         /\ wlocks' \in BOOLEAN /\ rogue' \in BOOLEAN /\ hup' \in BOOLEAN
<1> DEFINE Goal ==
      /\ status' \in {"none", "success", "failure", "signal"}
      /\ wpc' \in {"boot", "hello", "ready", "start", "input", "transform",
                   "result", "complete", "refuse", "reject", "leaving", "gone"}
      /\ input' \in Seq(Nat)
      /\ results' \in 0..MaxResults /\ emitted' \in 0..MaxResults
      /\ wlocks' \in BOOLEAN /\ rogue' \in BOOLEAN /\ hup' \in BOOLEAN
<1> USE DEF TypeOK, workerVars, streamVars
<1>0. /\ Degrade \subseteq BOOLEAN
      /\ MaxResults \in Nat /\ Chunks \in Nat
  BY SessionAssumption DEF Degrade
<1>1. CASE Begin \/ Decline \/ Return \/ SpawnFails
  BY <1>1 DEF Begin, Decline, Return, SpawnFails
<1>2. CASE SpawnOnce
  <2>1. /\ results' = 0 /\ emitted' = 0 /\ input' = <<>>
        /\ status' = "none" /\ wpc' = "boot"
        /\ wlocks' = FALSE /\ hup' = FALSE
    BY <1>2 DEF SpawnOnce
  <2>2. rogue' \in BOOLEAN
    BY <1>2 DEF SpawnOnce
  <2>3. input' \in Seq(Nat)
    BY <2>1
  <2>4. 0 \in 0..MaxResults
    BY <1>0
  <2> QED
    BY <2>1, <2>2, <2>3, <2>4
<1>3. CASE StartupBreaks \/ ReceiveReady
  BY <1>3 DEF StartupBreaks, ReceiveReady, StartupFails, KillAndWait
<1>4. CASE SendHello \/ SendStart \/ WriteChunk \/ WriteEnd
  BY <1>4 DEF SendHello, SendStart, WriteChunk, WriteEnd, Post
<1>5. CASE OfferChunk \/ WriteFails \/ BeginFinish \/ WriteEndFails
             \/ CheckCancelled \/ Receive \/ ReceiveFails \/ Judge
  BY <1>5 DEF OfferChunk, WriteFails, GiveUp, BeginFinish, WriteEndFails,
     CheckCancelled, Receive, ReceiveFails, Judge
<1>6. CASE WaitForExit \/ Revoke \/ Reap \/ Kill
  BY <1>6 DEF WaitForExit, Revoke, Reap, Kill, KillAndWait
<1>7. CASE Boot \/ WorkerEndOfFile \/ Leave
  BY <1>7 DEF Boot, WorkerEndOfFile, Leave, Exit
<1>8. CASE ReceiveHello \/ ReceiveStart
  BY <1>0, <1>8 DEF ReceiveHello, ReceiveStart, ReceiveOpening, Exit, Consume
<1>9. CASE SendReady \/ SendResultEnd
  BY <1>9 DEF SendReady, SendResultEnd, Emit, Exit
<1>10. CASE SendResult
  <2>1. emitted < results /\ emitted' = emitted + 1
    BY <1>10 DEF SendResult
  <2>2. emitted' \in 0..MaxResults
    BY <1>0, <2>1
  <2> QED
    BY <1>10, <2>2 DEF SendResult, Emit, Exit
<1>11. CASE SendLast
  BY <1>11 DEF SendLast, EmitAndLeave, Exit
<1>12. CASE ReceiveInput
  <2>1. Head(toWorker) \in Frame
    BY <1>12, StreamTypes DEF ReceiveInput, Arrived
  <2>2. Head(toWorker).n \in Nat
    BY <2>1 DEF Frame
  <2>3. \/ UNCHANGED <<input, wpc, child, status>>
        \/ wpc' = "reject" /\ UNCHANGED <<input, child, status>>
        \/ TakeInput(Head(toWorker))
    BY <1>12 DEF ReceiveInput
  <2>4. Append(input, Head(toWorker).n) \in Seq(Nat)
    BY <2>2
  <2>6. /\ input' \in Seq(Nat)
        /\ wpc' \in {wpc, "reject", "transform", "gone"}
        /\ status' \in {status, "success"}
    BY <2>3, <2>4 DEF TakeInput, Exit
  <2>5. wlocks' \in BOOLEAN
    BY <1>0, <1>12 DEF ReceiveInput
  <2> QED
    BY <1>12, <2>5, <2>6 DEF ReceiveInput, Consume
<1>13. CASE ReceiveForeign
  BY <1>0, <1>13 DEF ReceiveForeign, Foreign
<1>14. CASE Transform
  <2>1. results' \in 0..MaxResults /\ emitted' = emitted
    BY <1>0, <1>14 DEF Transform
  <2>2. wlocks' \in BOOLEAN /\ wpc' \in {"result", "refuse"}
    BY <1>0, <1>14 DEF Transform
  <2> QED
    BY <1>14, <2>1, <2>2 DEF Transform
<1>15. CASE Rogue \/ Crash
  BY <1>15 DEF Rogue, Crash, Exit, Consume
<1>16. CASE RequestCancel \/ Expire \/ UNCHANGED vars
  BY <1>16 DEF RequestCancel, Expire, vars
<1> QED
  BY <1>1, <1>2, <1>3, <1>4, <1>5, <1>6, <1>7, <1>8, <1>9, <1>10, <1>11,
     <1>12, <1>13, <1>14, <1>15, <1>16 DEF Next, BrokerStep, WorkerStep

\* A chunk is counted before it is written, and the count of the result starts
\* with the end of the input.
LEMMA CountsStep ==
  ASSUME MachineOK, CountsOK, [Next]_vars
  PROVE  CountsOK'
<1> USE DEF CountsOK
<1>1. CASE OfferChunk
  <2>0. CASE pc' # "write"
    BY <1>1, <2>0 DEF OfferChunk, SendFails, Conclude
  <2> SUFFICES ASSUME pc' = "write" PROVE machine'.next > 0
    BY <2>0
  <2>1. machine' = Sent(machine, Numbered("Data", machine.next))
    BY <1>1 DEF OfferChunk, SendFails, Conclude
  <2>2. machine' = [machine EXCEPT !.next = machine.next + 1]
    BY <1>1, <2>1, SentFrames DEF OfferChunk, MachineOK
  <2> QED
    BY <2>2 DEF MachineOK, Machine
<1>2. CASE RequestCancel \/ Expire \/ UNCHANGED vars
  BY <1>2 DEF RequestCancel, Expire, vars, brokerVars
<1>3. CASE WorkerMoves
  BY <1>3, HelperKeepsCall DEF brokerVars
<1>4. CASE Begin \/ Decline \/ Return \/ SpawnFails \/ SpawnOnce
             \/ StartupBreaks \/ ReceiveReady \/ SendHello \/ SendStart
  BY <1>4 DEF Begin, Decline, Return, SpawnFails, SpawnOnce, StartupBreaks,
     ReceiveReady, StartupFails, Retry, SendHello, SendStart
<1>5. CASE WriteChunk \/ WriteFails \/ BeginFinish \/ WriteEndFails
  BY <1>5 DEF WriteChunk, WriteFails, BeginFinish, WriteEndFails, SendFails,
     Conclude
<1>6. CASE WriteEnd \/ CheckCancelled
  BY <1>6 DEF WriteEnd, CheckCancelled, Conclude, MachineOK, At
<1>7. CASE Receive
  <2> DEFINE f == Head(toBroker)
  <2>1. CASE Received(machine, f) = InvalidTransition
    BY <1>7, <2>1 DEF Receive, TakeFrame, Conclude
  <2>2. CASE Received(machine, f) # InvalidTransition
    <3>1. machine' = Received(machine, f)
      BY <1>7, <2>2 DEF Receive, TakeFrame
    <3>2. machine'.at # "AwaitingResult"
      BY <1>7, <2>2, <3>1, ResultFrame DEF Receive, MachineOK, At
    <3>3. pc' # "write"
      BY <1>7 DEF Receive, TakeFrame, Conclude
    <3> QED
      BY <3>2, <3>3
  <2> QED
    BY <2>1, <2>2
<1>8. CASE ReceiveFails \/ WaitForExit \/ Judge \/ Revoke \/ Reap \/ Kill
  BY <1>8 DEF ReceiveFails, WaitForExit, Judge, Conclude, Revoke, Reap, Kill
<1> QED
  BY <1>1, <1>2, <1>3, <1>4, <1>5, <1>6, <1>7, <1>8
  DEF Next, BrokerStep, WorkerMoves

\* Everything on a stream is a frame.
LEMMA StreamTypesStep ==
  ASSUME TypeOK, MachineOK, CountsOK, [Next]_vars
  PROVE  toWorker' \in Seq(Frame) /\ toBroker' \in Seq(Frame)
<1> DEFINE Goal == toWorker' \in Seq(Frame) /\ toBroker' \in Seq(Frame)
<1>0. /\ toWorker \in Seq(Frame) /\ toBroker \in Seq(Frame)
      /\ wlocks \in BOOLEAN /\ emitted \in Nat
      /\ Chunks \in Nat /\ Ceiling \in Nat /\ Degrade \subseteq BOOLEAN
      /\ <<>> \in Seq(Frame)
  <2>1. MaxResults \in Nat /\ Chunks \in Nat /\ Ceiling \in Nat
    BY SessionAssumption
  <2>2. emitted \in Nat
    BY <2>1 DEF TypeOK
  <2>3. <<>> \in Seq(Frame)
    OBVIOUS
  <2> QED
    BY <2>1, <2>2, <2>3 DEF TypeOK, Degrade
<1> USE DEF streamVars, Post, Kinds, BrokerKinds, WorkerKinds
<1>1. CASE Begin \/ Decline \/ Return \/ SpawnFails
  BY <1>0, <1>1 DEF Begin, Decline, Return, SpawnFails
<1>19. CASE SpawnOnce
  BY <1>0, <1>19 DEF SpawnOnce
<1>2. CASE StartupBreaks
  BY <1>0, <1>2 DEF StartupBreaks, StartupFails
<1>3. CASE ReceiveReady
  <2>1. \/ UNCHANGED toWorker /\ toBroker' = Tail(toBroker)
        \/ toWorker' = <<>> /\ toBroker' = <<>>
    BY <1>3 DEF ReceiveReady, StartupFails
  <2> QED
    BY <1>0, <1>3, <2>1, StreamTypes DEF ReceiveReady, Arrived
<1>4. CASE SendHello \/ SendStart
  BY <1>0, <1>4, StreamTypes, FrameTypes DEF SendHello, SendStart
<1>5. CASE WriteChunk
  <2>1. machine.next - 1 \in Nat
    BY <1>5 DEF WriteChunk, CountsOK, MachineOK, Machine
  <2> QED
    BY <1>0, <1>5, <2>1, StreamTypes, FrameTypes DEF WriteChunk
<1>6. CASE WriteEnd
  BY <1>0, <1>6, StreamTypes, FrameTypes DEF WriteEnd
<1>7. CASE WriteFails
  BY <1>0, <1>7, StreamTypes, FrameTypes DEF WriteFails, GiveUp
<1>8. CASE OfferChunk \/ BeginFinish \/ WriteEndFails \/ CheckCancelled
             \/ ReceiveFails \/ WaitForExit \/ Judge \/ Reap \/ Kill
  BY <1>0, <1>8 DEF OfferChunk, BeginFinish, WriteEndFails, CheckCancelled,
     ReceiveFails, WaitForExit, Judge, Reap, Kill
<1>9. CASE Receive
  BY <1>0, <1>9, StreamTypes DEF Receive, Arrived
<1>10. CASE Revoke
  BY <1>0, <1>10, StreamTypes, FrameTypes DEF Revoke
<1>11. CASE Boot \/ WorkerEndOfFile \/ Transform \/ Leave
  BY <1>0, <1>11 DEF Boot, WorkerEndOfFile, Transform, Leave
<1>12. CASE ReceiveHello \/ ReceiveStart \/ ReceiveInput
  BY <1>0, <1>12, StreamTypes DEF ReceiveHello, ReceiveStart, ReceiveOpening,
     ReceiveInput, Arrived, Consume
<1>13. CASE ReceiveForeign
  <2>1. toWorker # <<>> /\ Tail(toWorker) # <<>>
    BY <1>0, <1>13 DEF ReceiveForeign
  <2> QED
    BY <1>0, <1>13, <2>1, StreamTypes DEF ReceiveForeign
<1>14. CASE SendReady \/ SendResult \/ SendResultEnd
  BY <1>0, <1>14, StreamTypes, FrameTypes
  DEF SendReady, SendResult, SendResultEnd, Emit
<1>15. CASE SendLast
  BY <1>0, <1>15, StreamTypes, FrameTypes DEF SendLast, EmitAndLeave
<1>16. CASE Rogue
  <2>1. RogueFrames \subseteq Frame
    <3>1. {Report(kind, d) : kind \in {"Complete", "Failed"}, d \in Degrade}
            \subseteq Frame
      BY <1>0, FrameTypes
    <3>2. {[kind |-> "Ready", n |-> c, degraded |-> d] :
              c \in ReadyClaims, d \in Degrade} \subseteq Frame
      BY <1>0 DEF Frame, ReadyClaims, Sound, WrongVersion, NoSandbox
    <3>3. {Numbered(kind, n) : kind \in {"Result", "ResultEnd"},
                               n \in 0..Ceiling} \subseteq Frame
      BY <1>0, FrameTypes
    <3>4. {Plain("Garbage"), Plain("Torn")} \subseteq Frame
      BY FrameTypes
    <3> QED
      BY <3>1, <3>2, <3>3, <3>4 DEF RogueFrames
  <2> QED
    BY <1>0, <1>16, <2>1, StreamTypes DEF Rogue, Consume
<1>17. CASE Crash
  BY <1>0, <1>17, StreamTypes, FrameTypes DEF Crash
<1>18. CASE RequestCancel \/ Expire \/ UNCHANGED vars
  BY <1>0, <1>18 DEF RequestCancel, Expire, vars
<1> QED
  BY <1>1, <1>2, <1>3, <1>4, <1>5, <1>6, <1>7, <1>8, <1>9, <1>10, <1>11,
     <1>12, <1>13, <1>14, <1>15, <1>16, <1>17, <1>18, <1>19
  DEF Next, BrokerStep, WorkerStep

\* Every step keeps them.
LEMMA TypeStep ==
  ASSUME TypeOK, CountsOK, ExchangeInv, ExchangeInv', [Next]_vars
  PROVE  TypeOK' /\ CountsOK'
<1>1. /\ pc' \in Steps /\ attempts' \in 0..(Restarts + 1)
      /\ answer' \in Answers
      /\ child' \in {"running", "exited", "reaped"}
      /\ machine' \in Machine /\ output' \in Seq(Nat)
  <2>1. Restarts \in Nat
    BY SessionAssumption
  <2> QED
    BY <2>1 DEF ExchangeInv, CallOK, CallTypes, MachineOK, OutputOK
<1>2. /\ class' \in {"none", "Success", "WorkerFailure", "Signal"}
      /\ Degraded' \subseteq BOOLEAN
      /\ Len(output') <= Ceiling
  BY BrokerTypesStep
<1>3. toWorker' \in Seq(Frame) /\ toBroker' \in Seq(Frame)
  BY StreamTypesStep DEF ExchangeInv
<1>4. CountsOK'
  BY CountsStep DEF ExchangeInv
<1> QED
  BY <1>1, <1>2, <1>3, <1>4, WorkerTypesStep DEF TypeOK, Degraded

\* Whatever the helper and the faults: every variable keeps its type, the broker
\* never sends a frame its own machine refuses, and it never holds more result
\* than the ceiling of the call.
THEOREM SessionTyped == Spec => []TypeOK
<1>1. TypeOK /\ CountsOK /\ ExchangeInv /\ ExchangeInv' /\ [Next]_vars
        => TypeOK' /\ CountsOK'
  BY TypeStep
<1> QED
  BY <1>1, TypeInit, ExchangeStands, PTL DEF Spec

-----------------------------------------------------------------------------
(* The input on its way to the worker. *)

\* The frames of a longer and of a shorter stream.
LEMMA StreamFrames ==
  ASSUME NEW s \in Seq(Frame)
  PROVE  /\ \A f \in Frame :
              /\ Len(Append(s, f)) = Len(s) + 1
              /\ Append(s, f)[Len(s) + 1] = f
              /\ \A i \in 1..Len(s) : Append(s, f)[i] = s[i]
         /\ s # <<>> =>
              /\ Head(s) = s[1] /\ Len(s) > 0
              /\ Len(Tail(s)) = Len(s) - 1
              /\ \A i \in 1..Len(Tail(s)) : Tail(s)[i] = s[i + 1]
OBVIOUS

\* A frame other than half a chunk and a wrong end can be sent by a broker that
\* has not given up.
LEMMA SendingSends ==
  ASSUME TypeOK, SendingOK, NEW f \in Frame, toWorker' = Append(toWorker, f),
         f.kind = "End" => f.n = Chunks, f.kind # "Torn",
         pc \notin SilentSteps \cup {"revoke"}
  PROVE  SendingOK'
<1>1. \A i \in 1..Len(toWorker) : toWorker[i].kind # "Torn"
  BY DEF SendingOK
<1>2. /\ Len(toWorker') = Len(toWorker) + 1
      /\ toWorker'[Len(toWorker) + 1] = f
      /\ \A i \in 1..Len(toWorker) : toWorker'[i] = toWorker[i]
  BY StreamFrames DEF TypeOK
<1>3. ASSUME NEW i \in 1..Len(toWorker')
      PROVE  /\ toWorker'[i].kind = "End" => toWorker'[i].n = Chunks
             /\ toWorker'[i].kind # "Torn"
  <2>1. i \in 1..Len(toWorker) \/ i = Len(toWorker) + 1
    BY <1>2 DEF TypeOK
  <2> QED
    BY <1>1, <1>2, <2>1 DEF SendingOK
<1> QED
  BY <1>3 DEF SendingOK

\* What the worker reads leaves the rest as it was.
LEMMA SendingReads ==
  ASSUME TypeOK, SendingOK, toWorker # <<>>, toWorker' = Tail(toWorker), pc' = pc
  PROVE  SendingOK'
<1>1. /\ Len(toWorker') = Len(toWorker) - 1
      /\ \A i \in 1..Len(toWorker') : toWorker'[i] = toWorker[i + 1]
  BY StreamFrames DEF TypeOK
<1>2. Len(toWorker) \in Nat
  BY DEF TypeOK
<1>3. ASSUME NEW i \in 1..Len(toWorker')
      PROVE  /\ i + 1 \in 1..Len(toWorker) /\ toWorker'[i] = toWorker[i + 1]
             /\ i + 1 = Len(toWorker) => i = Len(toWorker')
             /\ Len(toWorker) <= (i + 1) + 1 => Len(toWorker') <= i + 1
  <2>1. ASSUME NEW n \in Nat, NEW k \in 1..(n - 1)
        PROVE  /\ k + 1 \in 1..n
               /\ k + 1 = n => k = n - 1
               /\ n <= (k + 1) + 1 => n - 1 <= k + 1
    OBVIOUS
  <2> QED
    BY <1>1, <1>2, <2>1
<1> QED
  BY <1>3 DEF SendingOK

\* Every step keeps what is being sent in order.
LEMMA SendingStep ==
  ASSUME TypeOK, MachineOK, CountsOK, SendingOK, [Next]_vars
  PROVE  SendingOK'
<1>0. toWorker \in Seq(Frame) /\ Chunks \in Nat
  BY SessionAssumption DEF TypeOK
<1> USE DEF streamVars, Post, SilentSteps, Kinds, BrokerKinds, WorkerKinds
<1>1. CASE Begin \/ Decline \/ Return \/ SpawnFails
  BY <1>1 DEF Begin, Decline, Return, SpawnFails, Retry, SendingOK
<1>2. CASE SpawnOnce \/ StartupBreaks
  <2>1. toWorker' = <<>>
    BY <1>2 DEF SpawnOnce, StartupBreaks, StartupFails
  <2> QED
    BY <2>1 DEF SendingOK
<1>3. CASE ReceiveReady
  <2>1. toWorker' = <<>> \/ UNCHANGED toWorker
    BY <1>3 DEF ReceiveReady, StartupFails
  <2> QED
    BY <1>3, <2>1 DEF ReceiveReady, SendingOK
<1>4. CASE SendHello \/ SendStart
  <2>1. \A k \in {"Hello", "Start"} :
          Plain(k) \in Frame /\ Plain(k).kind = k
    BY FrameTypes DEF Plain
  <2> QED
    BY <1>4, <2>1, SendingSends DEF SendHello, SendStart
<1>5. CASE WriteChunk
  <2> DEFINE f == Numbered("Data", machine.next - 1)
  <2>1. machine.next - 1 \in Nat
    BY <1>5 DEF WriteChunk, CountsOK, MachineOK, Machine
  <2>2. f \in Frame /\ f.kind = "Data"
    BY <2>1, FrameTypes DEF Numbered
  <2>3. toWorker' = Append(toWorker, f) /\ pc = "write"
    BY <1>5 DEF WriteChunk
  <2> HIDE DEF f
  <2> QED
    BY <2>2, <2>3, SendingSends
<1>6. CASE WriteEnd
  <2> DEFINE f == Numbered("End", Chunks)
  <2>1. f \in Frame /\ f.kind = "End" /\ f.n = Chunks
    BY <1>0, FrameTypes DEF Numbered
  <2>2. toWorker' = Append(toWorker, f) /\ pc = "writeEnd"
    BY <1>6 DEF WriteEnd
  <2> HIDE DEF f
  <2> QED
    BY <2>1, <2>2, SendingSends
<1>7. CASE WriteFails
  <2>1. pc = "write" /\ pc' = "revoke"
    BY <1>7 DEF WriteFails, SendFails, Conclude
  <2>2. CASE UNCHANGED toWorker
    BY <2>1, <2>2 DEF SendingOK
  <2>3. CASE toWorker' = Append(toWorker, Plain("Torn"))
    <3> DEFINE f == Plain("Torn")
    <3>1. f \in Frame /\ f.kind = "Torn"
      BY FrameTypes DEF Plain
    <3>2. /\ Len(toWorker') = Len(toWorker) + 1
          /\ toWorker'[Len(toWorker) + 1] = f
          /\ \A i \in 1..Len(toWorker) : toWorker'[i] = toWorker[i]
      BY <1>0, <2>3, <3>1, StreamFrames
    <3>3. ASSUME NEW i \in 1..Len(toWorker')
          PROVE  i \in 1..Len(toWorker) \/ i = Len(toWorker')
      BY <1>0, <3>2
    <3> HIDE DEF f
    <3> QED
      BY <2>1, <3>1, <3>2, <3>3 DEF SendingOK
  <2> QED
    BY <1>7, <2>2, <2>3 DEF WriteFails, GiveUp
<1>8. CASE OfferChunk \/ BeginFinish \/ WriteEndFails \/ CheckCancelled
             \/ Receive \/ ReceiveFails \/ WaitForExit \/ Judge
  BY <1>8 DEF OfferChunk, BeginFinish, WriteEndFails, CheckCancelled, Receive,
     ReceiveFails, WaitForExit, Judge, SendingOK
<1>9. CASE Reap \/ Kill
  BY <1>9 DEF Reap, Kill, SendingOK
<1>10. CASE Revoke
  <2>1. pc = "revoke" /\ pc' = "grace"
    BY <1>10 DEF Revoke
  <2>2. CASE UNCHANGED toWorker
    BY <1>0, <2>1, <2>2 DEF SendingOK
  <2>3. CASE toWorker' = Append(toWorker, Plain("Cancel"))
    <3> DEFINE f == Plain("Cancel")
    <3>1. f \in Frame /\ f.kind = "Cancel"
      BY FrameTypes DEF Plain
    <3>2. /\ Len(toWorker') = Len(toWorker) + 1
          /\ toWorker'[Len(toWorker) + 1] = f
          /\ \A i \in 1..Len(toWorker) : toWorker'[i] = toWorker[i]
      BY <1>0, <2>3, <3>1, StreamFrames
    <3>3. ASSUME NEW i \in 1..Len(toWorker')
          PROVE  i \in 1..Len(toWorker) \/ i = Len(toWorker')
      BY <1>0, <3>2
    <3> HIDE DEF f
    <3> QED
      BY <1>0, <2>1, <3>1, <3>2, <3>3 DEF SendingOK
  <2> QED
    BY <1>10, <2>2, <2>3 DEF Revoke
<1>11. CASE WorkerMoves
  <2>1. pc' = pc
    BY <1>11, HelperKeepsCall DEF brokerVars
  <2>2. CASE UNCHANGED toWorker
    BY <2>1, <2>2 DEF SendingOK
  <2>3. CASE toWorker # <<>> /\ Consume
    BY <2>1, <2>3, SendingReads DEF Consume
  <2>4. CASE ReceiveForeign
    <3>1. /\ toWorker' = Tail(Tail(toWorker))
          /\ Len(toWorker) > 1
      BY <2>4 DEF ReceiveForeign
    <3>2. /\ Len(toWorker') = Len(toWorker) - 2
          /\ \A i \in 1..Len(toWorker') :
               i + 2 \in 1..Len(toWorker) /\ toWorker'[i] = toWorker[i + 2]
      BY <1>0, <3>1
    <3> QED
      BY <1>0, <2>1, <3>2 DEF SendingOK
  <2>5. UNCHANGED toWorker \/ (toWorker # <<>> /\ Consume) \/ ReceiveForeign
    <3>1. ASSUME Boot \/ WorkerEndOfFile \/ Transform \/ Leave
          PROVE  UNCHANGED toWorker
      BY <3>1 DEF Boot, WorkerEndOfFile, Transform, Leave
    <3>2. ASSUME SendReady \/ SendResult \/ SendResultEnd \/ SendLast
          PROVE  UNCHANGED toWorker
      BY <3>2 DEF SendReady, SendResult, SendResultEnd, SendLast, Emit,
         EmitAndLeave
    <3>3. ASSUME ReceiveHello \/ ReceiveStart \/ ReceiveInput
          PROVE  toWorker # <<>> /\ Consume
      BY <3>3 DEF ReceiveHello, ReceiveStart, ReceiveOpening, ReceiveInput,
         Arrived
    <3>4. ASSUME Rogue \/ Crash
          PROVE  UNCHANGED toWorker \/ (toWorker # <<>> /\ Consume)
      BY <3>4 DEF Rogue, Crash
    <3> QED
      BY <1>11, <3>1, <3>2, <3>3, <3>4 DEF WorkerMoves, WorkerStep
  <2> QED
    BY <2>2, <2>3, <2>4, <2>5
<1>12. CASE RequestCancel \/ Expire \/ UNCHANGED vars
  BY <1>12 DEF RequestCancel, Expire, vars, brokerVars, SendingOK
<1> QED
  BY <1>1, <1>2, <1>3, <1>4, <1>5, <1>6, <1>7, <1>8, <1>9, <1>10, <1>11,
     <1>12 DEF Next, BrokerStep, WorkerMoves

\* The calling thread changes nothing of the helper but to start a new one or to
\* end it.
LEMMA CallKeepsHelper ==
  ASSUME [Next]_vars, ~WorkerMoves
  PROVE  \/ SpawnOnce
         \/ /\ UNCHANGED <<input, results, emitted, wlocks, rogue>>
            /\ wpc' \in {wpc, "gone"}
<1> USE DEF workerVars
<1>1. CASE Begin \/ Decline \/ Return \/ SpawnFails
  BY <1>1 DEF Begin, Decline, Return, SpawnFails
<1>2. CASE StartupBreaks \/ ReceiveReady
  BY <1>2 DEF StartupBreaks, ReceiveReady, StartupFails, KillAndWait
<1>3. CASE SendHello \/ SendStart \/ OfferChunk \/ WriteChunk \/ WriteFails
  BY <1>3 DEF SendHello, SendStart, OfferChunk, WriteChunk, WriteFails
<1>4. CASE BeginFinish \/ WriteEnd \/ WriteEndFails \/ CheckCancelled
  BY <1>4 DEF BeginFinish, WriteEnd, WriteEndFails, CheckCancelled
<1>5. CASE Receive \/ ReceiveFails \/ WaitForExit \/ Judge \/ Revoke
  BY <1>5 DEF Receive, ReceiveFails, WaitForExit, Judge, Revoke
<1>6. CASE Reap \/ Kill
  BY <1>6 DEF Reap, Kill, KillAndWait
<1>7. CASE RequestCancel \/ Expire \/ UNCHANGED vars
  BY <1>7 DEF RequestCancel, Expire, vars
<1> QED
  BY <1>1, <1>2, <1>3, <1>4, <1>5, <1>6, <1>7 DEF Next, BrokerStep, WorkerMoves

\* Nothing comes any more until the next child is started.
LEMMA SilentStays ==
  ASSUME TypeOK, [Next]_vars, ~SpawnOnce, pc \in SilentSteps, toWorker = <<>>
  PROVE  pc' \in SilentSteps /\ toWorker' = <<>>
<1> USE DEF SilentSteps, streamVars
<1>1. CASE Begin \/ Decline \/ Return \/ SpawnFails
  BY <1>1 DEF Begin, Decline, Return, SpawnFails, Retry
<1>2. ~(StartupBreaks \/ ReceiveReady \/ SendHello \/ SendStart)
  BY DEF StartupBreaks, ReceiveReady, SendHello, SendStart
<1>3. ~(OfferChunk \/ WriteChunk \/ WriteFails \/ BeginFinish \/ WriteEnd
          \/ WriteEndFails \/ CheckCancelled)
  BY DEF OfferChunk, WriteChunk, WriteFails, BeginFinish, WriteEnd,
     WriteEndFails, CheckCancelled
<1>4. ~(Receive \/ ReceiveFails \/ WaitForExit \/ Judge \/ Revoke)
  BY DEF Receive, ReceiveFails, WaitForExit, Judge, Revoke
<1>5. CASE Reap \/ Kill
  BY <1>5 DEF Reap, Kill
<1>6. CASE WorkerMoves
  <2>1. pc' = pc
    BY <1>6, HelperKeepsCall DEF brokerVars
  <2>2. ~(ReceiveHello \/ ReceiveStart \/ ReceiveInput \/ ReceiveForeign)
    BY DEF ReceiveHello, ReceiveStart, ReceiveOpening, ReceiveInput, Arrived,
       ReceiveForeign
  <2>3. ASSUME Boot \/ WorkerEndOfFile \/ Transform \/ Leave
        PROVE  UNCHANGED toWorker
    BY <2>3 DEF Boot, WorkerEndOfFile, Transform, Leave
  <2>4. ASSUME SendReady \/ SendResult \/ SendResultEnd \/ SendLast
        PROVE  UNCHANGED toWorker
    BY <2>4 DEF SendReady, SendResult, SendResultEnd, SendLast, Emit,
       EmitAndLeave
  <2>5. ASSUME Rogue \/ Crash PROVE UNCHANGED toWorker
    BY <2>5 DEF Rogue, Crash
  <2> QED
    BY <1>6, <2>1, <2>2, <2>3, <2>4, <2>5 DEF WorkerMoves, WorkerStep
<1>7. CASE RequestCancel \/ Expire \/ UNCHANGED vars
  BY <1>7 DEF RequestCancel, Expire, vars, brokerVars
<1> QED
  BY <1>1, <1>2, <1>3, <1>4, <1>5, <1>6, <1>7 DEF Next, BrokerStep, WorkerMoves

\* The helper's steps that touch its input, or that bring it past its input.
LEMMA InputSteps ==
  ASSUME WorkerMoves, ~ReceiveInput, ~ReceiveForeign
  PROVE  /\ UNCHANGED input
         /\ wpc' \in {"transform", "result", "complete", "refuse"} =>
              wpc \in {"transform", "result", "complete", "refuse"}
<1>1. CASE Boot \/ WorkerEndOfFile \/ Transform \/ Leave
  BY <1>1 DEF Boot, WorkerEndOfFile, Transform, Leave, Exit, Serving
<1>2. CASE ReceiveHello \/ ReceiveStart
  BY <1>2 DEF ReceiveHello, ReceiveStart, ReceiveOpening, Exit
<1>3. CASE SendReady \/ SendResult \/ SendResultEnd
  BY <1>3 DEF SendReady, SendResult, SendResultEnd, Emit, Exit, Serving
<1>4. CASE SendLast
  BY <1>4 DEF SendLast, EmitAndLeave, Exit
<1>5. CASE Rogue \/ Crash
  BY <1>5 DEF Rogue, Crash, Exit
<1> QED
  BY <1>1, <1>2, <1>3, <1>4, <1>5 DEF WorkerMoves, WorkerStep

\* A frame that the worker takes as a chunk has the next number, one that it
\* takes as the end comes when it has every chunk.
LEMMA InputStep ==
  ASSUME TypeOK, SendingOK, InputOK, TransformOnlyWhole, [Next]_vars
  PROVE  InputOK' /\ TransformOnlyWhole'
<1>0. /\ input \in Seq(Nat) /\ toWorker \in Seq(Frame) /\ Len(input) \in Nat
      /\ Chunks \in Nat
  BY SessionAssumption DEF TypeOK
<1> DEFINE InOrder == \A i \in 1..Len(input) : input[i] = i - 1
<1>1. CASE SpawnOnce
  <2>1. input' = <<>> /\ wpc' = "boot"
    BY <1>1 DEF SpawnOnce
  <2> QED
    BY <2>1 DEF InputOK, TransformOnlyWhole
<1>2. ASSUME ~SpawnOnce, UNCHANGED input PROVE InputOK'
  <2>1. CASE InOrder
    BY <1>2, <2>1 DEF InputOK
  <2>2. CASE pc \in SilentSteps /\ toWorker = <<>>
    BY <1>2, <2>2, SilentStays DEF InputOK
  <2> QED
    BY <2>1, <2>2 DEF InputOK
<1>3. CASE ~WorkerMoves /\ ~SpawnOnce
  BY <1>2, <1>3, CallKeepsHelper DEF TransformOnlyWhole
<1>4. ASSUME WorkerMoves PROVE ~SpawnOnce
  BY <1>4, HelperKeepsCall DEF SpawnOnce, brokerVars
<1>5. CASE WorkerMoves /\ ~ReceiveInput /\ ~ReceiveForeign
  BY <1>2, <1>4, <1>5, InputSteps DEF TransformOnlyWhole
<1>6. CASE ReceiveInput
  <2> DEFINE f == Head(toWorker)
  <2>1. toWorker # <<>> /\ wpc = "input"
    BY <1>6 DEF ReceiveInput, Arrived, Serving
  <2>2. InOrder
    BY <2>1 DEF InputOK
  <2>3. f = toWorker[1] /\ 1 \in 1..Len(toWorker) /\ f.n \in Nat
    <3>1. f \in Frame /\ f = toWorker[1] /\ Len(toWorker) > 0
      BY <1>0, <2>1, StreamFrames, StreamTypes
    <3> HIDE DEF f
    <3> QED
      BY <1>0, <3>1 DEF Frame
  <2>4. \/ UNCHANGED input /\ wpc' \in {"reject", "gone"}
        \/ f.n = Len(input) /\ input' = Append(input, f.n) /\ wpc' = wpc
        \/ f.kind = "End" /\ f.n = Len(input) /\ UNCHANGED input
    BY <1>6 DEF ReceiveInput, TakeInput, Exit
  <2>5. CASE UNCHANGED input /\ wpc' \in {"reject", "gone"}
    BY <1>2, <1>4, <1>6, <2>5 DEF TransformOnlyWhole, WorkerMoves, WorkerStep
  <2>6. CASE f.n = Len(input) /\ input' = Append(input, f.n) /\ wpc' = wpc
    <3>1. \A i \in 1..Len(input') : input'[i] = i - 1
      BY <1>0, <2>2, <2>6
    <3> QED
      BY <2>1, <2>6, <3>1 DEF InputOK, TransformOnlyWhole
  <2>7. CASE f.kind = "End" /\ f.n = Len(input) /\ UNCHANGED input
    <3>1. Len(input) = Chunks
      BY <2>3, <2>7 DEF SendingOK
    <3>2. input = [i \in 1..Chunks |-> i - 1]
      BY <1>0, <2>2, <3>1
    <3> QED
      BY <2>2, <2>7, <3>2 DEF InputOK, TransformOnlyWhole
  <2> QED
    BY <2>4, <2>5, <2>6, <2>7
<1>7. CASE ReceiveForeign
  <2>1. /\ toWorker' = Tail(Tail(toWorker)) /\ Len(toWorker) > 1
        /\ toWorker[1].kind = "Torn" /\ wpc = "input" /\ wpc' = wpc
        /\ pc' = pc
    BY <1>0, <1>7 DEF ReceiveForeign, Serving, brokerVars
  <2>2. pc \in SilentSteps /\ Len(toWorker) = 2
    <3>1. 1 \in 1..Len(toWorker) /\ Len(toWorker) \in Nat
      BY <1>0, <2>1
    <3>2. \/ pc = "revoke" /\ 1 = Len(toWorker)
          \/ pc \in SilentSteps /\ Len(toWorker) <= 1 + 1
      BY <2>1, <3>1 DEF SendingOK
    <3>3. ASSUME NEW n \in Nat, n > 1 PROVE n # 1 /\ (n <= 1 + 1 => n = 2)
      BY <3>3
    <3> QED
      BY <2>1, <3>1, <3>2, <3>3
  <2>3. toWorker' = <<>>
    <3>1. ASSUME NEW s \in Seq(Frame), Len(s) = 1 PROVE Tail(s) = <<>>
      <4>1. s # <<>>
        BY <3>1
      <4>2. Tail(s) \in Seq(Frame) /\ Len(Tail(s)) = 0
        BY <3>1, <4>1, StreamTypes, StreamFrames
      <4>3. ASSUME NEW t \in Seq(Frame), Len(t) = 0 PROVE t = <<>>
        BY <4>3
      <4> QED
        BY <4>2, <4>3
    <3>2. Tail(toWorker) \in Seq(Frame) /\ Len(Tail(toWorker)) = 1
      BY <1>0, <2>2
    <3> QED
      BY <2>1, <3>1, <3>2
  <2> QED
    BY <2>1, <2>2, <2>3 DEF InputOK, TransformOnlyWhole
<1> QED
  BY <1>1, <1>3, <1>5, <1>6, <1>7

-----------------------------------------------------------------------------
(* The result on its way to the broker. *)

\* The calling thread puts nothing into the stream it reads.
LEMMA BrokerReads ==
  ASSUME TypeOK, [Next]_vars, ~WorkerMoves
  PROVE  \A i \in 1..Len(toBroker') :
           \E j \in 1..Len(toBroker) : toBroker'[i] = toBroker[j]
<1> USE DEF streamVars, Post
<1>0. toBroker \in Seq(Frame) /\ Len(toBroker) \in Nat
  BY DEF TypeOK
<1>1. CASE UNCHANGED toBroker
  BY <1>1
<1>2. CASE toBroker' = <<>>
  BY <1>2
<1>3. CASE toBroker # <<>> /\ toBroker' = Tail(toBroker)
  <2>1. /\ Len(toBroker') = Len(toBroker) - 1
        /\ \A i \in 1..Len(toBroker') : toBroker'[i] = toBroker[i + 1]
    BY <1>0, <1>3, StreamFrames
  <2>2. \A i \in 1..Len(toBroker') : i + 1 \in 1..Len(toBroker)
    BY <1>0, <2>1
  <2> QED
    BY <2>1, <2>2
<1>4. \/ UNCHANGED toBroker
      \/ toBroker' = <<>>
      \/ toBroker # <<>> /\ toBroker' = Tail(toBroker)
  <2>1. CASE Begin \/ Decline \/ Return \/ SpawnFails \/ SpawnOnce
    BY <2>1 DEF Begin, Decline, Return, SpawnFails, SpawnOnce
  <2>2. CASE StartupBreaks \/ ReceiveReady
    BY <2>2 DEF StartupBreaks, ReceiveReady, StartupFails, Arrived
  <2>3. CASE SendHello \/ SendStart \/ OfferChunk \/ WriteChunk \/ WriteFails
    BY <2>3 DEF SendHello, SendStart, OfferChunk, WriteChunk, WriteFails, GiveUp
  <2>4. CASE BeginFinish \/ WriteEnd \/ WriteEndFails \/ CheckCancelled
    BY <2>4 DEF BeginFinish, WriteEnd, WriteEndFails, CheckCancelled
  <2>5. CASE Receive \/ ReceiveFails \/ WaitForExit \/ Judge \/ Revoke
    BY <2>5 DEF Receive, ReceiveFails, WaitForExit, Judge, Revoke, Arrived
  <2>6. CASE Reap \/ Kill
    BY <2>6 DEF Reap, Kill
  <2>7. CASE RequestCancel \/ Expire \/ UNCHANGED vars
    BY <2>7 DEF RequestCancel, Expire, vars
  <2> QED
    BY <2>1, <2>2, <2>3, <2>4, <2>5, <2>6, <2>7
    DEF Next, BrokerStep, WorkerMoves
<1> QED
  BY <1>1, <1>2, <1>3, <1>4

\* A helper stays honest or rogue.
LEMMA HelperKeepsRogue ==
  ASSUME WorkerMoves
  PROVE  rogue' = rogue
BY DEF WorkerMoves, WorkerStep, Boot, WorkerEndOfFile, ReceiveHello,
   ReceiveStart, ReceiveOpening, SendReady, ReceiveInput, ReceiveForeign,
   Transform, SendResult, SendResultEnd, SendLast, Leave, Rogue, Crash

\* A helper that has sent its whole result changes no more of it, one that has
\* sent its last frame no more of what it reports.
LEMMA PastResult ==
  ASSUME WorkerMoves, ~rogue
  PROVE  /\ wpc \in {"complete", "leaving", "gone"} =>
              /\ UNCHANGED <<input, results, wlocks>>
              /\ wpc' \in {"complete", "leaving", "gone"}
         /\ wpc \in {"leaving", "gone"} => wpc' \in {"leaving", "gone"}
<1>1. CASE Boot \/ WorkerEndOfFile \/ Transform \/ Leave
  BY <1>1 DEF Boot, WorkerEndOfFile, Transform, Leave, Exit, Serving
<1>2. CASE ReceiveHello \/ ReceiveStart \/ ReceiveInput \/ ReceiveForeign
  BY <1>2 DEF ReceiveHello, ReceiveStart, ReceiveOpening, ReceiveInput,
     ReceiveForeign, Serving
<1>3. CASE SendReady \/ SendResult \/ SendResultEnd
  BY <1>3 DEF SendReady, SendResult, SendResultEnd, Serving
<1>4. CASE SendLast
  BY <1>4 DEF SendLast, EmitAndLeave, Exit, Serving
<1>5. CASE Crash
  BY <1>5 DEF Crash, Exit
<1> QED
  BY <1>1, <1>2, <1>3, <1>4, <1>5 DEF WorkerMoves, WorkerStep, Rogue

\* What an honest helper adds to the stream.
LEMMA HonestFrames ==
  ASSUME TypeOK, WorkerMoves, ~rogue
  PROVE  \/ UNCHANGED toBroker
         \/ \E f \in Frame :
              /\ toBroker' = Append(toBroker, f)
              /\ \/ f.kind \notin {"ResultEnd", "Complete"}
                 \/ /\ f.kind = "ResultEnd" /\ f.n = results
                    /\ wpc = "result" /\ wpc' = "complete"
                    /\ UNCHANGED <<input, results>>
                 \/ /\ f.kind = "Complete" /\ f.degraded = wlocks
                    /\ wpc' = "leaving" /\ UNCHANGED wlocks
<1> USE DEF Kinds, WorkerKinds, streamVars
<1>0. wlocks \in BOOLEAN /\ results \in Nat /\ emitted \in Nat
  <2>1. MaxResults \in Nat
    BY SessionAssumption
  <2> QED
    BY <2>1 DEF TypeOK
<1>1. CASE Boot \/ WorkerEndOfFile \/ Transform \/ Leave
  BY <1>1 DEF Boot, WorkerEndOfFile, Transform, Leave
<1>2. CASE ReceiveHello \/ ReceiveStart \/ ReceiveInput \/ ReceiveForeign
  BY <1>2 DEF ReceiveHello, ReceiveStart, ReceiveOpening, ReceiveInput,
     ReceiveForeign, Consume
<1>3. CASE SendReady
  <2>1. Report("Ready", wlocks) \in Frame /\ Report("Ready", wlocks).kind = "Ready"
    BY <1>0, FrameTypes DEF Report
  <2> QED
    BY <1>3, <2>1 DEF SendReady, Emit
<1>4. CASE SendResult
  <2>1. /\ Numbered("Result", emitted) \in Frame
        /\ Numbered("Result", emitted).kind = "Result"
    BY <1>0, FrameTypes DEF Numbered
  <2> QED
    BY <1>4, <2>1 DEF SendResult, Emit
<1>5. CASE SendResultEnd
  <2> DEFINE f == Numbered("ResultEnd", emitted)
  <2>1. f \in Frame /\ f.kind = "ResultEnd" /\ f.n = emitted
    BY <1>0, FrameTypes DEF Numbered
  <2>2. /\ emitted = results /\ wpc = "result" /\ UNCHANGED <<input, results>>
        /\ \/ toBroker' = Append(toBroker, f) /\ wpc' = "complete"
           \/ UNCHANGED toBroker
    BY <1>5 DEF SendResultEnd, Emit, Serving
  <2> HIDE DEF f
  <2> QED
    BY <2>1, <2>2
<1>6. CASE SendLast
  <2>1. \A k \in {"Complete", "Failed"} :
          /\ Report(k, wlocks) \in Frame /\ Report(k, wlocks).kind = k
          /\ Report(k, wlocks).degraded = wlocks
    BY <1>0, FrameTypes DEF Report
  <2>2. \/ UNCHANGED toBroker
        \/ \E k \in {"Complete", "Failed"} :
             /\ toBroker' = Append(toBroker, Report(k, wlocks))
             /\ wpc' = "leaving" /\ UNCHANGED wlocks
    BY <1>6 DEF SendLast, EmitAndLeave
  <2> QED
    BY <2>1, <2>2
<1>7. CASE Crash
  <2>1. Plain("Torn") \in Frame /\ Plain("Torn").kind = "Torn"
    BY FrameTypes DEF Plain
  <2> QED
    BY <1>7, <2>1 DEF Crash
<1> QED
  BY <1>1, <1>2, <1>3, <1>4, <1>5, <1>6, <1>7 DEF WorkerMoves, WorkerStep, Rogue

\* What the broker has taken as the end of a result, and the result an answer
\* is about, was sent by a helper that has delivered it.
LEMMA ResultStep ==
  ASSUME TypeOK, CountsOK, TransformOnlyWhole, ExchangeInv, [Next]_vars,
         ~rogue => ResultOK
  PROVE  ~rogue' => ResultOK'
<1> SUFFICES ASSUME ~rogue' PROVE ResultOK'
  OBVIOUS
<1> DEFINE Ended == /\ \/ pc \in {"results", "receive"}
                          /\ machine.at = "AwaitingComplete"
                       \/ pc \in {"exit", "judge"} /\ output # <<>>
                       \/ answer = "prepared"
           Exact == \A i \in 1..Len(toBroker) :
                      toBroker[i].kind = "ResultEnd" =>
                        toBroker[i].n = results /\ Delivered
<1>0. /\ toBroker \in Seq(Frame)
      /\ ~rogue => Exact /\ (Ended => Len(output) = results /\ Delivered)
  BY DEF TypeOK, ResultOK
<1>1. CASE SpawnOnce
  <2>1. toBroker' = <<>> /\ pc' = "hello" /\ answer' = "none"
    BY <1>1 DEF SpawnOnce, ExchangeInv, CallOK, EndingSteps
  <2> QED
    BY <2>1 DEF ResultOK
<1>2. CASE ~WorkerMoves /\ ~SpawnOnce
  <2>1. /\ UNCHANGED <<input, results, rogue>>
        /\ wpc' \in {wpc, "gone"}
    BY <1>2, CallKeepsHelper
  <2>2. Delivered => Delivered'
    BY <2>1 DEF Delivered
  <2>3. Exact'
    BY <1>0, <1>2, <2>1, <2>2, BrokerReads
  <2>4. ASSUME Ended, UNCHANGED output PROVE Len(output') = results' /\ Delivered'
    BY <1>0, <2>1, <2>2, <2>4
  <2> USE DEF ExchangeInv, CallOK, EndingSteps
  <2>5. CASE Begin \/ Decline \/ Return \/ SpawnFails
    <3>1. Ended' => Ended /\ UNCHANGED output
      BY <2>5 DEF Begin, Decline, Return, SpawnFails, Retry, At
    <3> QED
      BY <2>3, <2>4, <3>1 DEF ResultOK
  <2>6. CASE StartupBreaks \/ ReceiveReady \/ SendHello \/ SendStart
    <3>1. ~Ended'
      BY <2>6 DEF StartupBreaks, ReceiveReady, StartupFails, Retry, SendHello,
         SendStart, StartupSteps, ServingSteps, callVars
    <3> QED
      BY <2>3, <3>1 DEF ResultOK
  <2>7. CASE OfferChunk \/ WriteChunk \/ WriteFails \/ BeginFinish \/ WriteEnd
               \/ WriteEndFails
    <3>1. ~Ended'
      BY <2>7 DEF OfferChunk, WriteChunk, WriteFails, BeginFinish, WriteEnd,
         WriteEndFails, SendFails, Conclude, callVars, MachineOK, At
    <3> QED
      BY <2>3, <3>1 DEF ResultOK
  <2>8. CASE CheckCancelled \/ ReceiveFails \/ WaitForExit
    <3>1. Ended' => Ended /\ UNCHANGED output
      BY <2>8 DEF CheckCancelled, ReceiveFails, WaitForExit, Conclude
    <3> QED
      BY <2>3, <2>4, <3>1 DEF ResultOK
  <2>9. CASE Judge
    <3>1. Ended' => Ended /\ UNCHANGED output
      BY <2>9 DEF Judge, Conclude
    <3> QED
      BY <2>3, <2>4, <3>1 DEF ResultOK
  <2>10. CASE Receive
    <3> DEFINE f == Head(toBroker)
    <3>1. /\ pc = "receive" /\ answer = "none"
          /\ machine.at \in {"AwaitingResult", "ReceivingResult",
                             "AwaitingComplete"}
      BY <2>10 DEF Receive, MachineOK
    <3>2. f = toBroker[1] /\ 1 \in 1..Len(toBroker)
      <4>1. toBroker # <<>>
        BY <2>10 DEF Receive, Arrived
      <4> QED
        BY <1>0, <4>1, StreamFrames
    <3>3. CASE Received(machine, f) = InvalidTransition \/ OverCeiling(f)
      <4>1. pc' = "revoke" /\ answer' = "failed"
        BY <2>10, <3>3 DEF Receive, TakeFrame, Conclude
      <4> QED
        BY <2>3, <4>1 DEF ResultOK
    <3>4. CASE Received(machine, f) # InvalidTransition /\ ~OverCeiling(f)
      <4>1. /\ machine' = Received(machine, f) /\ answer' = "none"
            /\ f.kind # "Result" => output' = output
            /\ f.kind \in {"Complete", "Failed"} => pc' = "exit"
            /\ f.kind \notin {"Complete", "Failed"} => pc' = "results"
        BY <2>10, <3>1, <3>4 DEF Receive, TakeFrame
      <4>2. CASE f.kind = "Result"
        <5>1. machine'.at = "ReceivingResult" /\ pc' = "results"
          BY <3>1, <3>4, <4>1, <4>2, ResultFrame
        <5> QED
          BY <2>3, <4>1, <5>1 DEF ResultOK
      <4>3. CASE f.kind = "ResultEnd"
        <5>1. /\ f.n = machine.next
              /\ machine.at \in {"AwaitingResult", "ReceivingResult"}
          BY <3>1, <3>4, <4>3 DEF Received
        <5>2. machine.next = Len(output)
          BY <3>1, <5>1 DEF OutputOK
        <5>3. Len(output') = results' /\ Delivered'
          BY <1>0, <2>1, <2>2, <3>2, <4>1, <4>3, <5>1, <5>2
        <5> QED
          BY <2>3, <5>3 DEF ResultOK
      <4>4. CASE f.kind \in {"Complete", "Failed"}
        <5>1. machine.at \in {"AwaitingResult", "AwaitingComplete"}
          BY <3>1, <3>4, <4>4 DEF Received
        <5>2. CASE machine.at = "AwaitingResult"
          <6>1. Len(output) = 0
            BY <3>1, <5>2 DEF CountsOK, OutputOK
          <6>2. output' = <<>>
            BY <4>1, <4>4, <6>1 DEF OutputOK
          <6> QED
            BY <2>3, <4>1, <4>4, <6>2 DEF ResultOK
        <5>3. CASE machine.at = "AwaitingComplete"
          BY <2>3, <2>4, <3>1, <4>1, <4>4, <5>3 DEF ResultOK
        <5> QED
          BY <5>1, <5>2, <5>3
      <4> QED
        BY <3>1, <3>4, <4>2, <4>3, <4>4, ResultFrame
    <3> QED
      BY <3>3, <3>4
  <2>11. CASE Revoke \/ Reap \/ Kill
    <3>1. Ended' => Ended /\ UNCHANGED output
      BY <2>11 DEF Revoke, Reap, Kill, callVars
    <3> QED
      BY <2>3, <2>4, <3>1 DEF ResultOK
  <2>12. CASE RequestCancel \/ Expire \/ UNCHANGED vars
    <3>1. Ended' => Ended /\ UNCHANGED output
      BY <2>12 DEF RequestCancel, Expire, vars, callVars, brokerVars
    <3> QED
      BY <2>3, <2>4, <3>1 DEF ResultOK
  <2> QED
    BY <1>2, <2>5, <2>6, <2>7, <2>8, <2>9, <2>10, <2>11, <2>12
    DEF Next, BrokerStep, WorkerMoves
<1>3. CASE WorkerMoves
  <2>1. ~rogue
    BY <1>3, HelperKeepsRogue
  <2>2. Delivered => Delivered' /\ UNCHANGED results
    BY <1>3, <2>1, PastResult DEF Delivered
  <2>3. Ended' => Len(output') = results' /\ Delivered'
    BY <1>0, <1>3, <2>1, <2>2, HelperKeepsCall DEF callVars, brokerVars
  <2>4. CASE UNCHANGED toBroker
    BY <1>0, <2>1, <2>2, <2>3, <2>4 DEF ResultOK
  <2>5. ASSUME NEW f \in Frame, toBroker' = Append(toBroker, f),
               f.kind = "ResultEnd" => f.n = results' /\ Delivered'
        PROVE  ResultOK'
    <3>1. /\ Len(toBroker') = Len(toBroker) + 1
          /\ toBroker'[Len(toBroker) + 1] = f
          /\ \A i \in 1..Len(toBroker) : toBroker'[i] = toBroker[i]
      BY <1>0, <2>5, StreamFrames
    <3>2. ASSUME NEW i \in 1..Len(toBroker')
          PROVE  i \in 1..Len(toBroker) \/ i = Len(toBroker) + 1
      BY <1>0, <3>1
    <3> QED
      BY <1>0, <2>1, <2>2, <2>3, <2>5, <3>1, <3>2 DEF ResultOK
  <2>6. ASSUME wpc = "result", wpc' = "complete", UNCHANGED input
        PROVE  Delivered'
    BY <2>6 DEF TransformOnlyWhole, Delivered
  <2> QED
    BY <1>3, <2>1, <2>4, <2>5, <2>6, HonestFrames
<1> QED
  BY <1>1, <1>2, <1>3

-----------------------------------------------------------------------------
(* What is known of memory that could not be locked. *)

\* A broker that goes on after a Complete has taken over what it reports.
LEMMA LocksStep ==
  ASSUME TypeOK, ExchangeInv, [Next]_vars, ~rogue => LocksOK
  PROVE  ~rogue' => LocksOK'
<1> SUFFICES ASSUME ~rogue' PROVE LocksOK'
  OBVIOUS
<1> DEFINE Told == pc \in {"exit", "judge"} /\ class = "Success"
           Exact == \A i \in 1..Len(toBroker) :
                      toBroker[i].kind = "Complete" =>
                        /\ toBroker[i].degraded = wlocks
                        /\ wpc \in {"leaving", "gone"}
           Known == (wlocks => locks) /\ wpc \in {"leaving", "gone"}
<1>0. /\ toBroker \in Seq(Frame)
      /\ ~rogue => Exact /\ (Told => Known)
  BY DEF TypeOK, LocksOK
<1>1. CASE SpawnOnce
  BY <1>1 DEF SpawnOnce, LocksOK
<1>2. CASE ~WorkerMoves /\ ~SpawnOnce
  <2>1. UNCHANGED <<wlocks, rogue>> /\ wpc' \in {wpc, "gone"}
    BY <1>2, CallKeepsHelper
  <2>2. Exact'
    BY <1>0, <1>2, <2>1, BrokerReads
  <2>3. ASSUME Told, UNCHANGED locks PROVE Known'
    BY <1>0, <2>1, <2>3
  <2>4. CASE Begin \/ Decline \/ Return \/ SpawnFails \/ StartupBreaks
               \/ ReceiveReady \/ SendHello \/ SendStart
    <3>1. ~Told'
      BY <2>4 DEF Begin, Decline, Return, SpawnFails, StartupBreaks,
         ReceiveReady, StartupFails, Retry, SendHello, SendStart
    <3> QED
      BY <2>2, <3>1 DEF LocksOK
  <2>5. CASE OfferChunk \/ WriteChunk \/ WriteFails \/ BeginFinish \/ WriteEnd
               \/ WriteEndFails \/ CheckCancelled \/ ReceiveFails
    <3>1. ~Told'
      BY <2>5 DEF OfferChunk, WriteChunk, WriteFails, BeginFinish, WriteEnd,
         WriteEndFails, CheckCancelled, ReceiveFails, SendFails, Conclude
    <3> QED
      BY <2>2, <3>1 DEF LocksOK
  <2>6. CASE WaitForExit \/ Judge
    <3>1. Told' => Told /\ UNCHANGED locks
      BY <2>6 DEF WaitForExit, Judge, Conclude
    <3> QED
      BY <2>2, <2>3, <3>1 DEF LocksOK
  <2>7. CASE Receive
    <3> DEFINE f == Head(toBroker)
    <3>1. f = toBroker[1] /\ 1 \in 1..Len(toBroker)
      <4>1. toBroker # <<>>
        BY <2>7 DEF Receive, Arrived
      <4> QED
        BY <1>0, <4>1, StreamFrames
    <3>2. CASE ~Told'
      BY <2>2, <3>2 DEF LocksOK
    <3>3. CASE Told'
      <4>1. /\ Received(machine, f) # InvalidTransition
            /\ class' = ResponseClass(f) /\ f.kind \in {"Complete", "Failed"}
        BY <2>7, <3>3 DEF Receive, TakeFrame, Conclude
      <4>2. f.kind = "Complete"
        BY <3>3, <4>1 DEF ResponseClass
      <4>3. f.degraded = wlocks /\ wpc \in {"leaving", "gone"}
        BY <1>0, <2>1, <3>1, <4>2
      <4>4. PICK d \in Degrade : locks' = (locks \/ d \/ Reported(f))
        BY <2>7 DEF Receive
      <4>5. f.degraded => locks'
        BY <4>1, <4>4 DEF Reported
      <4>6. Known'
        BY <2>1, <4>3, <4>5
      <4> QED
        BY <2>2, <4>6 DEF LocksOK
    <3> QED
      BY <3>2, <3>3
  <2>8. CASE Revoke \/ Reap \/ Kill
    <3>1. ~Told'
      BY <2>8 DEF Revoke, Reap, Kill
    <3> QED
      BY <2>2, <3>1 DEF LocksOK
  <2>9. CASE RequestCancel \/ Expire \/ UNCHANGED vars
    <3>1. Told' => Told /\ UNCHANGED locks
      BY <2>9 DEF RequestCancel, Expire, vars, brokerVars
    <3> QED
      BY <2>2, <2>3, <3>1 DEF LocksOK
  <2> QED
    BY <1>2, <2>4, <2>5, <2>6, <2>7, <2>8, <2>9
    DEF Next, BrokerStep, WorkerMoves
<1>3. CASE WorkerMoves
  <2>1. ~rogue
    BY <1>3, HelperKeepsRogue
  <2>2. wpc \in {"leaving", "gone"} =>
          UNCHANGED wlocks /\ wpc' \in {"leaving", "gone"}
    BY <1>3, <2>1, PastResult
  <2>3. Told' => Known'
    BY <1>0, <1>3, <2>1, <2>2, HelperKeepsCall DEF brokerVars
  <2>4. CASE UNCHANGED toBroker
    BY <1>0, <2>1, <2>2, <2>3, <2>4 DEF LocksOK
  <2>5. ASSUME NEW f \in Frame, toBroker' = Append(toBroker, f),
               f.kind = "Complete" =>
                 f.degraded = wlocks' /\ wpc' \in {"leaving", "gone"}
        PROVE  LocksOK'
    <3>1. /\ Len(toBroker') = Len(toBroker) + 1
          /\ toBroker'[Len(toBroker) + 1] = f
          /\ \A i \in 1..Len(toBroker) : toBroker'[i] = toBroker[i]
      BY <1>0, <2>5, StreamFrames
    <3>2. ASSUME NEW i \in 1..Len(toBroker')
          PROVE  i \in 1..Len(toBroker) \/ i = Len(toBroker) + 1
      BY <1>0, <3>1
    <3> QED
      BY <1>0, <2>1, <2>2, <2>3, <2>5, <3>1, <3>2 DEF LocksOK
  <2> QED
    BY <1>3, <2>1, <2>4, <2>5, HonestFrames
<1> QED
  BY <1>1, <1>2, <1>3

\* Each degradation the broker sees of a child it also records.
LEMMA ObservedStep ==
  ASSUME TypeOK, ObservedOK, [Next]_vars
  PROVE  ObservedOK'
<1> USE DEF ObservedOK, StartupSteps, ServingSteps
<1>1. CASE Begin \/ Decline \/ Return \/ SpawnFails \/ SpawnOnce
  BY <1>1 DEF Begin, Decline, Return, SpawnFails, SpawnOnce, Retry
<1>2. CASE StartupBreaks
  BY <1>2 DEF StartupBreaks, StartupFails, Retry
<1>3. CASE ReceiveReady
  <2>1. pc = "ready" /\ pc' \in {"spawn", "done", "start"}
    BY <1>3 DEF ReceiveReady, StartupFails, Retry
  <2>2. CASE pc' = "start"
    <3>1. observed' = (observed \/ locks')
      BY <1>3, <2>2 DEF ReceiveReady, StartupFails, Retry
    <3> QED
      BY <2>1, <2>2, <3>1
  <2> QED
    BY <2>1, <2>2
<1>4. CASE SendHello \/ SendStart
  BY <1>4 DEF SendHello, SendStart, callVars
<1>5. CASE OfferChunk \/ WriteFails \/ BeginFinish \/ WriteEnd
             \/ WriteEndFails \/ CheckCancelled
  BY <1>5 DEF OfferChunk, WriteFails, BeginFinish, WriteEnd, WriteEndFails,
     CheckCancelled, SendFails, Conclude, callVars
<1>6. CASE WriteChunk
  <2>1. PICK d \in Degrade : locks' = (locks \/ d) /\ observed' = (observed \/ d)
    BY <1>6 DEF WriteChunk
  <2>2. pc = "write" /\ pc' = "offer"
    BY <1>6 DEF WriteChunk
  <2> QED
    BY <2>1, <2>2
<1>7. CASE Receive
  <2>1. PICK b : locks' = (locks \/ b) /\ observed' = (observed \/ b)
    BY <1>7 DEF Receive
  <2>2. pc = "receive" /\ pc' \in {"results", "exit", "revoke"}
    BY <1>7 DEF Receive, TakeFrame, Conclude
  <2> QED
    BY <2>1, <2>2
<1>8. CASE ReceiveFails \/ WaitForExit \/ Judge
  BY <1>8 DEF ReceiveFails, WaitForExit, Judge, Conclude
<1>9. CASE Revoke \/ Reap \/ Kill
  BY <1>9 DEF Revoke, Reap, Kill, callVars
<1>10. CASE WorkerMoves
  BY <1>10, HelperKeepsCall DEF callVars, brokerVars
<1>11. CASE RequestCancel \/ Expire \/ UNCHANGED vars
  BY <1>11 DEF RequestCancel, Expire, vars, callVars, brokerVars
<1> QED
  BY <1>1, <1>2, <1>3, <1>4, <1>5, <1>6, <1>7, <1>8, <1>9, <1>10, <1>11
  DEF Next, BrokerStep, WorkerMoves

\* What the answer tells is what the supervisor knows when it is given.
LEMMA LockedStep ==
  ASSUME TypeOK, ExchangeInv, ~rogue => LocksOK, ObservedOK, LockedMeansLocked,
         [Next]_vars
  PROVE  LockedMeansLocked'
<1> USE DEF LockedMeansLocked, ExchangeInv, CallOK, EndingSteps
<1>1. CASE Begin \/ Decline \/ SpawnOnce \/ SpawnFails
  BY <1>1 DEF Begin, Decline, SpawnOnce, SpawnFails, Retry
<1>2. CASE Return
  BY <1>2 DEF Return, workerVars
<1>3. CASE StartupBreaks \/ ReceiveReady
  BY <1>3 DEF StartupBreaks, ReceiveReady, StartupFails, Retry, StartupSteps
<1>4. CASE SendHello \/ SendStart \/ OfferChunk \/ WriteChunk \/ WriteFails
  BY <1>4 DEF SendHello, SendStart, OfferChunk, WriteChunk, WriteFails,
     SendFails, Conclude, callVars
<1>5. CASE BeginFinish \/ WriteEnd \/ WriteEndFails \/ CheckCancelled
  BY <1>5 DEF BeginFinish, WriteEnd, WriteEndFails, CheckCancelled, Conclude,
     callVars
<1>6. CASE Receive
  BY <1>6 DEF Receive, TakeFrame, Conclude
<1>7. CASE ReceiveFails \/ WaitForExit
  BY <1>7 DEF ReceiveFails, WaitForExit, Conclude
<1>8. CASE Judge
  <2> SUFFICES ASSUME answer' = "prepared", ~rogue', ~told'
               PROVE  ~wlocks' /\ ~observed'
    OBVIOUS
  <2>1. pc = "judge" /\ class = "Success" /\ told' = locks
    BY <1>8 DEF Judge, Conclude
  <2>2. UNCHANGED <<wlocks, observed, rogue>>
    BY <1>8 DEF Judge, workerVars
  <2> QED
    BY <2>1, <2>2 DEF LocksOK, ObservedOK, ServingSteps
<1>9. CASE Revoke \/ Reap \/ Kill
  BY <1>9 DEF Revoke, Reap, Kill, KillAndWait, callVars, workerVars
<1>10. CASE WorkerMoves
  BY <1>10, HelperKeepsCall DEF callVars, AcceptedMeansFinished
<1>11. CASE RequestCancel \/ Expire \/ UNCHANGED vars
  BY <1>11 DEF RequestCancel, Expire, vars, callVars, workerVars
<1> QED
  BY <1>1, <1>2, <1>3, <1>4, <1>5, <1>6, <1>7, <1>8, <1>9, <1>10, <1>11
  DEF Next, BrokerStep, WorkerMoves

-----------------------------------------------------------------------------
(* The whole of a request and its result. *)

\* The broker takes for a result only what the worker sent whole, after the
\* whole input: the invariant of the exchange holds always.
THEOREM ResultStands == Spec => []ResultInv
<1> DEFINE Rest == /\ TypeOK /\ CountsOK
                   /\ SendingOK /\ InputOK /\ TransformOnlyWhole
                   /\ ~rogue => ResultOK /\ LocksOK
                   /\ ObservedOK /\ LockedMeansLocked
<1>1. Init => Rest
  <2> SUFFICES ASSUME Init PROVE Rest
    OBVIOUS
  <2>1. TypeOK /\ CountsOK
    BY TypeInit
  <2> QED
    BY <2>1 DEF Init, SendingOK, InputOK, TransformOnlyWhole, ResultOK, LocksOK,
       ObservedOK, LockedMeansLocked, ServingSteps
<1>2. ExchangeInv /\ ExchangeInv' /\ Rest /\ [Next]_vars => Rest'
  <2> SUFFICES ASSUME ExchangeInv, ExchangeInv', Rest, [Next]_vars PROVE Rest'
    OBVIOUS
  <2>1. TypeOK' /\ CountsOK'
    BY TypeStep
  <2>2. SendingOK' /\ InputOK' /\ TransformOnlyWhole'
    BY SendingStep, InputStep DEF ExchangeInv
  <2>3. ~rogue' => ResultOK' /\ LocksOK'
    BY ResultStep, LocksStep
  <2>4. ObservedOK' /\ LockedMeansLocked'
    BY ObservedStep, LockedStep
  <2> QED
    BY <2>1, <2>2, <2>3, <2>4
<1>3. ExchangeInv /\ Rest => ResultInv
  BY DEF ResultInv
<1> QED
  BY <1>1, <1>2, <1>3, ExchangeStands, PTL DEF Spec

\* However a send is cut short, a worker transforms only the whole input.
THEOREM TransformsWhole == Spec => []TransformOnlyWhole
<1>1. ResultInv => TransformOnlyWhole
  BY DEF ResultInv
<1> QED
  BY <1>1, ResultStands, PTL

\* For every input, length of the result, stream capacity and faults: the caller
\* of an honest helper gets its whole result, computed from the whole input.
THEOREM ResultsWhole == Spec => []ResultIsWhole
<1>1. ResultInv => ResultIsWhole
  <2> SUFFICES ASSUME ResultInv, answer = "prepared", ~rogue
               PROVE  /\ input = [i \in 1..Chunks |-> i - 1]
                      /\ output = [i \in 1..results |-> i - 1]
                      /\ status = "success"
    BY DEF ResultIsWhole
  <2>1. Delivered /\ Len(output) = results
    BY DEF ResultInv, ResultOK
  <2>2. status = "success" /\ \A i \in 1..Len(output) : output[i] = i - 1
    BY DEF ResultInv, ExchangeInv, AcceptedMeansFinished
  <2>3. output \in Seq(Nat)
    BY DEF ResultInv, TypeOK
  <2>4. output = [i \in 1..results |-> i - 1]
    BY <2>1, <2>2, <2>3
  <2> QED
    BY <2>1, <2>2, <2>4 DEF Delivered
<1> QED
  BY <1>1, ResultStands, PTL

\* A result that is said to be handled in locked memory was, on both sides.
THEOREM LocksTold == Spec => []LockedMeansLocked
<1>1. ResultInv => LockedMeansLocked
  BY DEF ResultInv
<1> QED
  BY <1>1, ResultStands, PTL
=============================================================================
