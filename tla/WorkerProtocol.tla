---------------------------- MODULE WorkerProtocol ----------------------------
(***************************************************************************)
(* The frames of the worker protocol and the state machine the broker      *)
(* checks them with (crates/osv-worker-protocol/src/lib.rs).  Payload      *)
(* bytes and the request identity are left out: one stream carries one     *)
(* request, and a frame with another identity or with bytes that do not    *)
(* decode is "Garbage".                                                    *)
(***************************************************************************)
EXTENDS Naturals

BrokerKinds == {"Hello", "Start", "Data", "End", "Cancel"}
WorkerKinds == {"Ready", "Result", "ResultEnd", "Complete", "Failed"}

\* "Torn" is the beginning of a frame whose sender gave up.
Kinds == BrokerKinds \cup WorkerKinds \cup {"Garbage", "Torn"}

\* n is the sequence number of a chunk, the count that ends a stream, or the
\* verdict on a Ready; degraded is the page-lock status a worker reports.
Frame == [kind : Kinds, n : Nat, degraded : BOOLEAN]

Plain(kind) == [kind |-> kind, n |-> 0, degraded |-> FALSE]
Numbered(kind, n) == [kind |-> kind, n |-> n, degraded |-> FALSE]
Report(kind, degraded) == [kind |-> kind, n |-> 0, degraded |-> degraded]

\* What a Ready frame may claim: all that is asked for, another protocol
\* version, or a sandbox without a mandatory part.
Sound == 0
WrongVersion == 1
NoSandbox == 2
ReadyClaims == {Sound, WrongVersion, NoSandbox}

Phases == {"AwaitingReady", "Ready", "Streaming", "AwaitingResult",
           "ReceivingResult", "AwaitingComplete", "Finished"}

\* BrokerState; next is the next sequence number of the phases that count.
Machine == [at : Phases, next : Nat]
At(phase) == [at |-> phase, next |-> 0]
InvalidTransition == [at |-> "InvalidTransition", next |-> 0]

\* BrokerMachine::sent.
Sent(m, f) ==
  CASE m.at = "AwaitingReady" /\ f.kind = "Hello" -> m
    [] m.at = "Ready" /\ f.kind = "Start" -> At("Streaming")
    [] m.at = "Streaming" /\ f.kind = "Data" /\ f.n = m.next ->
         [m EXCEPT !.next = @ + 1]
    [] m.at = "Streaming" /\ f.kind = "End" /\ f.n = m.next ->
         At("AwaitingResult")
    [] m.at \in {"Streaming", "AwaitingResult"} /\ f.kind = "Cancel" ->
         At("Finished")
    [] OTHER -> InvalidTransition

\* Mutant: the count that ends the result is not compared.
ReceivedAnyCount(m, f) ==
  CASE m.at = "AwaitingReady" /\ f.kind = "Ready" /\ f.n # WrongVersion ->
         At("Ready")
    [] m.at \in {"AwaitingResult", "ReceivingResult"} /\ f.kind = "Result" ->
         [at |-> "ReceivingResult", next |-> m.next + 1]
    [] m.at \in {"AwaitingResult", "ReceivingResult"}
         /\ f.kind \in {"ResultEnd", "Complete"} ->
         At(IF f.kind = "ResultEnd" THEN "AwaitingComplete" ELSE "Finished")
    [] m.at \in {"AwaitingResult", "AwaitingComplete"}
         /\ f.kind \in {"Complete", "Failed"} -> At("Finished")
    [] OTHER -> InvalidTransition

\* BrokerMachine::received.
Received(m, f) ==
  CASE m.at = "AwaitingReady" /\ f.kind = "Ready" /\ f.n # WrongVersion ->
         At("Ready")
    [] m.at \in {"AwaitingResult", "ReceivingResult"}
         /\ f.kind = "Result" /\ f.n = m.next ->
         [at |-> "ReceivingResult", next |-> m.next + 1]
    [] m.at \in {"AwaitingResult", "ReceivingResult"}
         /\ f.kind = "ResultEnd" /\ f.n = m.next -> At("AwaitingComplete")
    [] m.at \in {"AwaitingResult", "AwaitingComplete"}
         /\ f.kind \in {"Complete", "Failed"} -> At("Finished")
    [] OTHER -> InvalidTransition
=============================================================================
