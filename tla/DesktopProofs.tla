---------------------------- MODULE DesktopProofs ----------------------------
(***************************************************************************)
(* What holds of the owner threads for any number of sessions and          *)
(* preparations, any interface and any failures: a file that is in the     *)
(* vault is imported again only by the user's choice, and the maintenance  *)
(* status accounts for every missing thumbnail.  The application           *)
(* implements their interface, and nothing of an old session gets to the   *)
(* screen after a lock, whatever the timers and choosers do.               *)
(***************************************************************************)
EXTENDS Desktop, FiniteSetTheorems, TLAPS

-----------------------------------------------------------------------------
(* The owner threads. *)

\* The vault is untouched, and so is what a thread has in hand.
Apart == UNCHANGED <<hand, pending, backlog, tally, library, copies>>

\* What is known of the constants.
LEMMA Bounds ==
  /\ MaxSessions \in Nat /\ MaxImports \in Nat
  /\ None \notin Nat /\ None # "ImportAnotherCopy"
BY OwnerAssumption DEF OwnerAssumption

\* The types of the two commands that nobody sends.
LEMMA IdleCommand ==
  /\ Idle \in Commands(CommandKinds \cup {"Regenerate", "Idle"})
  /\ Idle.kind = "Idle"
  /\ Close \in Commands(CommandKinds) /\ Close.kind = "Close"
BY DEF Idle, Close, Command, Commands, CommandKinds, Decisions

\* The invariant holds at first.
LEMMA OwnerInitial == OwnerInit => OwnerInvariant
<1> SUFFICES ASSUME OwnerInit PROVE OwnerInvariant
  OBVIOUS
<1> USE DEF OwnerInit
<1>1. OwnerTypes
  BY IdleCommand, Bounds DEF OwnerTypes, Phases, ImageStates, Present
<1>2. OneHolder
  BY DEF OneHolder, Holders
<1>3. AllNumbered
  BY IdleCommand DEF AllNumbered, Numbered
<1>4. OnlyHolderWorks
  BY IdleCommand DEF OnlyHolderWorks
<1>5. BacklogPresent
  BY DEF BacklogPresent, Holders
<1>6. PendingFresh
  BY DEF PendingFresh
<1>7. NoSilentDuplicate
  BY DEF NoSilentDuplicate, Present
<1>8. MaintenanceAccounted
  BY DEF MaintenanceAccounted
<1> QED
  BY <1>1, <1>2, <1>3, <1>4, <1>5, <1>6, <1>7, <1>8 DEF OwnerInvariant

-----------------------------------------------------------------------------
(* Steps of the interface. *)

\* The answers of the thread change only the channels.
LEMMA ChannelStep ==
  ASSUME OwnerInvariant,
         UNCHANGED <<phase, held, cancelled, inbox, hand, pending, backlog,
                     tally, source, library, copies>>
  PROVE  OwnerInvariant'
<1> USE DEF OwnerInvariant
<1>1. OwnerTypes'
  BY DEF OwnerTypes, Present
<1>2. OneHolder' /\ AllNumbered'
  BY DEF OneHolder, Holders, AllNumbered, Numbered
<1>3. OnlyHolderWorks' /\ BacklogPresent'
  BY DEF OnlyHolderWorks, BacklogPresent, Holders, Present
<1>4. PendingFresh' /\ NoSilentDuplicate' /\ MaintenanceAccounted'
  BY DEF PendingFresh, NoSilentDuplicate, MaintenanceAccounted, Present, Working
<1> QED
  BY <1>1, <1>2, <1>3, <1>4

\* A command is added to a queue, and Close at the end of a session.
LEMMA QueueStep ==
  ASSUME OwnerInvariant, Apart,
         NEW s \in Sessions, NEW c \in Commands(CommandKinds),
         c.kind = "PrepareImport" => c.subject \in 1..Len(source'),
         inbox' = [inbox EXCEPT ![s] = Append(@, c)],
         phase' = phase,
         held' \in [Sessions -> BOOLEAN], cancelled' \in [Sessions -> BOOLEAN],
         \A r \in Sessions : cancelled[r] => cancelled'[r],
         \/ source' = source
         \/ \E f \in Files : source' = Append(source, f) /\ Len(source) < MaxImports
  PROVE  OwnerInvariant'
<1> USE DEF OwnerInvariant
<1>0. /\ source' \in Seq(Files) /\ Len(source') <= MaxImports
      /\ Len(source) <= Len(source')
      /\ \A i \in 1..Len(source) : source'[i] = source[i]
  <2>1. source \in Seq(Files) /\ Len(source) \in Nat /\ Len(source) <= MaxImports
    BY DEF OwnerTypes
  <2>2. ASSUME NEW f \in Files, source' = Append(source, f), Len(source) < MaxImports
        PROVE  /\ source' \in Seq(Files) /\ Len(source') = Len(source) + 1
               /\ \A i \in 1..Len(source) : source'[i] = source[i]
    BY <2>1, <2>2
  <2> QED
    BY <2>1, <2>2, Bounds
<1>1. OwnerTypes'
  <2>1. inbox' \in [Sessions -> Seq(Commands(CommandKinds))]
    BY DEF OwnerTypes
  <2>2. \A i \in Present' : i <= Len(source')
    BY <1>0 DEF OwnerTypes, Apart, Present, Imports
  <2> QED
    BY <1>0, <2>1, <2>2 DEF OwnerTypes, Apart
<1>2. OneHolder'
  BY DEF OneHolder, Holders
<1>3. AllNumbered'
  <2> SUFFICES ASSUME NEW r \in Sessions
               PROVE  (/\ Numbered(hand[r])
                       /\ \A i \in 1..Len(inbox[r]) : Numbered(inbox[r][i]))'
    BY DEF AllNumbered
  <2>0. ASSUME NEW i \in 1..Len(inbox[r]), inbox[r][i].kind = "PrepareImport"
        PROVE  inbox[r][i].subject \in 1..Len(source')
    <3>1. inbox[r][i].subject \in 1..Len(source)
      BY <2>0 DEF AllNumbered, Numbered
    <3>2. Len(source) \in Nat /\ Len(source') \in Nat
      BY <1>0 DEF OwnerTypes
    <3> QED
      BY <1>0, <3>1, <3>2
  <2>1. (Numbered(hand[r]))'
    BY <1>0 DEF AllNumbered, Numbered, Apart, OwnerTypes
  <2>2. CASE r # s
    <3>1. inbox'[r] = inbox[r]
      BY <2>2 DEF OwnerTypes
    <3> QED
      BY <2>0, <2>1, <3>1 DEF Numbered
  <2>3. CASE r = s
    <3>1. inbox[r] \in Seq(Commands(CommandKinds)) /\ inbox'[r] = Append(inbox[r], c)
      BY <2>3 DEF OwnerTypes
    <3>2. \A i \in 1..Len(inbox'[r]) : inbox'[r][i] = c \/ (i \in 1..Len(inbox[r]) /\ inbox'[r][i] = inbox[r][i])
      BY <3>1
    <3> QED
      BY <2>0, <2>1, <3>2 DEF Numbered
  <2> QED BY <2>1, <2>2, <2>3
<1>4. OnlyHolderWorks'
  BY <1>0 DEF OnlyHolderWorks, Apart, Holders, OwnerTypes
<1>5. BacklogPresent'
  BY DEF BacklogPresent, Apart, Holders, Present
<1>6. PendingFresh'
  <2> SUFFICES ASSUME NEW r \in Sessions, pending[r] # None, ~pending[r].duplicate,
                      NEW i \in Present
               PROVE  source'[i] # source'[pending[r].id]
    BY DEF PendingFresh, Apart, Present
  <2>1. i \in 1..Len(source) /\ pending[r].id \in 1..Len(source)
    BY DEF OwnerTypes, OnlyHolderWorks, Present, Imports
  <2> QED
    BY <1>0, <2>1 DEF PendingFresh
<1>7. NoSilentDuplicate'
  <2> SUFFICES ASSUME NEW i \in Present \ copies, NEW j \in Present \ copies,
                      source'[i] = source'[j]
               PROVE  i = j
    BY DEF NoSilentDuplicate, Apart, Present
  <2>1. i \in 1..Len(source) /\ j \in 1..Len(source)
    BY DEF OwnerTypes, Present, Imports
  <2> QED
    BY <1>0, <2>1 DEF NoSilentDuplicate
<1>8. MaintenanceAccounted'
  BY DEF MaintenanceAccounted, Apart, Working, OwnerTypes
<1> QED
  BY <1>1, <1>2, <1>3, <1>4, <1>5, <1>6, <1>7, <1>8

\* The flags change.
LEMMA FlagStep ==
  ASSUME OwnerInvariant, Apart, UNCHANGED <<phase, inbox, source>>,
         held' \in [Sessions -> BOOLEAN], cancelled' \in [Sessions -> BOOLEAN],
         \A r \in Sessions : cancelled[r] => cancelled'[r]
  PROVE  OwnerInvariant'
<1> USE DEF OwnerInvariant, Apart
<1>1. OwnerTypes'
  BY DEF OwnerTypes, Present
<1>2. OneHolder' /\ AllNumbered'
  BY DEF OneHolder, Holders, AllNumbered, Numbered
<1>3. OnlyHolderWorks' /\ BacklogPresent'
  BY DEF OnlyHolderWorks, BacklogPresent, Holders, Present
<1>4. PendingFresh' /\ NoSilentDuplicate'
  BY DEF PendingFresh, NoSilentDuplicate, Present
<1>5. MaintenanceAccounted'
  BY DEF MaintenanceAccounted, Working, OwnerTypes
<1> QED
  BY <1>1, <1>2, <1>3, <1>4, <1>5

\* A thread starts, and the session that it replaces is asked to end.
LEMMA BeginStep ==
  ASSUME OwnerInvariant, NEW s \in Sessions, NEW previous \in Sessions \cup {None},
         Begin(s, previous)
  PROVE  OwnerInvariant'
<1> USE DEF OwnerInvariant
<1>1. Apart /\ UNCHANGED source
  BY DEF Begin, Apart, storeVars
<1>2. /\ phase[s] = "unborn" /\ phase' = [phase EXCEPT ![s] = "opening"]
      /\ \A r \in Sessions : cancelled[r] => cancelled'[r]
      /\ Holders' = Holders
  BY DEF Begin, Holders, OwnerTypes
<1>3. ASSUME NEW r \in Sessions
      PROVE  /\ inbox'[r] \in Seq(Commands(CommandKinds))
             /\ \A i \in 1..Len(inbox'[r]) :
                  inbox'[r][i] = Close \/ (i \in 1..Len(inbox[r]) /\ inbox'[r][i] = inbox[r][i])
  <2>1. inbox[r] \in Seq(Commands(CommandKinds)) /\ Close \in Commands(CommandKinds)
    BY IdleCommand DEF OwnerTypes
  <2>2. inbox'[r] = inbox[r] \/ inbox'[r] = Append(inbox[r], Close)
    BY DEF Begin, Ending
  <2>3. CASE inbox'[r] = inbox[r]
    BY <2>1, <2>3
  <2>4. CASE inbox'[r] = Append(inbox[r], Close)
    <3>1. \A i \in 1..Len(inbox'[r]) : i \in 1..Len(inbox[r]) \/ i = Len(inbox[r]) + 1
      BY <2>1, <2>4
    <3> QED
      BY <2>1, <2>4, <3>1
  <2> QED BY <2>2, <2>3, <2>4
<1>4. OwnerTypes'
  <2>1. /\ held' \in [Sessions -> BOOLEAN] /\ cancelled' \in [Sessions -> BOOLEAN]
        /\ phase' \in [Sessions -> Phases] /\ DOMAIN inbox' = Sessions
    BY <1>2 DEF Begin, OwnerTypes, Phases
  <2>2. inbox' = [r \in Sessions |-> inbox'[r]]
    BY DEF Begin
  <2>3. inbox' \in [Sessions -> Seq(Commands(CommandKinds))]
    BY <1>3, <2>2
  <2> QED
    BY <1>1, <2>1, <2>3 DEF OwnerTypes, Apart, Present
<1>5. OneHolder'
  BY <1>2 DEF OneHolder
<1>6. AllNumbered'
  BY <1>1, <1>3, IdleCommand DEF AllNumbered, Numbered, Apart
<1>7. OnlyHolderWorks'
  BY <1>1, <1>2 DEF OnlyHolderWorks, Apart, OwnerTypes
<1>8. BacklogPresent' /\ PendingFresh' /\ NoSilentDuplicate'
  BY <1>1, <1>2 DEF BacklogPresent, PendingFresh, NoSilentDuplicate, Apart, Present
<1>9. MaintenanceAccounted'
  BY <1>1, <1>2 DEF MaintenanceAccounted, Apart, Working, OwnerTypes
<1> QED
  BY <1>4, <1>5, <1>6, <1>7, <1>8, <1>9

\* What an interface does keeps the invariant.
LEMMA InterfaceMoves ==
  ASSUME OwnerInvariant, NEW s \in Sessions, InterfaceStep(s)
  PROVE  OwnerInvariant'
<1>1. ASSUME NEW t \in Tokens, NEW f \in Files, SendPrepare(s, t, f)
      PROVE  OwnerInvariant'
  <2> DEFINE c == Command("PrepareImport", t, Len(source) + 1, None)
  <2>1. Len(source) \in Nat /\ source \in Seq(Files)
    BY DEF OwnerInvariant, OwnerTypes
  <2>2. c \in Commands(CommandKinds) /\ c.subject = Len(source) + 1
    BY <2>1 DEF Command, Commands, CommandKinds, Decisions
  <2>3. source' = Append(source, f) /\ Len(source) < MaxImports
    BY <1>1 DEF SendPrepare
  <2>4. c.subject \in 1..Len(source')
    BY <2>1, <2>2, <2>3
  <2>5. /\ Apart /\ UNCHANGED <<phase, held, cancelled>>
        /\ inbox' = [inbox EXCEPT ![s] = Append(@, c)]
    BY <1>1 DEF SendPrepare, Send, Apart
  <2> HIDE DEF c
  <2> QED
    BY <2>2, <2>3, <2>4, <2>5, QueueStep DEF OwnerInvariant, OwnerTypes
<1>2. ASSUME NEW t \in Tokens, NEW kind, NEW i, NEW d \in Decisions,
             kind \in CommandKinds \ {"PrepareImport"}, i \in Nat \cup {None},
             SendCommand(s, kind, t, i, d)
      PROVE  OwnerInvariant'
  <2> DEFINE c == Command(kind, t, i, d)
  <2>1. c \in Commands(CommandKinds) /\ c.kind # "PrepareImport"
    BY <1>2 DEF Command, Commands
  <2>2. /\ Apart /\ UNCHANGED <<phase, held, cancelled, source>>
        /\ inbox' = [inbox EXCEPT ![s] = Append(@, c)]
    BY <1>2 DEF SendCommand, Send, Apart, storeVars
  <2> HIDE DEF c
  <2> QED
    BY <2>1, <2>2, QueueStep DEF OwnerInvariant, OwnerTypes
<1>3. ASSUME NEW keep \in BOOLEAN, Revoke(s, keep)
      PROVE  OwnerInvariant'
  <2>1. /\ Apart /\ UNCHANGED <<phase, source>>
        /\ held' \in [Sessions -> BOOLEAN] /\ cancelled' \in [Sessions -> BOOLEAN]
        /\ \A r \in Sessions : cancelled[r] => cancelled'[r]
    BY <1>3 DEF Revoke, Apart, storeVars, OwnerInvariant, OwnerTypes
  <2>2. CASE Closed(s)
    <3>1. inbox' = inbox
      BY <1>3, <2>2 DEF Revoke, Ending, OwnerInvariant, OwnerTypes
    <3> QED
      BY <2>1, <3>1, FlagStep
  <2>3. CASE ~Closed(s)
    <3>1. inbox' = [inbox EXCEPT ![s] = Append(@, Close)]
      BY <1>3, <2>3 DEF Revoke, Ending
    <3> QED
      BY <2>1, <3>1, IdleCommand, QueueStep
  <2> QED BY <2>2, <2>3
<1>4. CASE TakeReady(s)
  BY <1>4, ChannelStep DEF TakeReady, storeVars
<1>5. ASSUME NEW previous \in Sessions \cup {None}, Begin(s, previous)
      PROVE  OwnerInvariant'
  BY <1>5, BeginStep
<1> QED
  BY <1>1, <1>2, <1>3, <1>4, <1>5
  DEF InterfaceStep, CommandKinds, Decisions, Present, Imports

-----------------------------------------------------------------------------
(* Steps of the thread. *)

\* The head and the tail of a queue that is not empty.
LEMMA QueueHead ==
  ASSUME NEW S, NEW q \in Seq(S), q # <<>>
  PROVE  /\ Tail(q) \in Seq(S) /\ Len(Tail(q)) = Len(q) - 1
         /\ Len(q) \in Nat \ {0}
         /\ Head(q) = q[1] /\ q[1] \in S
         /\ \A i \in 1..Len(Tail(q)) : i + 1 \in 1..Len(q) /\ Tail(q)[i] = q[i + 1]
OBVIOUS

\* A command, or a thumbnail, is done, and nothing was published.
LEMMA RestStep ==
  ASSUME OwnerInvariant, NEW s \in Sessions, phase[s] = "serving",
         Rest(s),
         UNCHANGED <<phase, held, cancelled, inbox, backlog, source, library,
                     copies>>,
         DOMAIN pending' = Sessions,
         \A r \in Sessions : r # s => pending'[r] = pending[r],
         pending'[s] # None =>
           /\ pending'[s] \in [id : 1..Len(source), duplicate : BOOLEAN]
           /\ ~pending'[s].duplicate =>
                \A i \in Present : source[i] # source[pending'[s].id],
         tally' \in [Sessions -> [total : Nat, completed : Nat, failed : Nat]],
         \A r \in Sessions : r # s => tally'[r] = tally[r],
         ~cancelled[s] =>
           tally'[s].total =
             tally'[s].completed + tally'[s].failed + Len(backlog[s])
  PROVE  OwnerInvariant'
<1> USE DEF OwnerInvariant
<1>0. /\ hand' = [hand EXCEPT ![s] = Idle] /\ Idle.kind = "Idle"
      /\ Idle \in Commands(CommandKinds \cup {"Regenerate", "Idle"})
      /\ Holders' = Holders /\ Present' = Present
  BY IdleCommand DEF Rest, Holders, Present
<1>1. OwnerTypes'
  BY <1>0 DEF OwnerTypes
<1>2. OneHolder' /\ NoSilentDuplicate'
  BY <1>0 DEF OneHolder, NoSilentDuplicate
<1>3. AllNumbered'
  BY <1>0 DEF AllNumbered, Numbered, OwnerTypes
<1>4. OnlyHolderWorks'
  BY <1>0 DEF OnlyHolderWorks, OwnerTypes, Holders
<1>5. BacklogPresent'
  BY <1>0 DEF BacklogPresent, OwnerTypes, Holders
<1>6. PendingFresh'
  <2> SUFFICES ASSUME NEW r \in Sessions, pending'[r] # None, ~pending'[r].duplicate,
                      NEW i \in Present
               PROVE  source[i] # source[pending'[r].id]
    BY <1>0 DEF PendingFresh
  <2>1. CASE r = s
    BY <2>1
  <2>2. CASE r # s
    <3>1. pending'[r] = pending[r]
      BY <2>2
    <3>2. PendingFresh
      OBVIOUS
    <3> QED
      BY <3>1, <3>2 DEF PendingFresh
  <2> QED BY <2>1, <2>2
<1>7. MaintenanceAccounted'
  <2> SUFFICES ASSUME NEW r \in Sessions, phase[r] = "serving", ~cancelled[r]
               PROVE  (tally[r].total = tally[r].completed + tally[r].failed
                         + Len(backlog[r]) + (IF Working(r, "Regenerate") THEN 1 ELSE 0))'
    BY DEF MaintenanceAccounted
  <2>1. r = s
    BY DEF OneHolder, Holders
  <2>2. ~(Working(s, "Regenerate"))'
    BY <1>0 DEF Working, OwnerTypes
  <2>3. tally'[s].completed \in Nat /\ tally'[s].failed \in Nat /\ Len(backlog[s]) \in Nat
    BY DEF OwnerTypes
  <2> QED
    BY <2>1, <2>2, <2>3
<1> QED
  BY <1>1, <1>2, <1>3, <1>4, <1>5, <1>6, <1>7

\* Of a session that serves and has no thumbnail in hand the tally is even.
LEMMA Even ==
  ASSUME OwnerInvariant, NEW s \in Sessions, phase[s] = "serving", ~cancelled[s]
  PROVE  /\ tally[s] \in [total : Nat, completed : Nat, failed : Nat]
         /\ Len(backlog[s]) \in Nat
         /\ hand[s].kind # "Regenerate" =>
              tally[s].total = tally[s].completed + tally[s].failed + Len(backlog[s])
         /\ hand[s].kind = "Regenerate" =>
              tally[s].total = tally[s].completed + tally[s].failed + Len(backlog[s]) + 1
<1>1. /\ tally[s] \in [total : Nat, completed : Nat, failed : Nat]
      /\ Len(backlog[s]) \in Nat
  BY DEF OwnerInvariant, OwnerTypes
<1> QED
  BY <1>1 DEF OwnerInvariant, MaintenanceAccounted, Working

\* The answer to a command that publishes nothing keeps it.
LEMMA AnswerStep ==
  ASSUME OwnerInvariant, NEW s \in Sessions,
         FinishList(s) \/ FinishOpen(s) \/ FinishPrepare(s) \/ DeclineCommit(s)
  PROVE  OwnerInvariant'
<1>1. /\ phase[s] = "serving" /\ Rest(s)
      /\ hand[s].kind # "Regenerate"
      /\ UNCHANGED <<phase, held, cancelled, inbox, backlog, tally, source, library,
                     copies>>
  BY DEF FinishList, FinishOpen, FinishPrepare, DeclineCommit, Working, storeVars
<1>2. /\ tally' \in [Sessions -> [total : Nat, completed : Nat, failed : Nat]]
      /\ ~cancelled[s] =>
           tally'[s].total = tally'[s].completed + tally'[s].failed + Len(backlog[s])
  BY <1>1, Even DEF OwnerInvariant, OwnerTypes
<1>3. CASE FinishList(s) \/ FinishOpen(s) \/ DeclineCommit(s)
  <2>1. pending' = pending \/ pending' = [pending EXCEPT ![s] = None]
    BY <1>3 DEF FinishList, FinishOpen, DeclineCommit, Consume
  <2> QED
    BY <1>1, <1>2, <2>1, RestStep
    DEF OwnerInvariant, OwnerTypes, OnlyHolderWorks, PendingFresh
<1>4. CASE FinishPrepare(s)
  <2> DEFINE id == hand[s].subject
             new == [id |-> id, duplicate |-> Duplicate(source[id])]
  <2>1. id \in 1..Len(source)
    BY <1>4 DEF FinishPrepare, Working, OwnerInvariant, AllNumbered, Numbered
  <2>2. new \in [id : 1..Len(source), duplicate : BOOLEAN]
    BY <2>1 DEF Duplicate
  <2>3. ~new.duplicate => \A i \in Present : source[i] # source[new.id]
    BY DEF Duplicate
  <2>4. pending' = pending \/ pending' = [pending EXCEPT ![s] = new]
    BY <1>4 DEF FinishPrepare
  <2> HIDE DEF new, id
  <2>5. DOMAIN pending' = Sessions /\ \A r \in Sessions : r # s => pending'[r] = pending[r]
    BY <2>4 DEF OwnerInvariant, OwnerTypes
  <2>6. pending'[s] # None =>
          /\ pending'[s] \in [id : 1..Len(source), duplicate : BOOLEAN]
          /\ ~pending'[s].duplicate =>
               \A i \in Present : source[i] # source[pending'[s].id]
    <3>1. CASE pending' = pending
      BY <3>1 DEF OwnerInvariant, OnlyHolderWorks, PendingFresh
    <3>2. CASE pending' = [pending EXCEPT ![s] = new]
      <4>1. pending'[s] = new
        BY <3>2 DEF OwnerInvariant, OwnerTypes
      <4> QED
        BY <2>2, <2>3, <4>1
    <3> QED BY <2>4, <3>1, <3>2
  <2>7. \A r \in Sessions : r # s => tally'[r] = tally[r]
    BY <1>1
  <2> QED
    BY <1>1, <1>2, <2>5, <2>6, <2>7, RestStep
<1> QED
  BY <1>3, <1>4

\* A thumbnail that fails keeps it.
LEMMA FailureStep ==
  ASSUME OwnerInvariant, NEW s \in Sessions, RegenerationFails(s)
  PROVE  OwnerInvariant'
<1>1. /\ phase[s] = "serving" /\ hand[s].kind = "Regenerate" /\ Rest(s)
      /\ UNCHANGED <<phase, held, cancelled, inbox, backlog, pending, source,
                     library, copies>>
      /\ tally' = FailureCounted(s)
  BY DEF RegenerationFails, Working, storeVars
<1>2. /\ tally' \in [Sessions -> [total : Nat, completed : Nat, failed : Nat]]
      /\ \A r \in Sessions : r # s => tally'[r] = tally[r]
  <2>1. tally \in [Sessions -> [total : Nat, completed : Nat, failed : Nat]]
    BY DEF OwnerInvariant, OwnerTypes
  <2>2. CASE cancelled[s]
    BY <1>1, <2>1, <2>2 DEF FailureCounted
  <2>3. CASE ~cancelled[s]
    <3>1. [tally[s] EXCEPT !.failed = @ + 1] \in [total : Nat, completed : Nat, failed : Nat]
      BY <2>1
    <3> QED
      BY <1>1, <2>1, <2>3, <3>1 DEF FailureCounted
  <2> QED BY <2>2, <2>3
<1>3. ASSUME ~cancelled[s]
      PROVE  tally'[s].total = tally'[s].completed + tally'[s].failed + Len(backlog[s])
  <2>1. tally'[s] = [tally[s] EXCEPT !.failed = @ + 1]
    BY <1>1, <1>3 DEF FailureCounted, OwnerInvariant, OwnerTypes
  <2> QED
    BY <1>1, <1>3, <2>1, Even
<1> QED
  BY <1>1, <1>2, <1>3, RestStep
  DEF OwnerInvariant, OwnerTypes, OnlyHolderWorks, PendingFresh

\* The thread takes a command from its queue.
LEMMA ReceiveStep ==
  ASSUME OwnerInvariant, NEW s \in Sessions,
         ReceiveClose(s) \/ ReceiveCancelled(s) \/ Receive(s)
  PROVE  OwnerInvariant'
<1> USE DEF OwnerInvariant
<1>1. /\ phase[s] = "serving" /\ hand[s].kind = "Idle" /\ inbox[s] # <<>>
      /\ inbox' = [inbox EXCEPT ![s] = Tail(@)]
      /\ inbox[s] \in Seq(Commands(CommandKinds))
      /\ UNCHANGED <<held, cancelled, backlog, tally, source, library, copies>>
  BY IdleCommand
  DEF ReceiveClose, ReceiveCancelled, Receive, AtLoop, storeVars, OwnerTypes
<1>2. /\ Tail(inbox[s]) \in Seq(Commands(CommandKinds))
      /\ inbox[s][1] = Head(inbox[s]) /\ 1 \in 1..Len(inbox[s])
      /\ Head(inbox[s]) \in Commands(CommandKinds)
      /\ \A i \in 1..Len(Tail(inbox[s])) :
           i + 1 \in 1..Len(inbox[s]) /\ Tail(inbox[s])[i] = inbox[s][i + 1]
  BY <1>1, QueueHead
<1>3. /\ hand' = hand \/ hand' = [hand EXCEPT ![s] = Head(inbox[s])]
      /\ phase' = phase \/ (phase' = [phase EXCEPT ![s] = "closing"] /\ hand' = hand)
      /\ pending' = pending \/ pending' = [pending EXCEPT ![s] = None]
  BY DEF ReceiveClose, ReceiveCancelled, Receive
<1>4. Holders' = Holders /\ Present' = Present
  BY <1>1, <1>3 DEF Holders, Present, OwnerTypes
<1>5. Head(inbox[s]).kind \in CommandKinds
  BY <1>2 DEF Commands
<1>6. /\ hand' \in [Sessions -> Commands(CommandKinds \cup {"Regenerate", "Idle"})]
      /\ \A r \in Sessions : r # s => hand'[r] = hand[r]
      /\ hand'[s].kind # "Regenerate"
      /\ hand'[s] = hand[s] \/ hand'[s] = Head(inbox[s])
  <2>1. Head(inbox[s]) \in Commands(CommandKinds \cup {"Regenerate", "Idle"})
    BY <1>2 DEF Commands
  <2> QED
    BY <1>1, <1>3, <1>5, <2>1 DEF OwnerTypes, CommandKinds
<1>7. OwnerTypes'
  <2>1. phase' \in [Sessions -> Phases] /\ DOMAIN pending' = Sessions
    BY <1>3 DEF OwnerTypes, Phases
  <2>2. inbox' \in [Sessions -> Seq(Commands(CommandKinds))]
    BY <1>1, <1>2 DEF OwnerTypes
  <2> QED
    BY <1>1, <1>4, <1>6, <2>1, <2>2 DEF OwnerTypes
<1>8. OneHolder' /\ NoSilentDuplicate'
  BY <1>1, <1>4 DEF OneHolder, NoSilentDuplicate
<1>9. AllNumbered'
  <2>1. ASSUME NEW r \in Sessions PROVE Numbered(hand'[r])
    BY <1>2, <1>6 DEF AllNumbered, Numbered
  <2>2. ASSUME NEW r \in Sessions, NEW i \in 1..Len(inbox'[r])
        PROVE  Numbered(inbox'[r][i])
    <3>1. CASE r # s
      <4>1. inbox'[r] = inbox[r]
        BY <1>1, <3>1 DEF OwnerTypes
      <4> QED
        BY <2>2, <4>1 DEF AllNumbered
    <3>2. CASE r = s
      <4>1. inbox'[r] = Tail(inbox[s])
        BY <1>1, <3>2 DEF OwnerTypes
      <4>2. i + 1 \in 1..Len(inbox[s]) /\ inbox'[r][i] = inbox[s][i + 1]
        BY <1>2, <2>2, <4>1
      <4> QED
        BY <4>2 DEF AllNumbered
    <3> QED BY <3>1, <3>2
  <2> QED
    BY <1>1, <2>1, <2>2 DEF AllNumbered, Numbered
<1>10. OnlyHolderWorks'
  <2> SUFFICES ASSUME NEW r \in Sessions
               PROVE  (/\ hand[r].kind # "Idle" => phase[r] = "serving"
                       /\ pending[r] # None =>
                            /\ r \in Holders
                            /\ pending[r] \in [id : 1..Len(source), duplicate : BOOLEAN]
                       /\ phase[r] \in {"unborn", "opening"} =>
                            backlog[r] = <<>> /\ tally[r] = [total |-> 0, completed |-> 0, failed |-> 0])'
    BY DEF OnlyHolderWorks
  <2>1. pending'[r] # None => pending'[r] = pending[r]
    BY <1>3 DEF OwnerTypes
  <2>2. phase'[r] = phase[r] \/ (r = s /\ phase'[r] = "closing" /\ hand' = hand)
    BY <1>3 DEF OwnerTypes
  <2>3. hand'[r].kind # "Idle" => phase'[r] = "serving"
    BY <1>1, <1>3, <1>6, <2>2 DEF OnlyHolderWorks, OwnerTypes
  <2> QED
    BY <1>1, <1>4, <2>1, <2>2, <2>3 DEF OnlyHolderWorks
<1>11. BacklogPresent'
  <2>1. ASSUME NEW r \in Sessions, hand'[r].kind = "Regenerate"
        PROVE  hand'[r] = hand[r]
    BY <1>6, <2>1
  <2>2. ASSUME NEW r \in Holders
        PROVE  /\ \A i \in 1..Len(backlog[r]) : backlog[r][i] \in Present
               /\ hand'[r].kind = "Regenerate" => hand'[r].subject \in Present
    BY <2>1, <2>2 DEF BacklogPresent, Holders
  <2> QED
    BY <1>1, <1>4, <2>2 DEF BacklogPresent
<1>12. PendingFresh'
  <2>1. \A r \in Sessions : pending'[r] # None => pending'[r] = pending[r]
    BY <1>3 DEF OwnerTypes
  <2> QED
    BY <1>1, <1>4, <2>1 DEF PendingFresh
<1>13. MaintenanceAccounted'
  <2> SUFFICES ASSUME NEW r \in Sessions, phase'[r] = "serving", ~cancelled[r]
               PROVE  (tally[r].total = tally[r].completed + tally[r].failed
                         + Len(backlog[r]) + (IF Working(r, "Regenerate") THEN 1 ELSE 0))'
    BY <1>1 DEF MaintenanceAccounted
  <2>1. phase[r] = "serving"
    BY <1>3 DEF OwnerTypes
  <2>2. r = s
    BY <1>1, <2>1 DEF OneHolder, Holders
  <2>3. /\ tally[s] \in [total : Nat, completed : Nat, failed : Nat]
        /\ Len(backlog[s]) \in Nat
        /\ tally[s].total = tally[s].completed + tally[s].failed + Len(backlog[s])
    BY <1>1, <2>2, Even
  <2>4. ~Working(s, "Regenerate")'
    BY <1>6 DEF Working
  <2> QED
    BY <1>1, <2>2, <2>3, <2>4
<1> QED
  BY <1>7, <1>8, <1>9, <1>10, <1>11, <1>12, <1>13

\* The next thumbnail is taken up.
LEMMA StartStep ==
  ASSUME OwnerInvariant, NEW s \in Sessions, StartRegeneration(s)
  PROVE  OwnerInvariant'
<1> USE DEF OwnerInvariant
<1> DEFINE work == Regeneration(Head(backlog[s]))
<1>1. /\ phase[s] = "serving" /\ hand[s].kind = "Idle" /\ backlog[s] # <<>>
      /\ hand' = [hand EXCEPT ![s] = work]
      /\ backlog' = [backlog EXCEPT ![s] = Tail(@)]
      /\ backlog[s] \in Seq(Imports)
      /\ UNCHANGED <<phase, held, cancelled, inbox, pending, tally, source, library,
                     copies>>
  BY IdleCommand DEF StartRegeneration, AtLoop, storeVars, OwnerTypes
<1>2. /\ Tail(backlog[s]) \in Seq(Imports) /\ Len(Tail(backlog[s])) = Len(backlog[s]) - 1
      /\ backlog[s][1] = Head(backlog[s]) /\ Len(backlog[s]) \in Nat \ {0}
      /\ Head(backlog[s]) \in Imports
      /\ \A i \in 1..Len(Tail(backlog[s])) :
           i + 1 \in 1..Len(backlog[s]) /\ Tail(backlog[s])[i] = backlog[s][i + 1]
  BY <1>1, QueueHead
<1>3. /\ work \in Commands(CommandKinds \cup {"Regenerate", "Idle"})
      /\ work.kind = "Regenerate" /\ work.subject = Head(backlog[s])
  BY <1>2, Bounds DEF Regeneration, Command, Commands, Decisions, Imports
<1> HIDE DEF work
<1>4. /\ hand'[s] = work /\ backlog'[s] = Tail(backlog[s])
      /\ \A r \in Sessions : r # s => hand'[r] = hand[r] /\ backlog'[r] = backlog[r]
  BY <1>1 DEF OwnerTypes
<1>5. Holders' = Holders /\ Present' = Present
  BY <1>1 DEF Holders, Present
<1>6. OwnerTypes'
  BY <1>1, <1>2, <1>3, <1>5 DEF OwnerTypes
<1>7. OneHolder' /\ NoSilentDuplicate' /\ PendingFresh'
  BY <1>1, <1>5 DEF OneHolder, NoSilentDuplicate, PendingFresh
<1>8. AllNumbered'
  BY <1>1, <1>3, <1>4 DEF AllNumbered, Numbered
<1>9. OnlyHolderWorks'
  BY <1>1, <1>3, <1>4, <1>5 DEF OnlyHolderWorks
<1>10. BacklogPresent'
  <2> SUFFICES ASSUME NEW r \in Holders
               PROVE  (/\ \A i \in 1..Len(backlog[r]) : backlog[r][i] \in Present
                       /\ hand[r].kind = "Regenerate" => hand[r].subject \in Present)'
    BY <1>5 DEF BacklogPresent
  <2>1. r \in Sessions /\ s \in Holders
    BY <1>1 DEF Holders
  <2>2. CASE r # s
    BY <1>4, <1>5, <2>1, <2>2 DEF BacklogPresent
  <2>3. CASE r = s
    <3>1. \A i \in 1..Len(backlog[s]) : backlog[s][i] \in Present
      BY <2>1 DEF BacklogPresent
    <3>2. \A i \in 1..Len(backlog'[s]) : backlog'[s][i] \in Present
      BY <1>2, <1>4, <3>1
    <3>3. 1 \in 1..Len(backlog[s])
      BY <1>2
    <3>4. hand'[s].subject \in Present
      BY <1>2, <1>3, <1>4, <3>1, <3>3
    <3> QED
      BY <1>5, <2>3, <3>2, <3>4
  <2> QED BY <2>2, <2>3
<1>11. MaintenanceAccounted'
  <2> SUFFICES ASSUME NEW r \in Sessions, phase[r] = "serving", ~cancelled[r]
               PROVE  (tally[r].total = tally[r].completed + tally[r].failed
                         + Len(backlog[r]) + (IF Working(r, "Regenerate") THEN 1 ELSE 0))'
    BY <1>1 DEF MaintenanceAccounted
  <2>1. r = s
    BY <1>1 DEF OneHolder, Holders
  <2>2. /\ tally[s] \in [total : Nat, completed : Nat, failed : Nat]
        /\ tally[s].total = tally[s].completed + tally[s].failed + Len(backlog[s])
    BY <1>1, <2>1, Even
  <2>3. Working(s, "Regenerate")'
    BY <1>1, <1>3, <1>4 DEF Working
  <2>4. Len(backlog'[s]) = Len(backlog[s]) - 1 /\ tally' = tally
    BY <1>1, <1>2, <1>4
  <2>5. tally[s].completed \in Nat /\ tally[s].failed \in Nat
    BY <2>2
  <2> QED
    BY <1>2, <2>1, <2>2, <2>3, <2>4, <2>5
<1> QED
  BY <1>6, <1>7, <1>8, <1>9, <1>10, <1>11

\* A thumbnail is made.
LEMMA RegeneratedStep ==
  ASSUME OwnerInvariant, NEW s \in Sessions, Regenerated(s)
  PROVE  OwnerInvariant'
<1> USE DEF OwnerInvariant
<1> DEFINE i == hand[s].subject
<1>1. /\ phase[s] = "serving" /\ hand[s].kind = "Regenerate"
      /\ library' = [library EXCEPT ![i] = "whole"]
      /\ tally' = [tally EXCEPT ![s].completed = @ + 1]
      /\ hand' = [hand EXCEPT ![s] = Idle]
      /\ UNCHANGED <<phase, held, cancelled, inbox, pending, backlog, source, copies>>
  BY DEF Regenerated, Working, Rest
<1>2. i \in Present /\ i \in Imports
  BY <1>1 DEF BacklogPresent, Holders, Present
<1> HIDE DEF i
<1>3. Present' = Present /\ Holders' = Holders
  BY <1>1, <1>2 DEF Present, Holders, OwnerTypes
<1>4. /\ hand'[s] = Idle /\ Idle.kind = "Idle"
      /\ \A r \in Sessions : r # s => hand'[r] = hand[r] /\ tally'[r] = tally[r]
  BY <1>1, IdleCommand DEF OwnerTypes
<1>5. /\ tally[s] \in [total : Nat, completed : Nat, failed : Nat]
      /\ tally'[s].total = tally[s].total /\ tally'[s].failed = tally[s].failed
      /\ tally'[s].completed = tally[s].completed + 1
      /\ tally'[s] \in [total : Nat, completed : Nat, failed : Nat]
  <2>1. /\ tally[s] \in [total : Nat, completed : Nat, failed : Nat]
        /\ tally'[s] = [tally[s] EXCEPT !.completed = @ + 1]
    BY <1>1 DEF OwnerTypes
  <2> QED
    BY <2>1
<1>6. OwnerTypes'
  <2>1. tally' \in [Sessions -> [total : Nat, completed : Nat, failed : Nat]]
    BY <1>1, <1>5 DEF OwnerTypes
  <2>2. library' \in [Imports -> ImageStates]
    BY <1>1 DEF OwnerTypes, ImageStates
  <2> QED
    BY <1>1, <1>3, <2>1, <2>2, IdleCommand DEF OwnerTypes
<1>7. OneHolder' /\ NoSilentDuplicate' /\ PendingFresh'
  BY <1>1, <1>3 DEF OneHolder, NoSilentDuplicate, PendingFresh
<1>8. AllNumbered'
  BY <1>1, <1>4 DEF AllNumbered, Numbered
<1>9. OnlyHolderWorks'
  BY <1>1, <1>3, <1>4 DEF OnlyHolderWorks
<1>10. BacklogPresent'
  BY <1>1, <1>3, <1>4 DEF BacklogPresent, Holders
<1>11. MaintenanceAccounted'
  <2> SUFFICES ASSUME NEW r \in Sessions, phase[r] = "serving", ~cancelled[r]
               PROVE  (tally[r].total = tally[r].completed + tally[r].failed
                         + Len(backlog[r]) + (IF Working(r, "Regenerate") THEN 1 ELSE 0))'
    BY <1>1 DEF MaintenanceAccounted
  <2>1. r = s
    BY <1>1 DEF OneHolder, Holders
  <2>2. /\ tally[s].total = tally[s].completed + tally[s].failed + Len(backlog[s]) + 1
        /\ Len(backlog[s]) \in Nat
    BY <1>1, <2>1, Even
  <2>3. ~Working(s, "Regenerate")' /\ backlog' = backlog
    BY <1>1, <1>4 DEF Working
  <2>4. tally[s].completed \in Nat /\ tally[s].failed \in Nat
    BY <1>5
  <2>5. tally'[s].total = tally'[s].completed + tally'[s].failed + Len(backlog'[s])
    <3>1. tally'[s].total = tally[s].completed + tally[s].failed + Len(backlog[s]) + 1
      BY <1>5, <2>2
    <3>2. \A c, f, l \in Nat : c + f + l + 1 = (c + 1) + f + l
      OBVIOUS
    <3> QED
      BY <1>5, <2>2, <2>3, <2>4, <3>1, <3>2
  <2>6. tally'[s].completed \in Nat /\ tally'[s].failed \in Nat /\ Len(backlog'[s]) \in Nat
    BY <1>5, <2>2, <2>3
  <2> QED
    BY <2>1, <2>3, <2>5, <2>6
<1> QED
  BY <1>6, <1>7, <1>8, <1>9, <1>10, <1>11

\* An import is published.
LEMMA CommitStep ==
  ASSUME OwnerInvariant, NEW s \in Sessions, Commit(s)
  PROVE  OwnerInvariant'
<1> USE DEF OwnerInvariant
<1> DEFINE id == hand[s].subject
<1>0. PICK made \in {"whole", "bare"} :
        /\ library' = [library EXCEPT ![id] = made]
        /\ \/ backlog' = backlog /\ tally' = tally
           \/ /\ backlog' = [backlog EXCEPT ![s] = Append(@, id)]
              /\ tally' = [tally EXCEPT ![s].total = @ + 1]
        /\ copies' = IF hand[s].decision = None THEN copies ELSE copies \cup {id}
  BY DEF Commit
<1>1. /\ phase[s] = "serving" /\ hand[s].kind = "CommitImport"
      /\ pending[s] # None /\ pending[s].id = id
      /\ pending[s].duplicate => hand[s].decision = "ImportAnotherCopy"
      /\ pending' = [pending EXCEPT ![s] = None]
      /\ hand' = [hand EXCEPT ![s] = Idle]
      /\ UNCHANGED <<phase, held, cancelled, inbox, source>>
  BY DEF Commit, Working, Rest, Consume, Accepted, IsPending
<1>2. /\ id \in 1..Len(source) /\ id \in Imports
      /\ pending[s].duplicate \in BOOLEAN
  <2>1. Len(source) \in Nat /\ Len(source) <= MaxImports
    BY DEF OwnerTypes
  <2>2. pending[s] \in [id : 1..Len(source), duplicate : BOOLEAN]
    BY <1>1 DEF OnlyHolderWorks
  <2> QED
    BY <1>1, <2>1, <2>2, Bounds DEF Imports
<1> HIDE DEF id
<1>4. Holders' = Holders /\ Present' = Present \cup {id}
  BY <1>0, <1>1, <1>2 DEF Holders, Present, OwnerTypes
<1>5. /\ hand'[s] = Idle /\ Idle.kind = "Idle" /\ pending'[s] = None
      /\ \A r \in Sessions : r # s => /\ hand'[r] = hand[r] /\ pending'[r] = pending[r]
                                       /\ tally'[r] = tally[r] /\ backlog'[r] = backlog[r]
  BY <1>0, <1>1, IdleCommand DEF OwnerTypes
<1>6. \A r \in Sessions : pending'[r] = None
  <2> SUFFICES ASSUME NEW r \in Sessions, r # s, pending[r] # None PROVE FALSE
    BY <1>5
  <2>1. r \in Holders /\ s \in Holders
    BY <1>1 DEF OnlyHolderWorks, Holders
  <2> QED
    BY <2>1 DEF OneHolder
<1>7. /\ backlog'[s] \in Seq(Imports)
      /\ tally'[s] \in [total : Nat, completed : Nat, failed : Nat]
      /\ \A i \in 1..Len(backlog'[s]) :
           backlog'[s][i] = id \/ (i \in 1..Len(backlog[s]) /\ backlog'[s][i] = backlog[s][i])
      /\ \/ Len(backlog'[s]) = Len(backlog[s]) /\ tally'[s] = tally[s]
         \/ /\ Len(backlog'[s]) = Len(backlog[s]) + 1
            /\ tally'[s] = [tally[s] EXCEPT !.total = @ + 1]
  <2>1. /\ backlog[s] \in Seq(Imports)
        /\ tally[s] \in [total : Nat, completed : Nat, failed : Nat]
    BY DEF OwnerTypes
  <2>2. CASE backlog' = backlog /\ tally' = tally
    BY <2>1, <2>2
  <2>3. CASE /\ backlog' = [backlog EXCEPT ![s] = Append(@, id)]
             /\ tally' = [tally EXCEPT ![s].total = @ + 1]
    <3>1. /\ backlog'[s] = Append(backlog[s], id)
          /\ tally'[s] = [tally[s] EXCEPT !.total = @ + 1]
      BY <2>3 DEF OwnerTypes
    <3>2. \A i \in 1..Len(backlog'[s]) : i \in 1..Len(backlog[s]) \/ i = Len(backlog[s]) + 1
      BY <1>2, <2>1, <3>1
    <3> QED
      BY <1>2, <2>1, <3>1, <3>2
  <2> QED BY <1>0, <2>2, <2>3
<1>8. OwnerTypes'
  <2>1. \A r \in Sessions : /\ backlog'[r] \in Seq(Imports)
                            /\ tally'[r] \in [total : Nat, completed : Nat, failed : Nat]
    BY <1>5, <1>7 DEF OwnerTypes
  <2>2. backlog' \in [Sessions -> Seq(Imports)]
    BY <1>0, <2>1 DEF OwnerTypes
  <2>3. tally' \in [Sessions -> [total : Nat, completed : Nat, failed : Nat]]
    BY <1>0, <2>1 DEF OwnerTypes
  <2>4. library' \in [Imports -> ImageStates]
    BY <1>0 DEF OwnerTypes, ImageStates
  <2>5. \A i \in Present' : i <= Len(source')
    <3>1. Len(source) \in Nat
      BY DEF OwnerTypes
    <3> QED
      BY <1>1, <1>2, <1>4, <3>1 DEF OwnerTypes
  <2> QED
    BY <1>1, <2>2, <2>3, <2>4, <2>5, IdleCommand DEF OwnerTypes
<1>9. OneHolder'
  BY <1>4 DEF OneHolder
<1>10. AllNumbered'
  BY <1>1, <1>5 DEF AllNumbered, Numbered
<1>11. OnlyHolderWorks'
  BY <1>1, <1>5, <1>6 DEF OnlyHolderWorks
<1>12. BacklogPresent'
  <2> SUFFICES ASSUME NEW r \in Holders
               PROVE  (/\ \A i \in 1..Len(backlog[r]) : backlog[r][i] \in Present
                       /\ hand[r].kind = "Regenerate" => hand[r].subject \in Present)'
    BY <1>4 DEF BacklogPresent
  <2>1. s \in Holders /\ r \in Sessions
    BY <1>1 DEF Holders
  <2>2. r = s
    BY <2>1 DEF OneHolder
  <2> QED
    BY <1>4, <1>5, <1>7, <2>1, <2>2 DEF BacklogPresent
<1>13. PendingFresh'
  BY <1>6 DEF PendingFresh
<1>14. NoSilentDuplicate'
  <2>1. \A i \in Present' \ copies' :
          i \in Present \ copies \/ (i = id /\ hand[s].decision = None)
    BY <1>0, <1>4
  <2>2. hand[s].decision = None => \A i \in Present : source[i] # source[id]
    <3> SUFFICES ASSUME hand[s].decision = None
                 PROVE  \A i \in Present : source[i] # source[id]
      OBVIOUS
    <3>1. ~pending[s].duplicate
      BY <1>1, Bounds
    <3> QED
      BY <1>1, <3>1 DEF PendingFresh
  <2> QED
    BY <1>1, <2>1, <2>2 DEF NoSilentDuplicate
<1>15. MaintenanceAccounted'
  <2> SUFFICES ASSUME NEW r \in Sessions, phase[r] = "serving", ~cancelled[r]
               PROVE  (tally[r].total = tally[r].completed + tally[r].failed
                         + Len(backlog[r]) + (IF Working(r, "Regenerate") THEN 1 ELSE 0))'
    BY <1>1 DEF MaintenanceAccounted
  <2>1. r = s
    BY <1>1 DEF OneHolder, Holders
  <2>2. /\ tally[s] \in [total : Nat, completed : Nat, failed : Nat]
        /\ tally[s].total = tally[s].completed + tally[s].failed + Len(backlog[s])
        /\ Len(backlog[s]) \in Nat
    BY <1>1, <2>1, Even
  <2>3. ~Working(s, "Regenerate")'
    BY <1>5 DEF Working
  <2>4. tally'[s].total = tally'[s].completed + tally'[s].failed + Len(backlog'[s])
    <3>1. CASE Len(backlog'[s]) = Len(backlog[s]) /\ tally'[s] = tally[s]
      BY <2>2, <3>1
    <3>2. CASE /\ Len(backlog'[s]) = Len(backlog[s]) + 1
               /\ tally'[s] = [tally[s] EXCEPT !.total = @ + 1]
      <4>1. /\ tally'[s].total = tally[s].total + 1
            /\ tally'[s].completed = tally[s].completed
            /\ tally'[s].failed = tally[s].failed
            /\ tally[s].completed \in Nat /\ tally[s].failed \in Nat
        BY <2>2, <3>2
      <4> QED
        BY <2>2, <3>2, <4>1
    <3> QED BY <1>7, <3>1, <3>2
  <2> QED
    BY <2>1, <2>3, <2>4, <1>7
<1> QED
  BY <1>8, <1>9, <1>10, <1>11, <1>12, <1>13, <1>14, <1>15

\* The vault is opened, or cannot be.
LEMMA OpenStep ==
  ASSUME OwnerInvariant, NEW s \in Sessions, Open(s)
  PROVE  OwnerInvariant'
<1> USE DEF OwnerInvariant
<1>1. /\ phase[s] = "opening" /\ Holders = {}
      /\ UNCHANGED <<held, cancelled, inbox, hand, pending, source, library, copies>>
      /\ \/ /\ phase' = [phase EXCEPT ![s] = "serving"]
            /\ \E queue \in Orders(Bare) : backlog' = [backlog EXCEPT ![s] = queue]
            /\ tally' = [tally EXCEPT ![s].total = Cardinality(Bare)]
         \/ phase' = [phase EXCEPT ![s] = "closing"] /\ UNCHANGED <<backlog, tally>>
  BY DEF Open, storeVars
<1>2. /\ \A r \in Sessions : pending[r] = None /\ hand[r].kind = "Idle"
      /\ backlog[s] = <<>> /\ tally[s] = [total |-> 0, completed |-> 0, failed |-> 0]
  BY <1>1 DEF OnlyHolderWorks, Holders
<1>3. Holders' = {s} /\ Present' = Present /\ phase'[s] \in {"serving", "closing"}
      /\ phase' \in [Sessions -> Phases]
      /\ \A r \in Sessions : r # s => phase'[r] = phase[r]
  <2>1. /\ phase'[s] \in {"serving", "closing"}
        /\ phase' \in [Sessions -> Phases]
        /\ \A r \in Sessions : r # s => phase'[r] = phase[r]
    BY <1>1 DEF OwnerTypes, Phases
  <2>2. Holders' = {s}
    BY <1>1, <2>1 DEF Holders
  <2> QED
    BY <1>1, <2>1, <2>2 DEF Present
<1>4. /\ backlog'[s] \in Seq(Imports)
      /\ tally'[s] \in [total : Nat, completed : Nat, failed : Nat]
      /\ tally'[s].total = tally'[s].completed + tally'[s].failed + Len(backlog'[s])
      /\ \A i \in 1..Len(backlog'[s]) : backlog'[s][i] \in Present
      /\ DOMAIN backlog' = Sessions /\ DOMAIN tally' = Sessions
      /\ \A r \in Sessions : r # s => backlog'[r] = backlog[r] /\ tally'[r] = tally[r]
  <2>1. CASE /\ \E queue \in Orders(Bare) : backlog' = [backlog EXCEPT ![s] = queue]
             /\ tally' = [tally EXCEPT ![s].total = Cardinality(Bare)]
    <3> DEFINE n == Cardinality(Bare)
    <3>1. n \in Nat
      <4>1. Bare \in SUBSET (1..MaxImports)
        BY DEF Bare, Imports
      <4>2. IsFiniteSet(1..MaxImports)
        BY Bounds, FS_Interval
      <4>3. IsFiniteSet(Bare)
        BY <4>1, <4>2, FS_Subset
      <4> QED
        BY <4>3, FS_CardinalityType
    <3>2. Bare \subseteq Present /\ Bare \subseteq Imports
      BY DEF Bare, Present
    <3> HIDE DEF n
    <3>3. PICK queue \in Orders(Bare) : backlog' = [backlog EXCEPT ![s] = queue]
      BY <2>1
    <3>4. queue \in [1..n -> Bare]
      BY <3>3 DEF Orders, n
    <3>5. queue \in Seq(Imports) /\ Len(queue) = n
      BY <3>1, <3>2, <3>4
    <3>6. /\ backlog'[s] = queue
          /\ tally'[s] = [total |-> n, completed |-> 0, failed |-> 0]
          /\ \A r \in Sessions : r # s => backlog'[r] = backlog[r] /\ tally'[r] = tally[r]
          /\ DOMAIN backlog' = Sessions /\ DOMAIN tally' = Sessions
      <4>1. /\ backlog'[s] = queue /\ DOMAIN backlog' = Sessions
            /\ \A r \in Sessions : r # s => backlog'[r] = backlog[r]
        BY <3>3 DEF OwnerTypes
      <4>2. /\ tally'[s] = [tally[s] EXCEPT !.total = n] /\ DOMAIN tally' = Sessions
            /\ \A r \in Sessions : r # s => tally'[r] = tally[r]
        BY <2>1 DEF OwnerTypes, n
      <4>3. tally'[s] = [total |-> n, completed |-> 0, failed |-> 0]
        BY <1>2, <4>2
      <4> QED
        BY <4>1, <4>2, <4>3
    <3>7. /\ tally'[s] \in [total : Nat, completed : Nat, failed : Nat]
          /\ tally'[s].total = tally'[s].completed + tally'[s].failed + n
      BY <3>1, <3>6
    <3> QED
      BY <3>2, <3>4, <3>5, <3>6, <3>7
  <2>2. CASE UNCHANGED <<backlog, tally>>
    <3>1. backlog'[s] = <<>> /\ Len(<<>>) = 0 /\ <<>> \in Seq(Imports)
      BY <1>2, <2>2
    <3>2. tally'[s] = [total |-> 0, completed |-> 0, failed |-> 0]
      BY <1>2, <2>2
    <3> QED
      BY <2>2, <3>1, <3>2 DEF OwnerTypes
  <2> QED BY <1>1, <2>1, <2>2
<1>5. OwnerTypes'
  <2>1. backlog' \in [Sessions -> Seq(Imports)]
    <3>1. \A r \in Sessions : backlog'[r] \in Seq(Imports)
      BY <1>4 DEF OwnerTypes
    <3>2. backlog' = [r \in Sessions |-> backlog'[r]]
      BY <1>1 DEF OwnerTypes
    <3> QED
      BY <3>1, <3>2
  <2>2. tally' \in [Sessions -> [total : Nat, completed : Nat, failed : Nat]]
    <3>1. \A r \in Sessions : tally'[r] \in [total : Nat, completed : Nat, failed : Nat]
      BY <1>4 DEF OwnerTypes
    <3>2. tally' = [r \in Sessions |-> tally'[r]]
      BY <1>1 DEF OwnerTypes
    <3> QED
      BY <3>1, <3>2
  <2> QED
    BY <1>1, <1>3, <2>1, <2>2 DEF OwnerTypes
<1>6. OneHolder' /\ NoSilentDuplicate' /\ PendingFresh' /\ AllNumbered'
  BY <1>1, <1>3
  DEF OneHolder, NoSilentDuplicate, PendingFresh, AllNumbered, Numbered
<1>7. OnlyHolderWorks' /\ BacklogPresent'
  BY <1>1, <1>2, <1>3, <1>4 DEF OnlyHolderWorks, BacklogPresent
<1>8. MaintenanceAccounted'
  <2> SUFFICES ASSUME NEW r \in Sessions, phase'[r] = "serving"
               PROVE  (tally[r].total = tally[r].completed + tally[r].failed
                         + Len(backlog[r]) + (IF Working(r, "Regenerate") THEN 1 ELSE 0))'
    BY DEF MaintenanceAccounted
  <2>1. r = s
    <3>1. r \in Holders'
      BY DEF Holders
    <3> QED
      BY <1>3, <3>1
  <2>2. ~Working(s, "Regenerate")'
    BY <1>1, <1>2 DEF Working
  <2>3. /\ tally'[s].completed \in Nat /\ tally'[s].failed \in Nat
        /\ Len(backlog'[s]) \in Nat
    BY <1>4
  <2> QED
    BY <1>4, <2>1, <2>2, <2>3
<1> QED
  BY <1>5, <1>6, <1>7, <1>8

\* The thread ends.
LEMMA EndStep ==
  ASSUME OwnerInvariant, NEW s \in Sessions, OpenFails(s) \/ Finish(s)
  PROVE  OwnerInvariant'
<1> USE DEF OwnerInvariant
<1>1. /\ phase[s] \in {"opening", "closing"} /\ phase' = [phase EXCEPT ![s] = "ended"]
      /\ inbox' = [inbox EXCEPT ![s] = <<>>]
      /\ pending' = pending \/ pending' = [pending EXCEPT ![s] = None]
      /\ backlog' = backlog \/ backlog' = [backlog EXCEPT ![s] = <<>>]
      /\ UNCHANGED <<held, cancelled, hand, tally, source, library, copies>>
  BY DEF OpenFails, Finish, Abandon, storeVars
<1>2. /\ hand[s].kind = "Idle" /\ pending'[s] = None
      /\ \A r \in Sessions : pending'[r] # None => r # s /\ pending'[r] = pending[r]
      /\ \A r \in Sessions : r # s => phase'[r] = phase[r] /\ backlog'[r] = backlog[r]
                                      /\ inbox'[r] = inbox[r]
  <2>1. hand[s].kind = "Idle"
    BY <1>1 DEF OnlyHolderWorks
  <2>2. pending'[s] = None
    BY <1>1 DEF OnlyHolderWorks, Holders, OwnerTypes, OpenFails, Finish
  <2> QED
    BY <1>1, <2>1, <2>2 DEF OwnerTypes
<1>3. Holders' = Holders \ {s} /\ Present' = Present /\ s \notin Holders'
  BY <1>1 DEF Holders, Present, OwnerTypes
<1>4. OwnerTypes'
  <2>1. phase' \in [Sessions -> Phases] /\ DOMAIN pending' = Sessions
    BY <1>1 DEF OwnerTypes, Phases
  <2>2. inbox' \in [Sessions -> Seq(Commands(CommandKinds))]
    BY <1>1 DEF OwnerTypes
  <2>3. backlog' \in [Sessions -> Seq(Imports)]
    <3>1. <<>> \in Seq(Imports) /\ backlog \in [Sessions -> Seq(Imports)]
      BY DEF OwnerTypes
    <3>2. CASE backlog' = backlog
      BY <3>1, <3>2
    <3>3. CASE backlog' = [backlog EXCEPT ![s] = <<>>]
      BY <3>1, <3>3
    <3> QED BY <1>1, <3>2, <3>3
  <2> QED
    BY <1>1, <1>3, <2>1, <2>2, <2>3 DEF OwnerTypes
<1>5. OneHolder' /\ NoSilentDuplicate' /\ PendingFresh'
  BY <1>1, <1>2, <1>3 DEF OneHolder, NoSilentDuplicate, PendingFresh
<1>6. AllNumbered'
  <2>1. Len(inbox'[s]) = 0
    BY <1>1 DEF OwnerTypes
  <2> QED
    BY <1>1, <1>2, <2>1 DEF AllNumbered, Numbered
<1>7. OnlyHolderWorks'
  <2>1. phase'[s] = "ended"
    BY <1>1 DEF OwnerTypes
  <2> QED
    BY <1>1, <1>2, <1>3, <2>1 DEF OnlyHolderWorks
<1>8. BacklogPresent'
  <2>1. \A r \in Holders' : r \in Holders /\ backlog'[r] = backlog[r]
    BY <1>2, <1>3 DEF Holders
  <2> QED
    BY <1>1, <1>3, <2>1 DEF BacklogPresent
<1>9. MaintenanceAccounted'
  <2>1. \A r \in Sessions : phase'[r] = "serving" => r # s /\ phase[r] = "serving"
    BY <1>1 DEF OwnerTypes
  <2> QED
    BY <1>1, <1>2, <2>1 DEF MaintenanceAccounted, Working
<1> QED
  BY <1>4, <1>5, <1>6, <1>7, <1>8, <1>9

-----------------------------------------------------------------------------

\* Every step keeps it.
LEMMA OwnerPreserved == OwnerInvariant /\ [OwnerNext]_ownerVars => OwnerInvariant'
<1> SUFFICES ASSUME OwnerInvariant, [OwnerNext]_ownerVars PROVE OwnerInvariant'
  OBVIOUS
<1>1. ASSUME NEW s \in Sessions, OwnerStep(s) PROVE OwnerInvariant'
  BY <1>1, OpenStep, EndStep, ReceiveStep, StartStep, AnswerStep, CommitStep,
     RegeneratedStep, FailureStep
  DEF OwnerStep
<1>2. ASSUME NEW s \in Sessions, InterfaceStep(s) PROVE OwnerInvariant'
  BY <1>2, InterfaceMoves
<1>3. ASSUME NEW t \in Tokens, Collect(t) \/ Forget(t) PROVE OwnerInvariant'
  BY <1>3, ChannelStep DEF Collect, Forget, threadVars, storeVars
<1>4. CASE UNCHANGED ownerVars
  BY <1>4, ChannelStep DEF ownerVars, threadVars, storeVars
<1> QED
  BY <1>1, <1>2, <1>3, <1>4 DEF OwnerNext

\* The owner threads keep their invariant with any interface (runtime.rs,
\* VaultSession::begin).
THEOREM OwnerStands == OwnerSpec => []OwnerInvariant
BY OwnerInitial, OwnerPreserved, PTL DEF OwnerSpec

\* A file that is in the vault is imported again only as the copy that the user
\* asked for: nothing is published between a preparation and its commit.
THEOREM DuplicatesAreChosen == OwnerSpec => []NoSilentDuplicate
<1>1. OwnerInvariant => NoSilentDuplicate
  BY DEF OwnerInvariant
<1> QED
  BY <1>1, OwnerStands, PTL

\* The maintenance status accounts for every missing thumbnail of a session that
\* is not revoked.
THEOREM MaintenanceAddsUp == OwnerSpec => []MaintenanceAccounted
<1>1. OwnerInvariant => MaintenanceAccounted
  BY DEF OwnerInvariant
<1> QED
  BY <1>1, OwnerStands, PTL

-----------------------------------------------------------------------------
(* The application. *)

\* A session that was begun.
Born(s) == phase[s] # "unborn"

-----------------------------------------------------------------------------
(* Steps of the owners. *)

\* A session that was begun stays so.
LEMMA BornStays ==
  ASSUME OwnerInvariant, [OwnerNext]_ownerVars, NEW s \in Sessions, Born(s)
  PROVE  Born(s)'
<1> USE DEF OwnerInvariant, OwnerTypes, Born
<1>1. ASSUME NEW r \in Sessions, OwnerStep(r) PROVE Born(s)'
  BY <1>1
  DEF OwnerStep, OpenFails, Open, ReceiveClose, ReceiveCancelled, Receive,
      StartRegeneration, FinishList, FinishOpen, FinishPrepare, DeclineCommit,
      Commit, Regenerated, RegenerationFails, Finish
<1>2. ASSUME NEW r \in Sessions, InterfaceStep(r) PROVE Born(s)'
  BY <1>2
  DEF InterfaceStep, Begin, TakeReady, Revoke, SendPrepare, SendCommand, Send
<1>3. ASSUME NEW t \in Tokens, Collect(t) \/ Forget(t) PROVE Born(s)'
  BY <1>3 DEF Collect, Forget, threadVars
<1>4. CASE UNCHANGED ownerVars
  BY <1>4 DEF ownerVars, threadVars
<1> QED
  BY <1>1, <1>2, <1>3, <1>4 DEF OwnerNext

\* What the window does to a session is what an interface may do.
LEMMA Sends ==
  ASSUME OwnerInvariant, NEW s \in Sessions
  PROVE  /\ \A t \in Tokens, f \in Files :
              SendPrepare(s, t, f) => OwnerNext /\ Len(source) + 1 \in Imports
         /\ \A t \in Tokens : SendCommand(s, "ListGallery", t, None, None) => OwnerNext
         /\ \A t \in Tokens, i \in Present :
              SendCommand(s, "OpenViewer", t, i, None) => OwnerNext
         /\ \A t \in Tokens, d \in Decisions, i \in Imports :
              SendCommand(s, "CommitImport", t, i, d) => OwnerNext
         /\ \A keep \in BOOLEAN : Revoke(s, keep) => OwnerNext
         /\ TakeReady(s) => OwnerNext
         /\ \A r \in Sessions \cup {None} : Begin(s, r) => OwnerNext
<1>1. InterfaceStep(s) => OwnerNext
  BY DEF OwnerNext
<1>2. \A t \in Tokens, f \in Files :
        SendPrepare(s, t, f) => InterfaceStep(s) /\ Len(source) + 1 \in Imports
  <2>1. Len(source) \in Nat
    BY DEF OwnerInvariant, OwnerTypes
  <2> QED
    BY <2>1, Bounds DEF SendPrepare, InterfaceStep, Imports
<1> QED
  BY <1>1, <1>2 DEF InterfaceStep

\* Nothing is removed from the vault, so that a listing never names an image that
\* is gone.
LEMMA ListingsStay ==
  ASSUME OwnerInvariant, AnswersPresent, [OwnerNext]_ownerVars
  PROVE  AnswersPresent' /\ Present \subseteq Present'
<1> DEFINE Sound(a) == a.is = "snapshot" =>
                         \A i \in Imports : a.images[i] # "absent" => i \in Present
<1>0. Sound(Free) /\ Sound(Dropped) /\ Sound(Waiting) /\ Sound(Forgotten)
      /\ \A e : Sound(Refusal(e))
  BY DEF Free, Dropped, Waiting, Forgotten, Refusal
<1>1. DOMAIN library = Imports
  BY DEF OwnerInvariant, OwnerTypes
<1>2. Present \subseteq Present'
  <2>1. \/ library' = library
        \/ \E i, state : state # "absent" /\ library' = [library EXCEPT ![i] = state]
    <3>1. ASSUME NEW s \in Sessions, OwnerStep(s)
          PROVE  \/ library' = library
                 \/ \E i, state : state # "absent" /\ library' = [library EXCEPT ![i] = state]
      <4>1. CASE Commit(s)
        BY <4>1 DEF Commit
      <4>2. CASE Regenerated(s)
        BY <4>2 DEF Regenerated
      <4>3. CASE ~Commit(s) /\ ~Regenerated(s)
        BY <3>1, <4>3
        DEF OwnerStep, OpenFails, Open, ReceiveClose, ReceiveCancelled, Receive,
            StartRegeneration, FinishList, FinishOpen, FinishPrepare, DeclineCommit,
            RegenerationFails, Finish, storeVars
      <4> QED BY <4>1, <4>2, <4>3
    <3>2. ASSUME NEW s \in Sessions, InterfaceStep(s) PROVE library' = library
      BY <3>2
      DEF InterfaceStep, Begin, TakeReady, Revoke, SendPrepare, SendCommand, Send,
          storeVars
    <3>3. ASSUME NEW t \in Tokens, Collect(t) \/ Forget(t) PROVE library' = library
      BY <3>3 DEF Collect, Forget, storeVars
    <3> QED
      BY <3>1, <3>2, <3>3 DEF OwnerNext, ownerVars, storeVars
  <2> QED
    BY <1>1, <2>1 DEF Present
<1>3. DOMAIN answer' = Tokens
  <2>0. DOMAIN answer = Tokens
    BY DEF AnswersPresent
  <2>1. ASSUME NEW s \in Sessions, OwnerStep(s) PROVE DOMAIN answer' = Tokens
    BY <2>0, <2>1
    DEF OwnerStep, OpenFails, Open, ReceiveClose, ReceiveCancelled, Receive,
        StartRegeneration, FinishList, FinishOpen, FinishPrepare, DeclineCommit,
        Commit, Regenerated, RegenerationFails, Finish, Reply, Abandon
  <2>2. ASSUME NEW s \in Sessions, InterfaceStep(s) PROVE DOMAIN answer' = Tokens
    BY <2>0, <2>2
    DEF InterfaceStep, Begin, TakeReady, Revoke, SendPrepare, SendCommand, Send
  <2>3. ASSUME NEW t \in Tokens, Collect(t) \/ Forget(t) PROVE DOMAIN answer' = Tokens
    BY <2>0, <2>3 DEF Collect, Forget
  <2> QED
    BY <2>0, <2>1, <2>2, <2>3 DEF OwnerNext, ownerVars
<1>4. ASSUME NEW t \in Tokens PROVE Sound(answer'[t])
  <2>0. Sound(answer[t])
    BY DEF AnswersPresent
  <2>1. ASSUME NEW u, NEW result, Sound(result), Reply(u, result)
        PROVE  Sound(answer'[t])
    <3>1. answer'[t] \in {answer[t], result, Free}
      BY <2>1 DEF Reply
    <3> QED
      BY <1>0, <2>0, <2>1, <3>1
  <2>2. ASSUME NEW s \in Sessions, OwnerStep(s) PROVE Sound(answer'[t])
    <3>1. CASE OpenFails(s) \/ Finish(s)
      <4>1. answer'[t] \in {answer[t], Free, Dropped}
        BY <3>1 DEF OpenFails, Finish, Abandon
      <4> QED
        BY <1>0, <2>0, <4>1
    <3>2. CASE FinishList(s)
      <4>1. \A result \in Listed : Sound(result)
        BY <1>0 DEF Listed, Present
      <4> QED
        BY <2>1, <3>2, <4>1 DEF FinishList
    <3>3. CASE ReceiveCancelled(s) \/ FinishOpen(s) \/ FinishPrepare(s)
               \/ DeclineCommit(s) \/ Commit(s)
      <4>1. \A result \in Opened(s) : Sound(result)
        BY <1>0 DEF Opened
      <4>2. Sound(Declined(s))
        BY <1>0 DEF Declined
      <4>3. \A d \in BOOLEAN : Sound([is |-> "preview", duplicate |-> d])
        OBVIOUS
      <4>4. \A i : Sound([is |-> "imported", image |-> i])
        OBVIOUS
      <4> HIDE DEF Sound
      <4> QED
        BY <1>0, <2>1, <3>3, <4>1, <4>2, <4>3, <4>4
        DEF ReceiveCancelled, FinishOpen, FinishPrepare, DeclineCommit, Commit, Duplicate
    <3>4. CASE Open(s) \/ ReceiveClose(s) \/ Receive(s) \/ StartRegeneration(s)
               \/ Regenerated(s) \/ RegenerationFails(s)
      BY <2>0, <3>4
      DEF Open, ReceiveClose, Receive, StartRegeneration, Regenerated,
          RegenerationFails
    <3> QED
      BY <2>2, <3>1, <3>2, <3>3, <3>4 DEF OwnerStep
  <2>3. ASSUME NEW s \in Sessions, InterfaceStep(s) PROVE Sound(answer'[t])
    <3>1. ASSUME NEW c, Send(s, c) PROVE answer'[t] \in {answer[t], Waiting}
      BY <1>3, <3>1 DEF Send
    <3>2. answer' = answer \/ \E c : Send(s, c)
      BY <2>3 DEF InterfaceStep, Begin, TakeReady, Revoke, SendPrepare, SendCommand
    <3> QED
      BY <1>0, <2>0, <3>1, <3>2
  <2>4. ASSUME NEW u \in Tokens, Collect(u) \/ Forget(u) PROVE Sound(answer'[t])
    <3>1. answer'[t] \in {answer[t], Free, Forgotten}
      BY <1>3, <2>4 DEF Collect, Forget
    <3> QED
      BY <1>0, <2>0, <3>1
  <2> QED
    BY <2>0, <2>2, <2>3, <2>4 DEF OwnerNext, ownerVars
<1> QED
  BY <1>2, <1>3, <1>4 DEF AnswersPresent

-----------------------------------------------------------------------------
(* Steps of the window. *)

\* A timer fires and ends, or is set again, or a new one is set.
TimersBecome(new) ==
  \/ pollers' = pollers \/ pollers' = Append(pollers, new)
  \/ pollers # <<>> /\ pollers' \in {Tail(pollers), Append(Tail(pollers), new)}

\* The timers after such a step are old ones and the new one.
LEMMA TimersAre ==
  ASSUME pollers \in Seq(Timers), NEW new, TimersBecome(new)
  PROVE  pollers' \in Seq(Timers') /\ Timers' \subseteq Timers \cup {new}
<1>1. ASSUME NEW q \in Seq(Timers \cup {new}), pollers' = q,
             \A i \in 1..Len(q) : q[i] \in Timers \cup {new}
      PROVE  pollers' \in Seq(Timers') /\ Timers' \subseteq Timers \cup {new}
  <2>1. pollers' \in Seq({pollers'[i] : i \in 1..Len(pollers')})
    BY <1>1
  <2> QED
    BY <1>1, <2>1 DEF Timers
<1>2. pollers \in Seq(Timers \cup {new})
  OBVIOUS
<1>3. pollers' \in Seq(Timers \cup {new})
  <2>1. pollers # <<>> => Tail(pollers) \in Seq(Timers \cup {new})
    BY <1>2
  <2>2. \A q \in Seq(Timers \cup {new}) : Append(q, new) \in Seq(Timers \cup {new})
    OBVIOUS
  <2> QED
    BY <1>2, <2>1, <2>2 DEF TimersBecome
<1> QED
  BY <1>1, <1>3

\* The timer whose turn it is is one of the timers.
LEMMA NowIsTimer ==
  ASSUME pollers \in Seq(Timers), Turn
  PROVE  Now \in Timers
<1>1. pollers # <<>> /\ Len(pollers) \in Nat \ {0} /\ Head(pollers) = pollers[1]
  BY QueueHead DEF Turn
<1> QED
  BY <1>1 DEF Timers, Now

\* A listing that is applied and has the gallery open an image, what it sends and the
\* timer it leaves.
ListingOpens ==
  ListingAnswered /\ ~Silent /\ ListingApplies /\ OpenSelected

OpenedBy(i, new, c) ==
  /\ answer[Now.token].images[i] = "whole"
  /\ slot \in Sessions /\ Now.token \in Tokens /\ Now.session = slot
  /\ Send(slot, c) /\ SendCommand(slot, "OpenViewer", Now.token, i, None)
  /\ c.token = Now.token /\ c.kind = "OpenViewer"
  /\ new.kind = "viewer" /\ new.session = slot /\ new.token = Now.token
  /\ pollers' = Append(Tail(pollers), new)
  /\ UNCHANGED <<slot, pageVars, chooser, importVars, picture, loaded, window,
                 previewed, phase, held, ready, cancelled, hand, revision, storeVars>>

\* The listing is one of the window's session, and its channel serves again.
LEMMA OpensByItself ==
  ASSUME DesktopSound, ListingOpens
  PROVE  \E i \in Imports : \E new, c : OpenedBy(i, new, c)
<1>1. /\ Turn /\ Now.kind = "list" /\ slot = Now.session
  BY DEF ListingOpens, ListingAnswered, ListingApplies, Generation
<1>2. SoundTimer(Now) /\ Now.session \in Sessions /\ Now.token \in Tokens
  BY <1>1, NowIsTimer DEF DesktopSound, SoundTimer
<1>3. PICK i \in Imports :
        /\ answer[Now.token].images[i] = "whole"
        /\ SendCommand(slot, "OpenViewer", Now.token, i, None)
        /\ pollers' = Append(Tail(pollers), Poller("viewer", slot, Now.token, i))
  BY DEF ListingOpens, OpenSelected
<1>4. PICK c : c = Command("OpenViewer", Now.token, i, None)
  OBVIOUS
<1>5. PICK new : new = Poller("viewer", slot, Now.token, i)
  OBVIOUS
<1>6. UNCHANGED <<slot, pageVars, chooser, importVars, picture, loaded, window, previewed>>
  BY DEF ListingOpens, ListingAnswered
<1>7. Send(slot, c) /\ UNCHANGED storeVars
  BY <1>3, <1>4 DEF SendCommand
<1>8. UNCHANGED <<phase, held, ready, cancelled, hand, revision>>
  BY <1>7 DEF Send
<1>9. c.token = Now.token /\ c.kind = "OpenViewer"
  BY <1>4 DEF Command
<1>10. new.kind = "viewer" /\ new.session = slot /\ new.token = Now.token
  BY <1>5 DEF Poller
<1>11. OpenedBy(i, new, c)
  BY <1>1, <1>2, <1>3, <1>5, <1>6, <1>7, <1>8, <1>9, <1>10 DEF OpenedBy
<1> QED
  BY <1>11

\* A step that brings nothing of a locked session to the screen.
LEMMA WindowStep ==
  ASSUME DesktopSound, \A s \in Sessions : Born(s) => Born(s)',
         NEW new, TimersBecome(new),
         new \in Timers \/ SoundTimer(new)',
         slot' \in Sessions \cup {None}, active' \in Imports \cup {None},
         slot' # None => phase'[slot'] # "unborn",
         slot' # None =>
           \A p \in Timers : p.session = slot' => slot' = slot /\ (unlocked => unlocked'),
         page' = "gallery" => unlocked',
         ControlsHidden',
         controls' # "hidden" /\ active' # None => active' = previewed'
  PROVE  DesktopSound'
<1> USE DEF DesktopSound
<1>1. pollers' \in Seq(Timers') /\ Timers' \subseteq Timers \cup {new}
  BY TimersAre
<1>2. ASSUME NEW p \in Timers PROVE SoundTimer(p)'
  <2>1. SoundTimer(p)
    OBVIOUS
  <2> QED
    BY <2>1 DEF SoundTimer, Born, Reveals
<1>3. ASSUME NEW p \in Timers' PROVE SoundTimer(p)'
  <2>1. CASE p \in Timers
    BY <1>2, <2>1
  <2>2. CASE p = new /\ p \notin Timers
    BY <2>2
  <2> QED BY <1>1, <2>1, <2>2
<1> QED
  BY <1>1, <1>3 DEF Born

-----------------------------------------------------------------------------
(* Every step is one of the owners' interface, or none of it. *)

\* A click reaches the owner threads only through their interface.
LEMMA UserImplements ==
  ASSUME OwnerInvariant, DesktopSound, TilesPresent, User
  PROVE  [OwnerNext]_ownerVars
<1> USE DEF DesktopSound
<1>1. CASE ClickCreatePage \/ ClickBack \/ Navigate \/ ClickChooser
  BY <1>1 DEF ClickCreatePage, ClickBack, Navigate, ClickChooser, AskPortal
<1>2. CASE ClickOpen
  BY <1>2, Sends DEF ClickOpen
<1>3. CASE Lock
  BY <1>3, Sends DEF Lock
<1>4. ASSUME NEW d \in Decisions, ClickDecision(d)
      PROVE  [OwnerNext]_ownerVars
  <2>1. slot \in Sessions /\ active \in Imports
    BY <1>4 DEF ClickDecision
  <2> QED
    BY <1>4, <2>1, Sends DEF ClickDecision
<1>5. ASSUME NEW i \in Imports, SelectImage(i)
      PROVE  [OwnerNext]_ownerVars
  <2>1. slot \in Sessions /\ i \in Present
    BY <1>5 DEF SelectImage, Whole, TilesPresent
  <2> QED
    BY <1>5, <2>1, Sends DEF SelectImage
<1>6. CASE CloseWindow
  BY <1>6, Sends DEF CloseWindow
<1> QED
  BY <1>1, <1>2, <1>3, <1>4, <1>5, <1>6 DEF User

\* So does a timer.
LEMMA TimerImplements ==
  ASSUME OwnerInvariant, DesktopSound, TilesPresent, Timer
  PROVE  [OwnerNext]_ownerVars
<1> USE DEF DesktopSound
<1>0. ASSUME Turn
      PROVE  SoundTimer(Now)
  BY <1>0, NowIsTimer
<1>1. CASE PollReady
  BY <1>1, Sends DEF PollReady, KeepPolling
<1>2. CASE FolderChosen \/ PollPortal \/ ImageNotChosen
  BY <1>2 DEF FolderChosen, PollPortal, ImageNotChosen, KeepPolling
<1>3. CASE ImageChosen
  <2>1. slot \in Sessions
    BY <1>0, <1>3 DEF ImageChosen, Generation, SoundTimer, Reveals
  <2> QED
    BY <1>3, <2>1, Sends DEF ImageChosen
<1>4. CASE PreparationStale \/ PreparationAnswered \/ CommitStale \/ CommitAnswered
           \/ ListingAnswered \/ ViewerAnswered
  <2>1. \/ KeepPolling \/ Collect(Now.token) \/ Forget(Now.token) \/ ListingOpens
    BY <1>4
    DEF PreparationStale, PreparationAnswered, CommitStale, CommitAnswered,
        ListingAnswered, ViewerAnswered, ListingOpens
  <2>2. Now.token \in Tokens
    BY <1>0, <1>4
    DEF PreparationStale, PreparationAnswered, CommitStale, CommitAnswered,
        ListingAnswered, ViewerAnswered, SoundTimer
  <2>3. CASE ListingOpens
    <3>0. PICK i \in Imports : \E new, c : OpenedBy(i, new, c)
      BY <2>3, OpensByItself
    <3>1. PICK new, c : OpenedBy(i, new, c)
      BY <3>0
    <3>2. i \in Present
      BY <2>3, <3>1
      DEF ListingOpens, ListingApplies, OpenedBy, TilesPresent, AnswersPresent
    <3> QED
      BY <3>1, <3>2, Sends DEF OpenedBy
  <2> QED
    BY <2>1, <2>2, <2>3 DEF KeepPolling, OwnerNext
<1>5. CASE PollShutdown
  BY <1>5, Sends DEF PollShutdown, KeepPolling
<1> QED
  BY <1>1, <1>2, <1>3, <1>4, <1>5 DEF Timer

\* So does every step of the application.
LEMMA Implements ==
  ASSUME OwnerInvariant, DesktopSound, TilesPresent, [Next]_desktopVars
  PROVE  [OwnerNext]_ownerVars
<1>1. CASE GalleryTimer
  BY <1>1, Sends DEF GalleryTimer, ClearGallery, AskListing, DesktopSound
<1>2. CASE Broker
  BY <1>2 DEF Broker, BrokerAnswers, BrokerVanishes
<1>3. ASSUME NEW s \in Sessions, Owner(s) PROVE OwnerNext
  BY <1>3 DEF Owner, OwnerNext
<1>4. CASE UNCHANGED desktopVars
  BY <1>4 DEF desktopVars
<1> QED
  BY <1>1, <1>2, <1>3, <1>4, UserImplements, TimerImplements DEF Next

-----------------------------------------------------------------------------
(* Every step keeps the timers and the decision sound. *)

\* The timers are as before, or one is gone.
LEMMA QuietStep ==
  ASSUME DesktopSound, \A s \in Sessions : Born(s) => Born(s)',
         pollers' = pollers \/ (pollers # <<>> /\ pollers' = Tail(pollers)),
         slot' \in {slot, None}, active' \in Imports \cup {None},
         slot' # None => (unlocked => unlocked'),
         page' = "gallery" => unlocked',
         ControlsHidden',
         controls' # "hidden" /\ active' # None => active' = previewed'
  PROVE  DesktopSound'
<1> DEFINE none == Poller("ready", None, None, None)
<1>1. TimersBecome(none)
  BY DEF TimersBecome
<1>2. SoundTimer(none)'
  BY DEF SoundTimer, Poller, Reveals
<1>3. slot' # None => phase'[slot'] # "unborn"
  BY DEF DesktopSound, Born
<1>4. slot' \in Sessions \cup {None}
  BY DEF DesktopSound
<1> HIDE DEF none
<1> QED
  BY <1>1, <1>2, <1>3, <1>4, WindowStep

\* A timer is added, or its turn is over, in the same session.
LEMMA NewTimerStep ==
  ASSUME DesktopSound, \A s \in Sessions : Born(s) => Born(s)',
         NEW new, TimersBecome(new),
         new \in Timers \/ SoundTimer(new)',
         slot' = slot, unlocked' = unlocked, page' = page,
         active' \in Imports \cup {None}, picture' = picture,
         \/ controls' = controls /\ active' = active /\ previewed' = previewed
         \/ controls' = "hidden"
  PROVE  DesktopSound'
<1>1. slot' \in Sessions \cup {None} /\ (slot' # None => phase'[slot'] # "unborn")
  BY DEF DesktopSound, Born
<1>2. \A p \in Timers : p.session = slot' => slot' = slot /\ (unlocked => unlocked')
  OBVIOUS
<1>3. ControlsHidden' /\ (page' = "gallery" => unlocked')
  BY DEF ControlsHidden, DesktopSound
<1>4. controls' # "hidden" /\ active' # None => active' = previewed'
  BY DEF DesktopSound
<1> QED
  BY <1>1, <1>2, <1>3, <1>4, WindowStep

\* A click leaves the window sound.
LEMMA UserSound ==
  ASSUME OwnerInvariant, DesktopSound, User,
         \A s \in Sessions : Born(s) => Born(s)'
  PROVE  DesktopSound'
<1>0. /\ slot \in Sessions \cup {None} /\ active \in Imports \cup {None}
      /\ page = "gallery" => unlocked
      /\ ControlsHidden
      /\ controls # "hidden" /\ active # None => active = previewed
      /\ slot # None => Born(slot)
  BY DEF DesktopSound, Born
<1>1. CASE ClickCreatePage \/ ClickBack \/ Navigate \/ Lock
  BY <1>0, <1>1, QuietStep
  DEF ClickCreatePage, ClickBack, Navigate, Lock, ClearSensitive, TakeSession,
      widgetVars, importVars, ControlsHidden
<1>2. CASE ClickOpen
  <2>0. PICK new : new = Poller("ready", None, None, None)
    OBVIOUS
  <2>1. TimersBecome(new) /\ SoundTimer(new)'
    BY <2>0, <1>2 DEF ClickOpen, StartPoller, TimersBecome, SoundTimer, Poller, Reveals
  <2>2. slot' \in Sessions /\ ~Born(slot') /\ phase'[slot'] # "unborn"
    BY <1>2 DEF ClickOpen, Begin, Born, OwnerInvariant, OwnerTypes
  <2>3. \A p \in Timers : p.session # slot'
    BY <2>2, Bounds DEF DesktopSound, SoundTimer, Born, Sessions
  <2>4. /\ UNCHANGED <<unlocked, page, active, controls, picture, previewed>>
    BY <1>2 DEF ClickOpen, pageVars, widgetVars, importVars
  <2> QED
    BY <1>0, <2>1, <2>2, <2>3, <2>4, WindowStep DEF ControlsHidden
<1>3. CASE ClickChooser
  <2>1. PICK b \in Choosers : AskPortal(b) /\ (b = "image" => page = "gallery" /\ slot # None)
    BY <1>3 DEF ClickChooser, AskPortal
  <2>0. PICK new : new = Poller("portal", slot, None, b)
    OBVIOUS
  <2>2. TimersBecome(new)
    BY <2>0, <2>1 DEF AskPortal, StartPoller, TimersBecome
  <2>3. UNCHANGED <<slot, phase, unlocked, page, active, controls, picture, previewed>>
    BY <2>1 DEF AskPortal, pageVars, widgetVars, importVars, ownerVars, threadVars
  <2>4. SoundTimer(new)'
    BY <2>0, <1>0, <2>1, <2>3 DEF SoundTimer, Poller, Reveals, Born
  <2> QED
    BY <1>0, <2>2, <2>3, <2>4, NewTimerStep
<1>4. ASSUME NEW d \in Decisions, ClickDecision(d)
      PROVE  DesktopSound'
  <2>1. PICK t \in Tokens : /\ SendCommand(slot, "CommitImport", t, active, d)
                           /\ StartPoller(Poller("commit", slot, t, active))
    BY <1>4 DEF ClickDecision
  <2>0. PICK new : new = Poller("commit", slot, t, active)
    OBVIOUS
  <2>2. TimersBecome(new)
    BY <2>0, <2>1 DEF StartPoller, TimersBecome
  <2>3. /\ UNCHANGED <<slot, unlocked, page, active, controls, picture, previewed, phase>>
        /\ unlocked /\ slot # None /\ active # None
    BY <1>0, <1>4, <2>1 DEF ClickDecision, pageVars, SendCommand, Send
  <2>4. SoundTimer(new)'
    BY <2>0, <1>0, <2>3 DEF SoundTimer, Poller, Reveals, Born
  <2> QED
    BY <1>0, <2>2, <2>3, <2>4, NewTimerStep
<1>5. ASSUME NEW i \in Imports, SelectImage(i)
      PROVE  DesktopSound'
  <2>1. PICK t \in Tokens : /\ SendCommand(slot, "OpenViewer", t, i, None)
                           /\ StartPoller(Poller("viewer", slot, t, i))
    BY <1>5 DEF SelectImage
  <2>0. PICK new : new = Poller("viewer", slot, t, i)
    OBVIOUS
  <2>2. TimersBecome(new)
    BY <2>0, <2>1 DEF StartPoller, TimersBecome
  <2>3. /\ UNCHANGED <<slot, unlocked, page, active, controls, picture, previewed, phase>>
        /\ unlocked /\ slot # None
    BY <1>0, <1>5, <2>1 DEF SelectImage, pageVars, widgetVars, importVars, SendCommand, Send
  <2>4. SoundTimer(new)'
    BY <2>0, <1>0, <2>3 DEF SoundTimer, Poller, Reveals, Born
  <2> QED
    BY <1>0, <2>2, <2>3, <2>4, NewTimerStep
<1>6. CASE CloseWindow
  <2>1. UNCHANGED <<slot, unlocked, page, active, controls, picture, previewed>>
    BY <1>6 DEF CloseWindow, pageVars, widgetVars, importVars
  <2>2. CASE UNCHANGED pollers
    BY <1>0, <2>1, <2>2, QuietStep DEF ControlsHidden
  <2>3. CASE StartPoller(Poller("shutdown", slot, None, None))
    <3>0. PICK new : new = Poller("shutdown", slot, None, None)
      OBVIOUS
    <3>1. TimersBecome(new)
      BY <3>0, <2>3 DEF StartPoller, TimersBecome
    <3>2. SoundTimer(new)'
      BY <3>0, <1>0, <2>1 DEF SoundTimer, Poller, Reveals, Born
    <3> QED
      BY <1>0, <2>1, <3>1, <3>2, NewTimerStep
  <2> QED BY <1>6, <2>2, <2>3 DEF CloseWindow
<1> QED
  BY <1>1, <1>2, <1>3, <1>4, <1>5, <1>6 DEF User

\* So does a timer.
LEMMA TimerSound ==
  ASSUME OwnerInvariant, DesktopSound, Timer,
         \A s \in Sessions : Born(s) => Born(s)'
  PROVE  DesktopSound'
<1>0. /\ slot \in Sessions \cup {None} /\ active \in Imports \cup {None}
      /\ page = "gallery" => unlocked
      /\ ControlsHidden
      /\ controls # "hidden" /\ active # None => active = previewed
      /\ slot # None => Born(slot)
  BY DEF DesktopSound, Born
<1>1. Turn /\ Now \in Timers /\ SoundTimer(Now)
  BY NowIsTimer
  DEF Timer, PollReady, FolderChosen, PollPortal, ImageNotChosen, ImageChosen,
      PreparationStale, PreparationAnswered, CommitStale, CommitAnswered,
      ListingAnswered, ViewerAnswered, PollShutdown, DesktopSound
<1>2. ASSUME KeepPolling PROVE DesktopSound'
  <2>1. TimersBecome(Now)
    BY <1>1, <1>2 DEF KeepPolling, Again, TimersBecome, Turn
  <2>2. UNCHANGED <<slot, unlocked, page, active, controls, picture, previewed>>
    BY <1>2 DEF KeepPolling, pageVars, widgetVars, importVars
  <2> QED
    BY <1>0, <1>1, <2>1, <2>2, NewTimerStep
<1>3. ASSUME Stop, PollReady \/ PollShutdown
      PROVE  DesktopSound'
  <2>1. CASE KeepPolling
    BY <1>2, <2>1
  <2>2. CASE ~KeepPolling
    <3>1. /\ slot' \in {slot, None} /\ (unlocked => unlocked') /\ (page' = "gallery" => unlocked')
          /\ UNCHANGED <<active, controls, picture, previewed>>
      <4>1. /\ slot' \in {slot, None}
            /\ UNCHANGED <<active, controls, picture, previewed>>
            /\ unlocked' = TRUE \/ (unlocked' = unlocked /\ page' \in {page, "error"})
        <5>1. CASE PollReady
          BY <2>2, <5>1 DEF PollReady, widgetVars, importVars
        <5>2. CASE PollShutdown
          BY <2>2, <5>2 DEF PollShutdown, pageVars, widgetVars, importVars
        <5> QED BY <1>3, <5>1, <5>2
      <4>2. CASE unlocked' = TRUE
        BY <4>1, <4>2
      <4>3. CASE unlocked' = unlocked /\ page' \in {page, "error"}
        BY <1>0, <4>1, <4>3
      <4> QED BY <4>1, <4>2, <4>3
    <3> QED
      BY <1>0, <1>1, <1>3, <3>1, QuietStep DEF ControlsHidden, Stop, Turn
  <2> QED BY <2>1, <2>2
<1>4. CASE FolderChosen \/ ImageNotChosen
  <2>1. /\ Stop /\ UNCHANGED <<slot, unlocked, active, controls, picture, previewed>>
        /\ page' \in {page, "unlock", "error"}
    BY <1>4 DEF FolderChosen, ImageNotChosen, pageVars, widgetVars, importVars
  <2> QED
    BY <1>0, <1>1, <2>1, QuietStep DEF ControlsHidden, Stop, Turn
<1>5. CASE ImageChosen
  <2>1. /\ UNCHANGED <<slot, unlocked, page, picture, previewed>> /\ controls' = "hidden"
        /\ slot # None /\ unlocked
    BY <1>1, <1>5
    DEF ImageChosen, HideOldPreview, Generation, SoundTimer, Reveals, pageVars
  <2>2. CASE Stop /\ active' = None
    BY <1>0, <1>1, <2>1, <2>2, QuietStep DEF ControlsHidden, Stop, Turn
  <2>3. ASSUME NEW t \in Tokens, NEW f \in Files, SendPrepare(slot, t, f),
               active' = Len(source) + 1,
               pollers' = Append(Tail(pollers),
                            Poller("prepare", slot, t, Len(source) + 1))
        PROVE  DesktopSound'
    <3>0. PICK new : new = Poller("prepare", slot, t, Len(source) + 1)
      OBVIOUS
    <3>1. TimersBecome(new)
      BY <3>0, <1>1, <2>3 DEF TimersBecome, Turn
    <3>2. Len(source) + 1 \in Imports
      BY <1>0, <2>1, <2>3, Sends
    <3>3. SoundTimer(new)'
      BY <3>0, <1>0, <2>1, <3>2 DEF SoundTimer, Poller, Reveals, Born
    <3> QED
      BY <1>0, <2>1, <2>3, <3>1, <3>2, <3>3, NewTimerStep
  <2> QED BY <1>5, <2>2, <2>3 DEF ImageChosen
<1>6. CASE PreparationStale \/ CommitStale \/ ListingAnswered
  <2>1. CASE KeepPolling
    BY <1>2, <2>1
  <2>2. CASE ~KeepPolling
    <3>1. /\ Stop \/ ListingOpens
          /\ UNCHANGED <<slot, unlocked, page, active, controls, picture, previewed>>
      BY <1>6, <2>2
      DEF PreparationStale, CommitStale, ListingAnswered, ListingOpens, pageVars, importVars
    <3>2. CASE ListingOpens
      <4>0. PICK i \in Imports : \E new, c : OpenedBy(i, new, c)
        BY <3>2, OpensByItself
      <4>1. PICK new, c : OpenedBy(i, new, c)
        BY <4>0
      <4>2. TimersBecome(new)
        BY <1>1, <4>1 DEF OpenedBy, TimersBecome, Turn
      <4>4. /\ new.kind = "viewer" /\ new.session = slot /\ slot \in Sessions
            /\ new.token \in Tokens /\ phase' = phase /\ slot' = slot /\ slot # None
        BY <3>1, <4>1, OwnerAssumption DEF OpenedBy, OwnerAssumption, Sessions
      <4>3. SoundTimer(new)'
        BY <1>0, <4>4 DEF SoundTimer, Reveals, Born
      <4> QED
        BY <1>0, <3>1, <4>2, <4>3, NewTimerStep
    <3> QED
      BY <1>0, <1>1, <3>1, <3>2, QuietStep DEF ControlsHidden, Stop, Turn
  <2> QED BY <2>1, <2>2
<1>7. CASE PreparationAnswered
  <2>1. CASE KeepPolling
    BY <1>2, <2>1
  <2>2. CASE ~KeepPolling
    <3>1. /\ Stop /\ UNCHANGED <<slot, unlocked, page, picture>>
          /\ slot # None /\ unlocked
          /\ \/ active' = active /\ previewed' = active
             \/ active' = None
      BY <1>1, <1>7, <2>2
      DEF PreparationAnswered, Generation, SoundTimer, Reveals, pageVars
    <3> QED
      BY <1>0, <1>1, <3>1, QuietStep DEF ControlsHidden, Stop, Turn
  <2> QED BY <2>1, <2>2
<1>8. CASE CommitAnswered \/ ViewerAnswered
  <2>1. CASE KeepPolling
    BY <1>2, <2>1
  <2>2. CASE ~KeepPolling
    <3>1. /\ Stop /\ UNCHANGED <<slot, unlocked, page, previewed>>
          /\ active' \in {active, None} /\ controls' \in {controls, "hidden"}
      BY <1>8, <2>2 DEF CommitAnswered, ViewerAnswered, pageVars, importVars
    <3> QED
      BY <1>0, <1>1, <3>1, QuietStep DEF ControlsHidden, Stop, Turn
  <2> QED BY <2>1, <2>2
<1>9. CASE PollPortal
  BY <1>2, <1>9 DEF PollPortal
<1>10. CASE PollReady \/ PollShutdown
  <2>1. KeepPolling \/ Stop
    BY <1>10 DEF PollReady, PollShutdown
  <2> QED
    BY <1>2, <1>3, <1>10, <2>1
<1> QED
  BY <1>4, <1>5, <1>6, <1>7, <1>8, <1>9, <1>10 DEF Timer

\* The window starts sound.
LEMMA SoundInitial == Init => DesktopSound
<1> SUFFICES ASSUME Init PROVE DesktopSound
  OBVIOUS
<1>1. Timers = {} /\ pollers = <<>> /\ pollers \in Seq(Timers)
  BY DEF Init, Timers
<1> QED
  BY <1>1 DEF Init, DesktopSound, ControlsHidden

\* A tile stays in the vault, and so does what an answer lists.
LEMMA TilesStep ==
  ASSUME TilesPresent, [OwnerNext]_ownerVars, [Next]_desktopVars,
         OwnerInvariant, DesktopSound
  PROVE  TilesPresent'
<1>1. AnswersPresent' /\ Present \subseteq Present'
  BY ListingsStay DEF TilesPresent
<1>2. \/ view' \in {view, None}
      \/ /\ Turn /\ Now.kind = "list" /\ answer[Now.token].is = "snapshot"
         /\ view' = [session |-> Now.session, images |-> answer[Now.token].images]
  <2>1. CASE User
    BY <2>1
    DEF User, ClickCreatePage, ClickBack, ClickOpen, Lock, ClearSensitive, Navigate,
        ClickChooser, AskPortal, ClickDecision, SelectImage, CloseWindow, widgetVars
  <2>2. CASE Timer
    <3>1. CASE ListingAnswered
      BY <3>1 DEF ListingAnswered, ListingApplies, KeepPolling, widgetVars
    <3>2. CASE ~ListingAnswered
      BY <2>2, <3>2
      DEF Timer, PollReady, FolderChosen, PollPortal, ImageNotChosen, ImageChosen,
          PreparationStale, PreparationAnswered, CommitStale, CommitAnswered,
          ViewerAnswered, PollShutdown, KeepPolling, widgetVars
    <3> QED BY <3>1, <3>2
  <2>3. CASE GalleryTimer \/ Broker
    BY <2>3
    DEF GalleryTimer, ClearGallery, AskListing, Broker, BrokerAnswers,
        BrokerVanishes, widgetVars
  <2>4. CASE (\E s \in Sessions : Owner(s)) \/ UNCHANGED desktopVars
    BY <2>4 DEF Owner, desktopVars, uiVars, widgetVars
  <2> QED BY <2>1, <2>2, <2>3, <2>4 DEF Next
<1>3. Turn /\ Now.kind = "list" => Now.token \in Tokens
  BY NowIsTimer DEF DesktopSound, SoundTimer
<1> QED
  BY <1>1, <1>2, <1>3 DEF TilesPresent, AnswersPresent

\* Every step keeps the three parts of the invariant.
LEMMA Preserved ==
  OwnerInvariant /\ DesktopSound /\ TilesPresent /\ [Next]_desktopVars
    => OwnerInvariant' /\ DesktopSound' /\ TilesPresent'
<1> SUFFICES ASSUME OwnerInvariant, DesktopSound, TilesPresent, [Next]_desktopVars
             PROVE  OwnerInvariant' /\ DesktopSound' /\ TilesPresent'
  OBVIOUS
<1>1. OwnerInvariant'
  BY Implements, OwnerPreserved
<1>2. \A s \in Sessions : Born(s) => Born(s)'
  BY Implements, BornStays
<1>0. active \in Imports \cup {None}
  BY DEF DesktopSound
<1>3. ASSUME slot' = slot, unlocked' = unlocked, page' = page, active' = active,
             controls' = controls, picture' = picture, previewed' = previewed,
             pollers' = pollers
      PROVE  DesktopSound'
  BY <1>2, <1>3, QuietStep DEF DesktopSound, ControlsHidden
<1>4. ASSUME GalleryTimer PROVE DesktopSound'
  <2>1. CASE ClearGallery
    BY <1>1, <1>3, <2>1 DEF ClearGallery, pageVars, importVars
  <2>2. CASE AskListing
    <3>1. PICK t \in Tokens : StartPoller(Poller("list", slot, t, None))
      BY <2>2 DEF AskListing
    <3>0. PICK new : new = Poller("list", slot, t, None)
      OBVIOUS
    <3>2. TimersBecome(new)
      BY <3>0, <3>1 DEF StartPoller, TimersBecome
    <3>3. /\ UNCHANGED <<slot, unlocked, page, active, controls, picture, previewed>>
          /\ slot # None
      BY <2>2 DEF AskListing, pageVars, importVars
    <3>4. SoundTimer(new)' /\ (slot' # None => phase'[slot'] # "unborn")
      BY <3>0, <1>2, <3>3 DEF SoundTimer, Poller, Reveals, Born, DesktopSound
    <3> QED
      BY <1>0, <1>1, <1>2, <3>2, <3>3, <3>4, NewTimerStep
  <2> QED BY <1>4, <2>1, <2>2 DEF GalleryTimer
<1>5. ASSUME Broker PROVE DesktopSound'
  BY <1>1, <1>3, <1>5
  DEF Broker, BrokerAnswers, BrokerVanishes, pageVars, widgetVars, importVars
<1>6. ASSUME NEW s \in Sessions, Owner(s) PROVE DesktopSound'
  BY <1>3, <1>6 DEF Owner, uiVars, pageVars, widgetVars, importVars
<1>7. ASSUME UNCHANGED desktopVars PROVE DesktopSound'
  BY <1>1, <1>3, <1>7 DEF desktopVars, uiVars, pageVars, widgetVars, importVars
<1>8. TilesPresent'
  BY Implements, TilesStep
<1> QED
  BY <1>1, <1>2, <1>4, <1>5, <1>6, <1>7, <1>8, UserSound, TimerSound DEF Next

\* They hold always.
LEMMA DesktopStands == Spec => [](OwnerInvariant /\ DesktopSound /\ TilesPresent)
<1>1. Init => OwnerInvariant /\ DesktopSound
  BY SoundInitial, OwnerInitial DEF Init
<1>2. Init => TilesPresent
  BY DEF Init, OwnerInit, TilesPresent, AnswersPresent, Free
<1> QED
  BY <1>1, <1>2, Preserved, PTL DEF Spec

-----------------------------------------------------------------------------

\* The window uses its sessions only as an interface may: the application
\* implements the specification of the owner threads (ui.rs over runtime.rs).
THEOREM DesktopImplementsOwner == Spec => OwnerSpec
<1>1. Init => OwnerInit
  BY DEF Init
<1>2. OwnerInvariant /\ DesktopSound /\ TilesPresent /\ [Next]_desktopVars
        => [OwnerNext]_ownerVars
  BY Implements
<1> QED
  BY <1>1, <1>2, DesktopStands, PTL DEF Spec, OwnerSpec

\* A decision is about the preview that is displayed (active_preparation and the
\* decision buttons of ui.rs).
THEOREM DecisionsArePreviewed == Spec => []DecisionIsPreviewed
<1>1. DesktopSound => DecisionIsPreviewed
  BY DEF DesktopSound, DecisionIsPreviewed
<1> QED
  BY <1>1, DesktopStands, PTL

\* In the application too an import that is a duplicate is a chosen one.
THEOREM DesktopDuplicatesAreChosen == Spec => []NoSilentDuplicate
BY DesktopImplementsOwner, DuplicatesAreChosen, PTL

\* And so is the maintenance status that it displays.
THEOREM DesktopMaintenanceAddsUp == Spec => []MaintenanceAccounted
BY DesktopImplementsOwner, MaintenanceAddsUp, PTL

-----------------------------------------------------------------------------
(* Commands, their channels and the timers that poll them. *)

\* The states of a channel are told apart.
LEMMA ChannelStates ==
  /\ Waiting \notin {Free, Forgotten, Dropped} /\ Free # Forgotten
  /\ Dropped.is \in Answered
  /\ Waiting.is \notin Answered
  /\ \A a : a.is \in Answered => a \notin {Free, Forgotten, Waiting}
  /\ \A e : Refusal(e).is \in Answered
BY DEF Waiting, Free, Forgotten, Dropped, Answered, Refusal

\* The commands of s that are not answered were so before, in this order.
Kept(s) ==
  \E d \in {0, 1} : \A n \in Places(s)' :
    At(s, n)'.token # None => n + d \in Places(s) /\ At(s, n)' = At(s, n + d)

\* A command of s is answered on channel t, or its receiver has gone.
Answering(s, t) ==
  /\ \E n \in Places(s) : At(s, n).token = t
  /\ IF answer[t] = Forgotten THEN answer'[t] = Free ELSE answer'[t].is \in Answered

\* What a thread does to the commands and the channels.
Serves(s) ==
  /\ Kept(s)
  /\ \A n \in Places(s)' : At(s, n)'.token # None =>
       answer'[At(s, n)'.token] = answer[At(s, n)'.token]
  /\ \A r \in Sessions \ {s} : hand'[r] = hand[r] /\ inbox'[r] = inbox[r]
  /\ \A t \in Tokens : answer'[t] = answer[t] \/ Answering(s, t)

\* Commands are in the hand and in the queue.
LEMMA CommandTypes ==
  ASSUME OwnerInvariant, NEW s \in Sessions
  PROVE  /\ Len(inbox[s]) \in Nat /\ 0 \in Places(s) /\ At(s, 0) = hand[s]
         /\ \A n \in 1..Len(inbox[s]) : n \in Places(s) /\ At(s, n) = inbox[s][n]
         /\ \A n \in Places(s) : At(s, n).token \in Tokens \cup {None}
         /\ None \notin Tokens /\ Idle.token = None /\ Close.token = None
<1>1. /\ inbox[s] \in Seq(Commands(CommandKinds))
      /\ hand[s] \in Commands(CommandKinds \cup {"Regenerate", "Idle"})
  BY DEF OwnerInvariant, OwnerTypes
<1>2. Len(inbox[s]) \in Nat /\ 0 \in Places(s) /\ At(s, 0) = hand[s]
  BY <1>1 DEF Places, At
<1>3. \A n \in 1..Len(inbox[s]) : n \in Places(s) /\ At(s, n) = inbox[s][n]
  BY <1>2 DEF Places, At
<1>4. ASSUME NEW n \in Places(s) PROVE At(s, n).token \in Tokens \cup {None}
  <2>1. CASE n = 0
    BY <1>1, <1>2, <2>1 DEF Commands
  <2>2. CASE n \in 1..Len(inbox[s])
    <3>1. inbox[s][n] \in Commands(CommandKinds)
      BY <1>1, <2>2
    <3> QED
      BY <1>3, <2>2, <3>1 DEF Commands
  <2> QED
    BY <1>2, <2>1, <2>2 DEF Places
<1>5. None \notin Tokens /\ Idle.token = None /\ Close.token = None
  BY Bounds DEF Tokens, Idle, Close, Command
<1> QED
  BY <1>2, <1>3, <1>4, <1>5

\* One command is answered, and the others wait as before.
LEMMA ReplyServes ==
  ASSUME OwnerInvariant, DOMAIN answer = Tokens, ChannelsApart,
         NEW s \in Sessions, NEW m \in Places(s), NEW result,
         result.is \in Answered, Reply(At(s, m).token, result),
         \A r \in Sessions \ {s} : hand'[r] = hand[r] /\ inbox'[r] = inbox[r],
         NEW d \in {0, 1},
         \A n \in Places(s)' : At(s, n)'.token # None =>
           n + d \in Places(s) /\ n + d # m /\ At(s, n)' = At(s, n + d)
  PROVE  Serves(s)
<1>1. Kept(s)
  BY DEF Kept
<1>2. ASSUME NEW n \in Places(s)', At(s, n)'.token # None
      PROVE  answer'[At(s, n)'.token] = answer[At(s, n)'.token]
  <2>1. /\ n + d \in Places(s) /\ n + d # m /\ At(s, n)' = At(s, n + d)
        /\ At(s, n + d).token # None
    BY <1>2
  <2>2. At(s, m).token # At(s, n + d).token
    BY <2>1 DEF ChannelsApart
  <2>3. At(s, n + d).token \in Tokens
    BY <2>1, CommandTypes
  <2> QED
    BY <2>1, <2>2, <2>3 DEF Reply
<1>3. ASSUME NEW t \in Tokens, answer'[t] # answer[t] PROVE Answering(s, t)
  BY <1>3 DEF Reply, Answering
<1> QED
  BY <1>1, <1>2, <1>3 DEF Serves

\* No command is answered.
LEMMA SilentServes ==
  ASSUME OwnerInvariant, NEW s \in Sessions, answer' = answer,
         \A r \in Sessions \ {s} : hand'[r] = hand[r] /\ inbox'[r] = inbox[r],
         NEW d \in {0, 1},
         \A n \in Places(s)' : At(s, n)'.token # None =>
           n + d \in Places(s) /\ At(s, n)' = At(s, n + d)
  PROVE  Serves(s)
BY DEF Serves, Kept

\* The commands that a thread leaves behind are answered all at once.
LEMMA AbandonServes ==
  ASSUME OwnerInvariant, DOMAIN answer = Tokens, ChannelsApart,
         NEW s \in Sessions, Abandon(s), hand' = hand
  PROVE  Serves(s)
<1> DEFINE left == {inbox[s][i].token : i \in 1..Len(inbox[s])} \ {None}
<1>0. DOMAIN inbox = Sessions
  BY DEF OwnerInvariant, OwnerTypes
<1>1. inbox'[s] = <<>> /\ \A r \in Sessions \ {s} : inbox'[r] = inbox[r]
  BY <1>0 DEF Abandon
<1>2. \A n \in Places(s)' : n = 0 /\ At(s, n)' = hand[s]
  BY <1>1 DEF Places, At
<1>3. Kept(s)
  <2>1. \A n \in Places(s)' : n + 0 \in Places(s) /\ At(s, n)' = At(s, n + 0)
    BY <1>2, CommandTypes
  <2> QED
    BY <2>1 DEF Kept
<1>4. hand[s].token # None => hand[s].token \in Tokens \ left
  <2> SUFFICES ASSUME hand[s].token # None,
                      NEW i \in 1..Len(inbox[s]), inbox[s][i].token = hand[s].token
               PROVE  FALSE
    BY CommandTypes
  <2>1. 0 \in Places(s) /\ i \in Places(s) /\ At(s, 0).token = At(s, i).token
        /\ At(s, 0).token # None
    BY CommandTypes
  <2>2. i = 0
    BY <2>1 DEF ChannelsApart
  <2> QED
    BY <2>2
<1>5. \A n \in Places(s)' : At(s, n)'.token # None =>
        answer'[At(s, n)'.token] = answer[At(s, n)'.token]
  BY <1>2, <1>4 DEF Abandon
<1>6. ASSUME NEW t \in Tokens, answer'[t] # answer[t] PROVE Answering(s, t)
  <2>1. t \in left /\ answer'[t] = IF answer[t] = Forgotten THEN Free ELSE Dropped
    BY <1>6 DEF Abandon
  <2>2. \E n \in Places(s) : At(s, n).token = t
    BY <2>1, CommandTypes
  <2> QED
    BY <2>1, <2>2, ChannelStates DEF Answering
<1> QED
  BY <1>1, <1>3, <1>5, <1>6 DEF Serves

\* A thread answers commands that it has received or leaves behind.
LEMMA OwnerServes ==
  ASSUME OwnerInvariant, DOMAIN answer = Tokens, ChannelsApart,
         NEW s \in Sessions, OwnerStep(s)
  PROVE  Serves(s)
<1>0. /\ DOMAIN inbox = Sessions /\ DOMAIN hand = Sessions
      /\ inbox[s] \in Seq(Commands(CommandKinds))
  BY DEF OwnerInvariant, OwnerTypes
<1>1. CASE OpenFails(s) \/ Finish(s)
  BY <1>1, AbandonServes, ChannelStates, <1>0 DEF OpenFails, Finish, OwnerInvariant
<1>2. ASSUME UNCHANGED <<inbox, answer>>, NEW c, hand' = [hand EXCEPT ![s] = c],
             c.token = None
      PROVE  Serves(s)
  <2>1. \A n \in Places(s)' : At(s, n)'.token # None =>
          n + 0 \in Places(s) /\ At(s, n)' = At(s, n + 0)
    BY <1>0, <1>2 DEF Places, At
  <2> QED
    BY <1>0, <1>2, <2>1, SilentServes
<1>3. ASSUME UNCHANGED inbox, hand' = [hand EXCEPT ![s] = Idle],
             NEW result, result.is \in Answered, Reply(hand[s].token, result)
      PROVE  Serves(s)
  <2>1. \A n \in Places(s)' : At(s, n)'.token # None =>
          n + 0 \in Places(s) /\ n + 0 # 0 /\ At(s, n)' = At(s, n + 0)
    BY <1>0, <1>3, CommandTypes DEF Places, At
  <2>2. 0 \in Places(s) /\ At(s, 0) = hand[s]
    BY CommandTypes
  <2> QED
    BY <1>0, <1>3, <2>1, <2>2, ReplyServes
<1>4. ASSUME inbox[s] # <<>>, inbox' = [inbox EXCEPT ![s] = Tail(@)],
             NEW c, hand' = [hand EXCEPT ![s] = c],
             c.token = None \/ c = Head(inbox[s])
      PROVE  /\ \A n \in Places(s)' : At(s, n)'.token # None =>
                  n + 1 \in Places(s) /\ At(s, n)' = At(s, n + 1)
             /\ c.token = None => \A n \in Places(s)' : At(s, n)'.token # None => n # 0
             /\ 1 \in Places(s) /\ At(s, 1) = Head(inbox[s])
             /\ \A r \in Sessions \ {s} : hand'[r] = hand[r] /\ inbox'[r] = inbox[r]
  <2>1. /\ Len(Tail(inbox[s])) = Len(inbox[s]) - 1
        /\ Len(inbox[s]) \in Nat \ {0}
        /\ Head(inbox[s]) = inbox[s][1]
        /\ \A i \in 1..Len(Tail(inbox[s])) :
             i + 1 \in 1..Len(inbox[s]) /\ Tail(inbox[s])[i] = inbox[s][i + 1]
    BY <1>0, <1>4, QueueHead
  <2>2. 1 \in 1..Len(inbox[s])
    BY <2>1
  <2>3. 1 \in Places(s) /\ At(s, 1) = Head(inbox[s])
    BY <2>1, <2>2, CommandTypes
  <2>4. hand'[s] = c /\ inbox'[s] = Tail(inbox[s])
    BY <1>0, <1>4
  <2>5. ASSUME NEW n \in Places(s)', At(s, n)'.token # None
        PROVE  n + 1 \in Places(s) /\ At(s, n)' = At(s, n + 1)
    <3>1. CASE n = 0
      <4>1. At(s, n)' = c
        BY <3>1, <2>4 DEF At
      <4> QED
        BY <1>4, <2>3, <2>5, <3>1, <4>1
    <3>2. CASE n \in 1..Len(Tail(inbox[s]))
      <4>1. At(s, n)' = Tail(inbox[s])[n]
        BY <3>2, <2>4 DEF At
      <4>2. n + 1 \in 1..Len(inbox[s]) /\ Tail(inbox[s])[n] = inbox[s][n + 1]
        BY <2>1, <3>2
      <4> QED
        BY <4>1, <4>2, CommandTypes
    <3> QED
      BY <2>1, <2>4, <3>1, <3>2 DEF Places
  <2>6. c.token = None => \A n \in Places(s)' : At(s, n)'.token # None => n # 0
    BY <2>4 DEF At
  <2> QED
    BY <1>0, <1>4, <2>3, <2>5, <2>6
<1>5. CASE ReceiveClose(s) \/ ReceiveCancelled(s) \/ Receive(s)
  <2>0. inbox[s] # <<>> /\ inbox' = [inbox EXCEPT ![s] = Tail(@)] /\ hand[s] = Idle
    BY <1>5 DEF ReceiveClose, ReceiveCancelled, Receive, AtLoop
  <2>1. CASE ReceiveClose(s) \/ ReceiveCancelled(s)
    <3>0. hand \in [Sessions -> Commands(CommandKinds \cup {"Regenerate", "Idle"})]
      BY DEF OwnerInvariant, OwnerTypes
    <3>1. hand' = [hand EXCEPT ![s] = Idle] /\ Idle.token = None
      BY <3>0, <2>0, <2>1, CommandTypes DEF ReceiveClose, ReceiveCancelled
    <3>2. CASE ReceiveClose(s)
      BY <1>4, <2>0, <3>1, <3>2, SilentServes DEF ReceiveClose
    <3>3. CASE ReceiveCancelled(s)
      <4>1. /\ \A n \in Places(s)' : At(s, n)'.token # None =>
                 n + 1 \in Places(s) /\ n + 1 # 1 /\ At(s, n)' = At(s, n + 1)
            /\ 1 \in Places(s)
            /\ \A r \in Sessions \ {s} : hand'[r] = hand[r] /\ inbox'[r] = inbox[r]
            /\ Reply(At(s, 1).token, Refusal("Cancelled"))
        <5>1. \A n \in Places(s)' : At(s, n)'.token # None => n + 1 # 1
          <6>1. \A n \in Places(s)' : At(s, n)'.token # None => n # 0
            BY <1>4, <2>0, <3>1
          <6>2. \A n \in Places(s)' : n # 0 => n + 1 # 1
            BY DEF Places
          <6> QED
            BY <6>1, <6>2
        <5> QED
          BY <1>4, <2>0, <3>1, <3>3, <5>1 DEF ReceiveCancelled
      <4> QED
        BY <4>1, ChannelStates, ReplyServes
    <3> QED BY <2>1, <3>2, <3>3
  <2>2. CASE Receive(s)
    <3>1. hand' = [hand EXCEPT ![s] = Head(inbox[s])] /\ answer' = answer
      BY <2>2 DEF Receive
    <3> QED
      BY <1>4, <2>0, <3>1, SilentServes
  <2> QED BY <1>5, <2>1, <2>2
<1>6. CASE Open(s)
  <2>1. \A n \in Places(s)' : n + 0 \in Places(s) /\ At(s, n)' = At(s, n + 0)
    BY <1>6 DEF Open, Places, At
  <2> QED
    BY <1>6, <2>1, SilentServes DEF Open
<1>7. CASE StartRegeneration(s) \/ Regenerated(s) \/ RegenerationFails(s)
  <2>1. Idle.token = None /\ \A i : Regeneration(i).token = None
    BY CommandTypes DEF Regeneration, Command
  <2> QED
    BY <1>2, <1>7, <2>1 DEF StartRegeneration, Regenerated, RegenerationFails, Rest
<1>8. CASE FinishList(s) \/ FinishOpen(s) \/ FinishPrepare(s) \/ DeclineCommit(s)
           \/ Commit(s)
  <2>1. UNCHANGED inbox /\ hand' = [hand EXCEPT ![s] = Idle]
    BY <1>8 DEF FinishList, FinishOpen, FinishPrepare, DeclineCommit, Commit, Rest
  <2>2. \E result : result.is \in Answered /\ Reply(hand[s].token, result)
    <3>1. CASE FinishList(s)
      <4>1. \A result \in Listed : result.is \in Answered
        BY DEF Listed, Answered, Refusal
      <4> QED
        BY <3>1, <4>1 DEF FinishList
    <3>2. CASE FinishOpen(s)
      <4>1. \A result \in Opened(s) : result.is \in Answered
        BY DEF Opened, Answered, Refusal
      <4> QED
        BY <3>2, <4>1 DEF FinishOpen
    <3>3. CASE FinishPrepare(s)
      <4>1. \A d : [is |-> "preview", duplicate |-> d].is \in Answered
        BY DEF Answered
      <4> QED
        BY <3>3, <4>1, ChannelStates DEF FinishPrepare
    <3>4. CASE DeclineCommit(s)
      <4>1. Declined(s).is \in Answered
        BY DEF Declined, Answered, Refusal
      <4> QED
        BY <3>4, <4>1, ChannelStates DEF DeclineCommit
    <3>5. CASE Commit(s)
      <4>1. \A i : [is |-> "imported", image |-> i].is \in Answered
        BY DEF Answered
      <4> QED
        BY <3>5, <4>1 DEF Commit
    <3> QED BY <1>8, <3>1, <3>2, <3>3, <3>4, <3>5
  <2> QED
    BY <1>3, <2>1, <2>2
<1> QED
  BY <1>1, <1>5, <1>6, <1>7, <1>8 DEF OwnerStep

\* The first d timers are gone, and a timers are behind the others.
Turned(new, d, a) ==
  /\ d = 1 => pollers # <<>>
  /\ LET rest == IF d = 0 THEN pollers ELSE Tail(pollers)
     IN pollers' = IF a = 0 THEN rest ELSE Append(rest, new)

\* Where the timers are after such a step.
LEMMA Positions ==
  ASSUME pollers \in Seq(Timers), NEW new, NEW d \in {0, 1}, NEW a \in {0, 1},
         Turned(new, d, a)
  PROVE  /\ Len(pollers) \in Nat /\ Len(pollers') \in Nat
         /\ Len(pollers') = Len(pollers) - d + a
         /\ \A i \in 1..Len(pollers') :
              \/ i + d \in 1..Len(pollers) /\ pollers'[i] = pollers[i + d]
              \/ a = 1 /\ i = Len(pollers') /\ pollers'[i] = new
         /\ \A i \in 1..Len(pollers) :
              i > d => i - d \in 1..Len(pollers') /\ pollers'[i - d] = pollers[i]
         /\ a = 1 => Len(pollers') \in 1..Len(pollers') /\ pollers'[Len(pollers')] = new
<1> DEFINE T == Timers \cup {new}
           rest == IF d = 0 THEN pollers ELSE Tail(pollers)
<1>1. pollers \in Seq(T) /\ Len(pollers) \in Nat
  OBVIOUS
<1> HIDE DEF T
<1>2. /\ rest \in Seq(T) /\ Len(rest) = Len(pollers) - d /\ Len(rest) \in Nat
      /\ \A i \in 1..Len(rest) : i + d \in 1..Len(pollers) /\ rest[i] = pollers[i + d]
  <2>1. CASE d = 0
    BY <1>1, <2>1
  <2>2. CASE d = 1
    <3>1. pollers # <<>>
      BY <2>2 DEF Turned
    <3> QED
      BY <1>1, <2>2, <3>1, QueueHead
  <2> QED BY <2>1, <2>2
<1>3. new \in T /\ pollers' = IF a = 0 THEN rest ELSE Append(rest, new)
  BY DEF Turned, T
<1> HIDE DEF rest
<1>4. \A i \in 1..Len(pollers) : i > d => i - d \in 1..Len(rest) /\ (i - d) + d = i
  BY <1>1, <1>2
<1>5. CASE a = 0
  BY <1>1, <1>2, <1>3, <1>4, <1>5
<1>6. CASE a = 1
  <2>1. /\ pollers' = Append(rest, new) /\ Len(pollers') = Len(rest) + 1
        /\ pollers'[Len(rest) + 1] = new
        /\ \A i \in 1..Len(rest) : pollers'[i] = rest[i]
    BY <1>2, <1>3, <1>6
  <2>2. Len(pollers') = Len(pollers) - d + a /\ Len(pollers') \in Nat \ {0}
    BY <1>1, <1>2, <1>6, <2>1
  <2>3. ASSUME NEW i \in 1..Len(pollers')
        PROVE  \/ i + d \in 1..Len(pollers) /\ pollers'[i] = pollers[i + d]
               \/ i = Len(pollers') /\ pollers'[i] = new
    <3>1. i \in 1..Len(rest) \/ i = Len(rest) + 1
      BY <1>2, <2>1
    <3> QED
      BY <1>2, <2>1, <3>1
  <2>4. ASSUME NEW i \in 1..Len(pollers), i > d
        PROVE  i - d \in 1..Len(pollers') /\ pollers'[i - d] = pollers[i]
    <3>1. i - d \in 1..Len(rest) /\ (i - d) + d = i
      BY <1>4, <2>4
    <3>2. pollers'[i - d] = rest[i - d] /\ rest[i - d] = pollers[i]
      BY <1>2, <2>1, <3>1
    <3>3. i - d \in 1..Len(pollers')
      BY <1>2, <2>1, <3>1
    <3> QED
      BY <3>2, <3>3
  <2> QED
    BY <1>1, <1>6, <2>1, <2>2, <2>3, <2>4
<1> QED
  BY <1>5, <1>6

\* A timer of the list is sound.
LEMMA TimerSoundAt ==
  ASSUME DesktopSound, NEW i \in 1..Len(pollers)
  PROVE  /\ SoundTimer(pollers[i])
         /\ Polls(pollers[i]) => pollers[i].token \in Tokens
         /\ pollers[i].kind = "list" =>
              Polls(pollers[i]) /\ pollers[i].session \in Sessions
                /\ phase[pollers[i].session] # "unborn"
<1>1. SoundTimer(pollers[i])
  BY DEF DesktopSound, Timers
<1> QED
  BY <1>1 DEF SoundTimer, Polls

\* A step of a thread: no command and no timer loses its channel.
LEMMA OwnerChannels ==
  ASSUME OwnerInvariant, DOMAIN answer = Tokens, DesktopSound,
         ChannelsApart, PollersApart, ListPollersAsk,
         NEW s \in Sessions, OwnerStep(s), pollers' = pollers
  PROVE  ChannelsApart' /\ PollersApart' /\ ListPollersAsk'
<1>0. Serves(s)
  BY OwnerServes
<1>1. PICK d \in {0, 1} : \A n \in Places(s)' : At(s, n)'.token # None =>
                            n + d \in Places(s) /\ At(s, n)' = At(s, n + d)
  BY <1>0 DEF Serves, Kept
<1> DEFINE old(r, n) == IF r = s THEN n + d ELSE n
<1>2. ASSUME NEW r \in Sessions, NEW n \in Places(r)', At(r, n)'.token # None
      PROVE  /\ old(r, n) \in Places(r) /\ At(r, n)' = At(r, old(r, n))
             /\ answer'[At(r, n)'.token] = answer[At(r, n)'.token]
  <2>1. CASE r = s
    BY <1>0, <1>1, <1>2, <2>1 DEF Serves
  <2>2. CASE r # s
    <3>1. n \in Places(r) /\ At(r, n)' = At(r, n) /\ At(r, n).token # None
      BY <1>0, <1>2, <2>2 DEF Serves, Places, At
    <3>2. At(r, n).token \in Tokens
      BY <3>1, CommandTypes
    <3>3. ~Answering(s, At(r, n).token)
      BY <2>2, <3>1 DEF Answering, ChannelsApart
    <3> QED
      BY <1>0, <2>2, <3>1, <3>2, <3>3 DEF Serves
  <2> QED BY <2>1, <2>2
<1>3. ChannelsApart'
  <2> SUFFICES ASSUME NEW r \in Sessions, NEW n \in Places(r)', At(r, n)'.token # None
               PROVE  /\ answer'[At(r, n)'.token] \in {Waiting, Forgotten}
                      /\ \A q \in Sessions : \A m \in Places(q)' :
                           At(q, m)'.token = At(r, n)'.token => q = r /\ m = n
    BY DEF ChannelsApart, Waiting, Forgotten
  <2>1. /\ old(r, n) \in Places(r) /\ At(r, n)' = At(r, old(r, n))
        /\ answer'[At(r, n)'.token] = answer[At(r, n)'.token]
    BY <1>2
  <2>2. ASSUME NEW q \in Sessions, NEW m \in Places(q)', At(q, m)'.token = At(r, n)'.token
        PROVE  q = r /\ m = n
    <3>1. old(q, m) \in Places(q) /\ At(q, m)' = At(q, old(q, m))
      BY <1>2, <2>2
    <3>2. q = r /\ old(q, m) = old(r, n)
      BY <2>1, <2>2, <3>1 DEF ChannelsApart
    <3>3. m \in Int /\ n \in Int
      BY DEF Places
    <3> QED
      BY <3>2, <3>3
  <2> HIDE DEF old
  <2> QED
    BY <2>1, <2>2 DEF ChannelsApart
<1>4. ASSUME NEW i \in 1..Len(pollers), Polls(pollers[i])
      PROVE  answer'[pollers[i].token] \notin {Free, Forgotten}
  <2>1. pollers[i].token \in Tokens /\ answer[pollers[i].token] \notin {Free, Forgotten}
    BY <1>4, TimerSoundAt DEF PollersApart
  <2>2. CASE answer'[pollers[i].token] = answer[pollers[i].token]
    BY <2>1, <2>2
  <2>3. CASE Answering(s, pollers[i].token)
    BY <2>1, <2>3, ChannelStates DEF Answering
  <2> QED
    BY <1>0, <2>1, <2>2, <2>3 DEF Serves
<1>5. PollersApart'
  BY <1>4 DEF PollersApart, Free, Forgotten
<1>6. phase'[s] # "opening" /\ \A r \in Sessions \ {s} : phase'[r] = phase[r]
  BY DEF OwnerInvariant, OwnerTypes, OwnerStep, OpenFails, Open, ReceiveClose,
         ReceiveCancelled, Receive, AtLoop, StartRegeneration, FinishList, FinishOpen,
         FinishPrepare, DeclineCommit, Commit, Regenerated, RegenerationFails, Working,
         Finish
<1>7. ASSUME NEW i \in 1..Len(pollers), pollers[i].kind = "list"
      PROVE  ListPoller(pollers[i])'
  <2> DEFINE p == pollers[i]
  <2>1. ListPoller(p) /\ p.session \in Sessions /\ p.token \in Tokens
    BY <1>7, TimerSoundAt DEF ListPollersAsk
  <2>2. ASSUME NEW r \in Sessions, NEW n \in Places(r)', At(r, n)'.token = p.token
        PROVE  r = p.session /\ At(r, n)'.kind = "ListGallery"
    <3>1. At(r, n)'.token # None
      BY <2>1, <2>2, CommandTypes
    <3> HIDE DEF old
    <3> QED
      BY <1>2, <2>1, <2>2, <3>1 DEF ListPoller
  <2>3. ASSUME phase'[p.session] = "opening" PROVE answer'[p.token] = Waiting
    <3>1. p.session # s /\ phase[p.session] = "opening"
      BY <1>6, <2>1, <2>3
    <3>2. answer[p.token] = Waiting
      BY <2>1, <3>1 DEF ListPoller
    <3>3. ~Answering(s, p.token)
      BY <2>1, <3>1 DEF Answering, ListPoller
    <3> QED
      BY <1>0, <2>1, <3>2, <3>3 DEF Serves
  <2>4. p' = p
    OBVIOUS
  <2> HIDE DEF p
  <2>5. ListPoller(p)'
    BY <2>2, <2>3, <2>4 DEF ListPoller, Waiting
  <2> QED
    BY <2>5 DEF p
<1>8. ListPollersAsk'
  BY <1>7 DEF ListPollersAsk
<1> QED
  BY <1>3, <1>5, <1>8

\* A step of the window that sends nothing: a timer may be over, or wait again.
LEMMA WindowChannels ==
  ASSUME DesktopSound, ChannelsApart, PollersApart, ListPollersAsk,
         NEW new, NEW d \in {0, 1}, NEW a \in {0, 1}, Turned(new, d, a),
         a = 1 /\ Polls(new) => d = 1 /\ new = pollers[1],
         \A r \in Sessions : \A n \in Places(r)' : At(r, n)'.token # None =>
           /\ n \in Places(r) /\ At(r, n)' = At(r, n)
           /\ answer'[At(r, n).token] \in {Waiting, Forgotten},
         \A i \in 1..Len(pollers) : Polls(pollers[i]) /\ (a = 1 \/ i > d) =>
           answer'[pollers[i].token] = answer[pollers[i].token],
         \A r \in Sessions : phase[r] # "unborn" /\ phase'[r] = "opening" =>
           phase[r] = "opening"
  PROVE  ChannelsApart' /\ PollersApart' /\ ListPollersAsk'
<1>0. pollers \in Seq(Timers)
  BY DEF DesktopSound
<1>1. ChannelsApart'
  <2> SUFFICES ASSUME NEW r \in Sessions, NEW n \in Places(r)', At(r, n)'.token # None
               PROVE  /\ answer'[At(r, n)'.token] \in {Waiting, Forgotten}
                      /\ \A q \in Sessions : \A m \in Places(q)' :
                           At(q, m)'.token = At(r, n)'.token => q = r /\ m = n
    BY DEF ChannelsApart, Waiting, Forgotten
  <2> QED
    BY DEF ChannelsApart
<1> DEFINE old(i) == IF i + d \in 1..Len(pollers) THEN i + d ELSE 1
<1>2. ASSUME NEW i \in 1..Len(pollers'), Polls(pollers'[i])
      PROVE  /\ old(i) \in 1..Len(pollers) /\ pollers'[i] = pollers[old(i)]
             /\ a = 1 \/ old(i) > d
  <2>1. Len(pollers) \in Nat
    BY <1>0, Positions
  <2>2. CASE i + d \in 1..Len(pollers) /\ pollers'[i] = pollers[i + d]
    BY <2>1, <2>2
  <2>3. CASE ~(i + d \in 1..Len(pollers)) /\ a = 1 /\ pollers'[i] = new
    <3>1. d = 1 /\ new = pollers[1] /\ pollers # <<>>
      BY <1>2, <2>3 DEF Turned
    <3>2. 1 \in 1..Len(pollers)
      BY <1>0, <3>1
    <3> QED
      BY <2>3, <3>1, <3>2
  <2>4. CASE i + d \in 1..Len(pollers) /\ pollers'[i] # pollers[i + d]
    <3>1. a = 1 /\ i = Len(pollers') /\ Len(pollers') = Len(pollers) - d + a
      BY <1>0, <2>4, Positions
    <3>2. FALSE
      BY <2>1, <2>4, <3>1
    <3> QED BY <3>2
  <2>5. ~(i + d \in 1..Len(pollers)) => a = 1 /\ pollers'[i] = new
    BY <1>0, Positions
  <2> QED
    BY <2>2, <2>3, <2>4, <2>5
<1>3. ASSUME NEW i \in 1..Len(pollers'), NEW j \in 1..Len(pollers'),
             Polls(pollers'[i]), Polls(pollers'[j]), old(i) = old(j)
      PROVE  i = j
  <2>1. /\ Len(pollers) \in Nat /\ Len(pollers') = Len(pollers) - d + a
    BY <1>0, Positions
  <2>2. \A k \in 1..Len(pollers') : ~(k + d \in 1..Len(pollers)) => k = Len(pollers')
    BY <2>1
  <2>3. \A k \in 1..Len(pollers') : ~(k + d \in 1..Len(pollers)) /\ Polls(pollers'[k]) => d = 1
    <3> SUFFICES ASSUME NEW k \in 1..Len(pollers'), ~(k + d \in 1..Len(pollers)),
                        Polls(pollers'[k])
                 PROVE  d = 1
      OBVIOUS
    <3>1. a = 1 /\ pollers'[k] = new
      BY <1>0, Positions
    <3> QED
      BY <3>1
  <2>4. CASE i + d \in 1..Len(pollers) /\ j + d \in 1..Len(pollers)
    BY <1>3, <2>4
  <2>5. CASE ~(i + d \in 1..Len(pollers)) /\ ~(j + d \in 1..Len(pollers))
    BY <2>2, <2>5
  <2>6. CASE (i + d \in 1..Len(pollers)) /\ ~(j + d \in 1..Len(pollers))
    <3>1. d = 1 /\ i + d = 1
      BY <1>3, <2>3, <2>6
    <3> QED BY <3>1
  <2>7. CASE ~(i + d \in 1..Len(pollers)) /\ (j + d \in 1..Len(pollers))
    <3>1. d = 1 /\ j + d = 1
      BY <1>3, <2>3, <2>7
    <3> QED BY <3>1
  <2> QED BY <2>4, <2>5, <2>6, <2>7
<1> HIDE DEF old
<1>4. PollersApart'
  <2> SUFFICES ASSUME NEW i \in 1..Len(pollers'), Polls(pollers'[i])
               PROVE  /\ answer'[pollers'[i].token] \notin {Free, Forgotten}
                      /\ \A j \in 1..Len(pollers') :
                           Polls(pollers'[j]) /\ pollers'[j].token = pollers'[i].token
                             => i = j
    BY DEF PollersApart, Free, Forgotten, Polls
  <2> QED
    BY <1>2, <1>3 DEF PollersApart
<1>5. ASSUME NEW i \in 1..Len(pollers'), pollers'[i].kind = "list"
      PROVE  ListPoller(pollers[i])'
  <2> DEFINE p == pollers[old(i)]
  <2>0. Polls(pollers'[i])
    BY <1>5 DEF Polls
  <2>1. /\ old(i) \in 1..Len(pollers) /\ pollers'[i] = p
        /\ answer'[p.token] = answer[p.token]
    BY <1>2, <2>0
  <2>2. ListPoller(p) /\ p.session \in Sessions /\ p.token \in Tokens
        /\ phase[p.session] # "unborn"
    BY <1>5, <2>1, TimerSoundAt DEF ListPollersAsk
  <2>3. p.token # None
    BY <2>2, Bounds DEF Tokens
  <2> HIDE DEF p
  <2>4. ASSUME NEW q, q = p, q = pollers'[i] PROVE ListPoller(pollers[i])'
    <3>1. \A r \in Sessions : \A n \in Places(r)' :
            At(r, n)'.token = q.token => r = q.session /\ At(r, n)'.kind = "ListGallery"
      BY <2>2, <2>3, <2>4 DEF ListPoller
    <3>2. phase'[q.session] = "opening" => answer'[q.token] = Waiting
      BY <2>1, <2>2, <2>4 DEF ListPoller
    <3> QED
      BY <2>4, <3>1, <3>2 DEF ListPoller, Waiting
  <2> QED
    BY <2>1, <2>4
<1>6. ListPollersAsk'
  BY <1>5 DEF ListPollersAsk
<1> QED
  BY <1>1, <1>4, <1>6

\* A channel that is not in use has no timer.
LEMMA FreeChannel ==
  ASSUME DesktopSound, PollersApart, NEW t \in Tokens, Fresh(t)
  PROVE  \A i \in 1..Len(pollers) : Polls(pollers[i]) => pollers[i].token # t
BY DEF PollersApart, Fresh

\* A command is sent: it has a channel that no command and no other timer has, and a
\* timer for it.
LEMMA SendChannels ==
  ASSUME OwnerInvariant, DOMAIN answer = Tokens, DesktopSound,
         ChannelsApart, PollersApart, ListPollersAsk,
         NEW s \in Sessions, NEW t \in Tokens, NEW c, c.token = t, Send(s, c),
         NEW new, NEW d \in {0, 1}, Turned(new, d, 1), new.token = t,
         new.kind = "list" => new.session = s /\ c.kind = "ListGallery",
         \A i \in 1..Len(pollers) : i > d /\ Polls(pollers[i]) => pollers[i].token # t
  PROVE  ChannelsApart' /\ PollersApart' /\ ListPollersAsk'
<1>0. /\ pollers \in Seq(Timers)
      /\ inbox \in [Sessions -> Seq(Commands(CommandKinds))]
      /\ t # None
  BY Bounds DEF DesktopSound, OwnerInvariant, OwnerTypes, Tokens
<1>1. /\ answer[t] \notin {Waiting, Forgotten} /\ answer'[t] = Waiting
      /\ \A u \in Tokens \ {t} : answer'[u] = answer[u]
      /\ inbox' = [inbox EXCEPT ![s] = Append(@, c)]
      /\ UNCHANGED <<phase, hand>>
  BY ChannelStates DEF Send, Vacant
<1>2. ASSUME NEW r \in Sessions, NEW n \in Places(r)', At(r, n)'.token # None,
             ~(r = s /\ n = Len(inbox[s]) + 1)
      PROVE  /\ n \in Places(r) /\ At(r, n)' = At(r, n)
             /\ At(r, n).token \in Tokens \ {t}
             /\ answer'[At(r, n).token] \in {Waiting, Forgotten}
  <2>1. n \in Places(r) /\ At(r, n)' = At(r, n)
    <3>1. CASE r # s
      BY <1>0, <1>1, <3>1 DEF Places, At
    <3>2. CASE r = s
      <4>1. inbox'[s] = Append(inbox[s], c) /\ Len(inbox[s]) \in Nat
        BY <1>0, <1>1
      <4>2. Len(Append(inbox[s], c)) = Len(inbox[s]) + 1
            /\ \A k \in 1..Len(inbox[s]) : Append(inbox[s], c)[k] = inbox[s][k]
        BY <1>0
      <4> QED
        BY <1>1, <1>2, <3>2, <4>1, <4>2 DEF Places, At
    <3> QED BY <3>1, <3>2
  <2>2. At(r, n).token \in Tokens /\ answer[At(r, n).token] \in {Waiting, Forgotten}
    BY <1>2, <2>1, CommandTypes DEF ChannelsApart
  <2>3. At(r, n).token # t
    BY <1>1, <2>2, ChannelStates
  <2> QED
    BY <1>1, <2>1, <2>2, <2>3
<1>3. ASSUME NEW n \in Places(s)', n = Len(inbox[s]) + 1
      PROVE  At(s, n)' = c
  <2>1. inbox'[s] = Append(inbox[s], c) /\ Len(inbox[s]) \in Nat
    BY <1>0, <1>1
  <2>2. Append(inbox[s], c)[Len(inbox[s]) + 1] = c
    BY <1>0
  <2>3. n # 0
    BY <1>3, <2>1
  <2> QED
    BY <1>3, <2>1, <2>2, <2>3 DEF At
<1>4. ChannelsApart'
  <2> SUFFICES ASSUME NEW r \in Sessions, NEW n \in Places(r)', At(r, n)'.token # None
               PROVE  /\ answer'[At(r, n)'.token] \in {Waiting, Forgotten}
                      /\ \A q \in Sessions : \A m \in Places(q)' :
                           At(q, m)'.token = At(r, n)'.token => q = r /\ m = n
    BY DEF ChannelsApart, Waiting, Forgotten
  <2>1. CASE r = s /\ n = Len(inbox[s]) + 1
    BY <1>0, <1>1, <1>2, <1>3, <2>1
  <2>2. CASE ~(r = s /\ n = Len(inbox[s]) + 1)
    <3>1. /\ n \in Places(r) /\ At(r, n)' = At(r, n) /\ At(r, n).token \in Tokens \ {t}
          /\ answer'[At(r, n).token] \in {Waiting, Forgotten}
      BY <1>2, <2>2
    <3>2. ASSUME NEW q \in Sessions, NEW m \in Places(q)',
                 At(q, m)'.token = At(r, n)'.token
          PROVE  q = r /\ m = n
      <4>1. ~(q = s /\ m = Len(inbox[s]) + 1)
        BY <1>3, <3>1, <3>2
      <4>2. m \in Places(q) /\ At(q, m)' = At(q, m)
        BY <1>2, <3>2, <4>1
      <4> QED
        BY <3>1, <3>2, <4>2 DEF ChannelsApart
    <3> QED
      BY <3>1, <3>2
  <2> QED BY <2>1, <2>2
<1>5. ASSUME NEW i \in 1..Len(pollers), Polls(pollers[i]), i > d
      PROVE  /\ pollers[i].token \in Tokens \ {t}
             /\ answer'[pollers[i].token] = answer[pollers[i].token]
             /\ answer[pollers[i].token] \notin {Free, Forgotten}
  <2>1. pollers[i].token \in Tokens /\ answer[pollers[i].token] \notin {Free, Forgotten}
    BY <1>5, TimerSoundAt DEF PollersApart
  <2>2. pollers[i].token # t
    BY <1>5
  <2> QED
    BY <1>1, <2>1, <2>2
<1>6. /\ Len(pollers) \in Nat /\ Len(pollers') \in Nat
      /\ \A i \in 1..Len(pollers') :
           \/ i + d \in 1..Len(pollers) /\ i + d > d /\ pollers'[i] = pollers[i + d]
           \/ i = Len(pollers') /\ pollers'[i] = new
  BY <1>0, Positions
<1>7. PollersApart'
  <2> SUFFICES ASSUME NEW i \in 1..Len(pollers'), Polls(pollers'[i])
               PROVE  /\ answer'[pollers'[i].token] \notin {Free, Forgotten}
                      /\ \A j \in 1..Len(pollers') :
                           Polls(pollers'[j]) /\ pollers'[j].token = pollers'[i].token
                             => i = j
    BY DEF PollersApart, Free, Forgotten, Polls
  <2>1. answer'[pollers'[i].token] \notin {Free, Forgotten}
    BY <1>1, <1>5, <1>6, ChannelStates
  <2>2. ASSUME NEW j \in 1..Len(pollers'), Polls(pollers'[j]),
               pollers'[j].token = pollers'[i].token
        PROVE  i = j
    <3>1. CASE pollers'[i] = new
      <4>1. ~(j + d \in 1..Len(pollers) /\ j + d > d /\ pollers'[j] = pollers[j + d])
        BY <1>5, <2>2, <3>1
      <4>2. ~(i + d \in 1..Len(pollers) /\ i + d > d /\ pollers'[i] = pollers[i + d])
        BY <1>5, <3>1
      <4> QED
        BY <1>6, <4>1, <4>2
    <3>2. CASE i + d \in 1..Len(pollers) /\ i + d > d /\ pollers'[i] = pollers[i + d]
      <4>1. pollers'[j] # new
        BY <1>5, <2>2, <3>2
      <4>2. j + d \in 1..Len(pollers) /\ j + d > d /\ pollers'[j] = pollers[j + d]
        BY <1>6, <4>1
      <4>3. i + d = j + d
        BY <2>2, <3>2, <4>2 DEF PollersApart
      <4> QED
        BY <4>3
    <3> QED BY <1>6, <3>1, <3>2
  <2> QED
    BY <2>1, <2>2
<1>8. ASSUME NEW i \in 1..Len(pollers'), pollers'[i].kind = "list"
      PROVE  ListPoller(pollers[i])'
  <2>1. PICK p : p = pollers'[i]
    OBVIOUS
  <2>2. CASE p = new
    <3>1. \A r \in Sessions : \A n \in Places(r)' :
            At(r, n)'.token = p.token => r = p.session /\ At(r, n)'.kind = "ListGallery"
      BY <1>0, <1>2, <1>3, <1>8, <2>1, <2>2
    <3>2. answer'[p.token] = Waiting
      BY <1>1, <2>2
    <3> QED
      BY <2>1, <3>1, <3>2 DEF ListPoller, Waiting
  <2>3. CASE i + d \in 1..Len(pollers) /\ i + d > d /\ p = pollers[i + d]
    <3>1. ListPoller(p) /\ p.token \in Tokens \ {t} /\ answer'[p.token] = answer[p.token]
      BY <1>5, <1>8, <2>1, <2>3, TimerSoundAt DEF ListPollersAsk
    <3>2. \A r \in Sessions : \A n \in Places(r)' :
            At(r, n)'.token = p.token => r = p.session /\ At(r, n)'.kind = "ListGallery"
      <4> SUFFICES ASSUME NEW r \in Sessions, NEW n \in Places(r)',
                          At(r, n)'.token = p.token
                   PROVE  r = p.session /\ At(r, n)'.kind = "ListGallery"
        OBVIOUS
      <4>1. p.token # None
        BY <3>1, CommandTypes
      <4>2. ~(r = s /\ n = Len(inbox[s]) + 1)
        BY <1>3, <3>1
      <4>3. n \in Places(r) /\ At(r, n)' = At(r, n)
        BY <1>2, <4>1, <4>2
      <4> QED
        BY <3>1, <4>3 DEF ListPoller
    <3>3. phase'[p.session] = "opening" => answer'[p.token] = Waiting
      BY <1>1, <3>1 DEF ListPoller
    <3> QED
      BY <2>1, <3>2, <3>3 DEF ListPoller, Waiting
  <2> QED BY <1>6, <2>1, <2>2, <2>3
<1>9. ListPollersAsk'
  BY <1>8 DEF ListPollersAsk
<1> QED
  BY <1>4, <1>7, <1>9

\* What the window does to the commands of a session but for sending: the Close
\* that it may add asks for no answer.
LEMMA InterfaceCommands ==
  ASSUME OwnerInvariant, NEW s \in Sessions,
         \/ TakeReady(s) \/ \E keep \in BOOLEAN : Revoke(s, keep)
         \/ \E previous \in Sessions \cup {None} : Begin(s, previous)
  PROVE  /\ answer' = answer
         /\ \A r \in Sessions : \A n \in Places(r)' : At(r, n)'.token # None =>
              n \in Places(r) /\ At(r, n)' = At(r, n)
         /\ \A r \in Sessions : phase[r] # "unborn" /\ phase'[r] = "opening" =>
              phase[r] = "opening"
<1>1. answer' = answer /\ hand' = hand
  BY DEF TakeReady, Revoke, Begin
<1>2. \A r \in Sessions : inbox'[r] \in {inbox[r], Append(inbox[r], Close)}
  BY DEF TakeReady, Revoke, Begin, Ending, OwnerInvariant, OwnerTypes
<1>3. ASSUME NEW r \in Sessions, NEW n \in Places(r)', At(r, n)'.token # None
      PROVE  n \in Places(r) /\ At(r, n)' = At(r, n)
  <2>1. CASE inbox'[r] = inbox[r]
    BY <1>1, <2>1 DEF Places, At
  <2>2. CASE inbox'[r] = Append(inbox[r], Close)
    <3>1. /\ Len(inbox[r]) \in Nat /\ Len(inbox'[r]) = Len(inbox[r]) + 1
          /\ inbox'[r][Len(inbox[r]) + 1] = Close
          /\ \A k \in 1..Len(inbox[r]) : inbox'[r][k] = inbox[r][k]
      <4>1. inbox[r] \in Seq(Commands(CommandKinds)) /\ Close \in Commands(CommandKinds)
        BY IdleCommand DEF OwnerInvariant, OwnerTypes
      <4> QED
        BY <2>2, <4>1
    <3>2. n # Len(inbox[r]) + 1
      BY <1>3, <3>1, CommandTypes DEF At
    <3> QED
      BY <1>1, <3>1, <3>2 DEF Places, At
  <2> QED BY <1>2, <2>1, <2>2
<1>4. ASSUME NEW r \in Sessions, phase[r] # "unborn", phase'[r] = "opening"
      PROVE  phase[r] = "opening"
  BY <1>4 DEF TakeReady, Revoke, Begin, OwnerInvariant, OwnerTypes
<1> QED
  BY <1>1, <1>3, <1>4

\* A step of the window without an answer and without a new channel.
LEMMA QuietChannels ==
  ASSUME OwnerInvariant, DesktopSound, ChannelsApart, PollersApart, ListPollersAsk,
         NEW new, NEW d \in {0, 1}, NEW a \in {0, 1}, Turned(new, d, a),
         a = 1 /\ Polls(new) => d = 1 /\ new = pollers[1],
         \/ UNCHANGED ownerVars
         \/ \E s \in Sessions :
              \/ TakeReady(s) \/ \E keep \in BOOLEAN : Revoke(s, keep)
              \/ \E previous \in Sessions \cup {None} : Begin(s, previous)
  PROVE  ChannelsApart' /\ PollersApart' /\ ListPollersAsk'
<1>1. /\ answer' = answer
      /\ \A r \in Sessions : \A n \in Places(r)' : At(r, n)'.token # None =>
           n \in Places(r) /\ At(r, n)' = At(r, n)
      /\ \A r \in Sessions : phase[r] # "unborn" /\ phase'[r] = "opening" =>
           phase[r] = "opening"
  <2>1. CASE UNCHANGED ownerVars
    BY <2>1 DEF ownerVars, threadVars, Places, At
  <2> QED
    BY <2>1, InterfaceCommands
<1>2. \A r \in Sessions : \A n \in Places(r)' : At(r, n)'.token # None =>
        answer'[At(r, n).token] \in {Waiting, Forgotten}
  BY <1>1 DEF ChannelsApart
<1> QED
  BY <1>1, <1>2, WindowChannels

\* A timer receives its answer, or gives its channel up.
LEMMA CollectChannels ==
  ASSUME OwnerInvariant, DOMAIN answer = Tokens, DesktopSound,
         ChannelsApart, PollersApart, ListPollersAsk,
         Turn, Polls(Now), Stop, Collect(Now.token) \/ Forget(Now.token)
  PROVE  ChannelsApart' /\ PollersApart' /\ ListPollersAsk'
<1>0. pollers \in Seq(Timers) /\ pollers # <<>>
  BY DEF DesktopSound, Turn
<1>1. Now = pollers[1] /\ 1 \in 1..Len(pollers) /\ Now.token \in Tokens
  <2>1. Now = pollers[1] /\ 1 \in 1..Len(pollers)
    BY <1>0, QueueHead DEF Now
  <2> QED
    BY <2>1, TimerSoundAt
<1>2. Turned(Now, 1, 0)
  BY <1>0 DEF Turned, Stop
<1>3. UNCHANGED <<inbox, hand, phase>>
      /\ \A u \in Tokens \ {Now.token} : answer'[u] = answer[u]
  BY DEF Collect, Forget, threadVars
<1>4. ASSUME NEW r \in Sessions, NEW n \in Places(r)', At(r, n)'.token # None
      PROVE  /\ n \in Places(r) /\ At(r, n)' = At(r, n)
             /\ answer'[At(r, n).token] \in {Waiting, Forgotten}
  <2>1. n \in Places(r) /\ At(r, n)' = At(r, n)
    BY <1>3 DEF Places, At
  <2>2. At(r, n).token \in Tokens /\ answer[At(r, n).token] \in {Waiting, Forgotten}
    BY <1>4, <2>1, CommandTypes DEF ChannelsApart
  <2>3. CASE At(r, n).token = Now.token
    <3>1. answer[Now.token] = Waiting
      BY <1>1, <2>2, <2>3 DEF PollersApart
    <3>2. Forget(Now.token)
      BY <3>1, ChannelStates DEF Collect
    <3> QED
      BY <1>1, <2>1, <2>3, <3>1, <3>2 DEF Forget
  <2>4. CASE At(r, n).token # Now.token
    BY <1>3, <2>1, <2>2, <2>4
  <2> QED BY <2>3, <2>4
<1>5. ASSUME NEW i \in 1..Len(pollers), Polls(pollers[i]), i > 1
      PROVE  answer'[pollers[i].token] = answer[pollers[i].token]
  <2>1. pollers[i].token # Now.token
    BY <1>1, <1>5 DEF PollersApart
  <2> QED
    BY <1>3, <1>5, <2>1, TimerSoundAt
<1> QED
  BY <1>2, <1>3, <1>4, <1>5, WindowChannels

\* What a user does keeps the channels apart.
LEMMA UserChannels ==
  ASSUME OwnerInvariant, DOMAIN answer = Tokens, DesktopSound, TilesPresent,
         ChannelsApart, PollersApart, ListPollersAsk, User
  PROVE  ChannelsApart' /\ PollersApart' /\ ListPollersAsk'
<1>0. slot \in Sessions \cup {None} /\ active \in Imports \cup {None}
  BY DEF DesktopSound
<1> DEFINE any == Poller("ready", None, None, None)
<1>1. ~Polls(any)
  BY DEF Polls, Poller
<1> HIDE DEF any
<1>2. ASSUME pollers' = pollers,
             UNCHANGED ownerVars \/ \E s \in Sessions, keep \in BOOLEAN : Revoke(s, keep)
      PROVE  ChannelsApart' /\ PollersApart' /\ ListPollersAsk'
  <2>1. Turned(any, 0, 0)
    BY <1>2 DEF Turned
  <2> QED
    BY <1>2, <2>1, QuietChannels
<1>3. ASSUME NEW new, StartPoller(new), ~Polls(new),
             \/ UNCHANGED ownerVars
             \/ \E s \in Sessions :
                  \/ \E keep \in BOOLEAN : Revoke(s, keep)
                  \/ \E previous \in Sessions \cup {None} : Begin(s, previous)
      PROVE  ChannelsApart' /\ PollersApart' /\ ListPollersAsk'
  <2>1. Turned(new, 0, 1)
    BY <1>3 DEF Turned, StartPoller
  <2> QED
    BY <1>3, <2>1, QuietChannels
<1>4. ASSUME NEW t \in Tokens, Fresh(t), NEW c, c.token = t, slot # None, Send(slot, c),
             NEW new, StartPoller(new), new.token = t, new.kind # "list"
      PROVE  ChannelsApart' /\ PollersApart' /\ ListPollersAsk'
  <2>1. Turned(new, 0, 1)
    BY <1>4 DEF Turned, StartPoller
  <2>2. \A i \in 1..Len(pollers) : Polls(pollers[i]) => pollers[i].token # t
    BY <1>4, FreeChannel
  <2> QED
    BY <1>0, <1>4, <2>1, <2>2, SendChannels
<1>5. CASE ClickCreatePage \/ ClickBack \/ Navigate
  BY <1>2, <1>5 DEF ClickCreatePage, ClickBack, Navigate
<1>6. CASE Lock
  BY <1>0, <1>2, <1>6 DEF Lock
<1>7. CASE ClickOpen
  <2>1. ~Polls(Poller("ready", None, None, None))
    BY DEF Polls, Poller
  <2> QED
    BY <1>0, <1>3, <1>7, <2>1 DEF ClickOpen
<1>8. CASE ClickChooser
  <2>1. PICK b : AskPortal(b)
    BY <1>8 DEF ClickChooser
  <2>2. ~Polls(Poller("portal", slot, None, b))
    BY DEF Polls, Poller
  <2> QED
    BY <1>3, <2>1, <2>2 DEF AskPortal
<1>9. ASSUME NEW e \in Decisions, ClickDecision(e)
      PROVE  ChannelsApart' /\ PollersApart' /\ ListPollersAsk'
  <2>1. PICK t \in Tokens : /\ Fresh(t) /\ SendCommand(slot, "CommitImport", t, active, e)
                           /\ StartPoller(Poller("commit", slot, t, active))
    BY <1>9 DEF ClickDecision
  <2>2. slot # None /\ Command("CommitImport", t, active, e).token = t
        /\ Poller("commit", slot, t, active).token = t
        /\ Poller("commit", slot, t, active).kind # "list"
    BY <1>9 DEF ClickDecision, Command, Poller
  <2> QED
    BY <1>4, <2>1, <2>2 DEF SendCommand
<1>10. ASSUME NEW i \in Imports, SelectImage(i)
       PROVE  ChannelsApart' /\ PollersApart' /\ ListPollersAsk'
  <2>1. PICK t \in Tokens : /\ Fresh(t) /\ SendCommand(slot, "OpenViewer", t, i, None)
                           /\ StartPoller(Poller("viewer", slot, t, i))
    BY <1>10 DEF SelectImage
  <2>2. slot # None /\ Command("OpenViewer", t, i, None).token = t
        /\ Poller("viewer", slot, t, i).token = t
        /\ Poller("viewer", slot, t, i).kind # "list"
    BY <1>10 DEF SelectImage, Command, Poller
  <2> QED
    BY <1>4, <2>1, <2>2 DEF SendCommand
<1>11. CASE CloseWindow
  <2>1. ~Polls(Poller("shutdown", slot, None, None))
    BY DEF Polls, Poller
  <2> QED
    BY <1>0, <1>2, <1>3, <1>11, <2>1 DEF CloseWindow
<1> QED
  BY <1>5, <1>6, <1>7, <1>8, <1>9, <1>10, <1>11 DEF User

\* And so does every timer.
LEMMA TimerChannels ==
  ASSUME OwnerInvariant, DOMAIN answer = Tokens, DesktopSound,
         ChannelsApart, PollersApart, ListPollersAsk, Timer
  PROVE  ChannelsApart' /\ PollersApart' /\ ListPollersAsk'
<1>0. /\ slot \in Sessions \cup {None} /\ pollers \in Seq(Timers)
      /\ Turn /\ pollers # <<>>
  BY DEF DesktopSound, Turn, Timer, PollReady, FolderChosen, PollPortal, ImageNotChosen,
         ImageChosen, PreparationStale, PreparationAnswered, CommitStale, CommitAnswered,
         ListingAnswered, ViewerAnswered, PollShutdown
<1>1. Now = pollers[1]
  BY <1>0, QueueHead DEF Now
<1>2. ASSUME KeepPolling
      PROVE  ChannelsApart' /\ PollersApart' /\ ListPollersAsk'
  <2>1. Turned(Now, 1, 1)
    BY <1>0, <1>2 DEF Turned, KeepPolling, Again
  <2> QED
    BY <1>1, <1>2, <2>1, QuietChannels DEF KeepPolling
<1>3. ASSUME Stop,
             \/ UNCHANGED ownerVars
             \/ \E s \in Sessions : TakeReady(s) \/ \E keep \in BOOLEAN : Revoke(s, keep)
      PROVE  ChannelsApart' /\ PollersApart' /\ ListPollersAsk'
  <2>1. Turned(Now, 1, 0)
    BY <1>0, <1>3 DEF Turned, Stop
  <2> QED
    BY <1>3, <2>1, QuietChannels
<1>4. CASE PollReady \/ PollShutdown
  BY <1>0, <1>2, <1>3, <1>4 DEF PollReady, PollShutdown
<1>5. CASE FolderChosen \/ ImageNotChosen \/ PollPortal
  BY <1>2, <1>3, <1>5 DEF FolderChosen, ImageNotChosen, PollPortal
<1>6. CASE ImageChosen
  <2>1. CASE Closed(slot)
    BY <1>3, <1>6, <2>1 DEF ImageChosen
  <2>2. CASE ~Closed(slot)
    <3>1. PICK t \in Tokens, f \in Files :
            /\ Fresh(t) /\ SendPrepare(slot, t, f)
            /\ pollers' = Append(Tail(pollers),
                            Poller("prepare", slot, t, Len(source) + 1))
      BY <1>6, <2>2 DEF ImageChosen
    <3>2. slot \in Sessions
      <4>1. SoundTimer(Now)
        BY <1>0, NowIsTimer DEF DesktopSound
      <4> QED
        BY <1>0, <1>6, <4>1 DEF ImageChosen, Generation, SoundTimer, Reveals
    <3>3. Turned(Poller("prepare", slot, t, Len(source) + 1), 1, 1)
      BY <1>0, <3>1 DEF Turned
    <3>4. \A i \in 1..Len(pollers) : Polls(pollers[i]) => pollers[i].token # t
      BY <3>1, FreeChannel
    <3>5. /\ Command("PrepareImport", t, Len(source) + 1, None).token = t
          /\ Poller("prepare", slot, t, Len(source) + 1).token = t
          /\ Poller("prepare", slot, t, Len(source) + 1).kind # "list"
      BY DEF Command, Poller
    <3>6. Send(slot, Command("PrepareImport", t, Len(source) + 1, None))
      BY <3>1 DEF SendPrepare
    <3> QED
      BY <3>2, <3>3, <3>4, <3>5, <3>6, SendChannels
  <2> QED BY <2>1, <2>2
<1>7. CASE PreparationStale \/ PreparationAnswered \/ CommitStale \/ CommitAnswered
           \/ ListingAnswered \/ ViewerAnswered
  <2>1. \/ KeepPolling
        \/ Stop /\ Polls(Now) /\ (Collect(Now.token) \/ Forget(Now.token))
        \/ ListingOpens
    BY <1>7
    DEF PreparationStale, PreparationAnswered, CommitStale, CommitAnswered,
        ListingAnswered, ViewerAnswered, Polls, ListingOpens
  <2>2. CASE ListingOpens
    <3>0. PICK i \in Imports : \E new, c : OpenedBy(i, new, c)
      BY <2>2, OpensByItself
    <3>1. PICK new, c : OpenedBy(i, new, c)
      BY <3>0
    <3>2. Turned(new, 1, 1)
      BY <1>0, <3>1 DEF Turned, OpenedBy
    <3>3. \A j \in 1..Len(pollers) : j > 1 /\ Polls(pollers[j]) => pollers[j].token # Now.token
      <4>1. Len(pollers) \in Nat \ {0} /\ Polls(pollers[1])
        BY <1>0, <1>1, <2>2, QueueHead DEF Polls, ListingOpens, ListingAnswered
      <4>2. 1 \in 1..Len(pollers) /\ \A j \in 1..Len(pollers) : j > 1 => j # 1
        BY <4>1
      <4> QED
        BY <1>1, <4>1, <4>2 DEF PollersApart
    <3> QED
      BY <3>1, <3>2, <3>3, SendChannels DEF OpenedBy
  <2> QED
    BY <1>0, <1>2, <2>1, <2>2, CollectChannels
<1> QED
  BY <1>4, <1>5, <1>6, <1>7 DEF Timer

\* Every step of the application keeps the channels apart.
LEMMA ChannelsKept ==
  ASSUME OwnerInvariant, DesktopSound, TilesPresent,
         ChannelsApart, PollersApart, ListPollersAsk, [Next]_desktopVars
  PROVE  ChannelsApart' /\ PollersApart' /\ ListPollersAsk'
<1>0. DOMAIN answer = Tokens /\ slot \in Sessions \cup {None}
  BY DEF TilesPresent, AnswersPresent, DesktopSound
<1>1. ASSUME UNCHANGED ownerVars, pollers' = pollers
      PROVE  ChannelsApart' /\ PollersApart' /\ ListPollersAsk'
  <2>1. Turned(Poller("ready", None, None, None), 0, 0)
    BY <1>1 DEF Turned
  <2> QED
    BY <1>1, <2>1, QuietChannels
<1>2. CASE GalleryTimer
  <2>1. CASE ClearGallery
    BY <1>1, <2>1 DEF ClearGallery
  <2>2. CASE AskListing
    <3>1. PICK t \in Tokens : /\ Fresh(t) /\ SendCommand(slot, "ListGallery", t, None, None)
                              /\ StartPoller(Poller("list", slot, t, None))
      BY <2>2 DEF AskListing
    <3>5. \A i \in 1..Len(pollers) : Polls(pollers[i]) => pollers[i].token # t
      BY <3>1, FreeChannel
    <3>2. Turned(Poller("list", slot, t, None), 0, 1) /\ slot \in Sessions
      BY <1>0, <2>2, <3>1 DEF Turned, StartPoller, AskListing
    <3>3. /\ Command("ListGallery", t, None, None).token = t
          /\ Command("ListGallery", t, None, None).kind = "ListGallery"
          /\ Poller("list", slot, t, None).token = t
          /\ Poller("list", slot, t, None).session = slot
      BY DEF Command, Poller
    <3>4. Send(slot, Command("ListGallery", t, None, None))
      BY <3>1 DEF SendCommand
    <3> QED
      BY <1>0, <3>2, <3>3, <3>4, <3>5, SendChannels
  <2> QED BY <1>2, <2>1, <2>2 DEF GalleryTimer
<1>3. CASE Broker
  BY <1>1, <1>3 DEF Broker, BrokerAnswers, BrokerVanishes
<1>4. ASSUME NEW s \in Sessions, Owner(s)
      PROVE  ChannelsApart' /\ PollersApart' /\ ListPollersAsk'
  BY <1>0, <1>4, OwnerChannels DEF Owner, uiVars
<1>5. CASE UNCHANGED desktopVars
  BY <1>1, <1>5 DEF desktopVars, uiVars
<1> QED
  BY <1>0, <1>2, <1>3, <1>4, <1>5, UserChannels, TimerChannels DEF Next

-----------------------------------------------------------------------------
(* The gallery. *)

\* A catalog's revision only grows, and the library changes only with the
\* revision of the session that serves.
LEMMA RevisionGrows ==
  ASSUME OwnerInvariant, revision \in [Sessions -> Nat], [OwnerNext]_ownerVars
  PROVE  /\ revision' \in [Sessions -> Nat]
         /\ \A s \in Sessions : revision'[s] >= revision[s]
<1> DEFINE Grows == \/ revision' = revision
                    \/ \E s \in Sessions : revision' = [revision EXCEPT ![s] = @ + 1]
<1>1. ASSUME NEW s \in Sessions, OwnerStep(s) PROVE Grows
  BY <1>1
  DEF OwnerStep, OpenFails, Open, ReceiveClose, ReceiveCancelled, Receive,
      StartRegeneration, FinishList, FinishOpen, FinishPrepare, DeclineCommit, Commit,
      Regenerated, RegenerationFails, Finish, Changed
<1>2. ASSUME NEW s \in Sessions, InterfaceStep(s) PROVE Grows
  BY <1>2 DEF InterfaceStep, Begin, TakeReady, Revoke, SendPrepare, SendCommand, Send
<1>3. ASSUME NEW t \in Tokens, Collect(t) \/ Forget(t) PROVE Grows
  BY <1>3 DEF Collect, Forget, threadVars
<1>4. ASSUME UNCHANGED ownerVars PROVE Grows
  BY <1>4 DEF ownerVars, threadVars
<1> HIDE DEF Grows
<1>5. Grows
  BY <1>1, <1>2, <1>3, <1>4 DEF OwnerNext
<1> QED
  BY <1>5 DEF Grows

\* What a thread does that the gallery can see.
LEMMA OwnerSeen ==
  ASSUME OwnerInvariant, revision \in [Sessions -> Nat],
         NEW s \in Sessions, OwnerStep(s)
  PROVE  /\ cancelled' = cancelled
         /\ library' = library \/ (phase[s] = "serving" /\ revision'[s] = revision[s] + 1)
         /\ phase'[s] # "opening"
         /\ phase'[s] = "serving" => phase[s] \in {"opening", "serving"}
         /\ phase[s] = "opening" => answer' = answer \/ phase'[s] = "ended"
         /\ \A r \in Sessions \ {s} : phase'[r] = phase[r]
<1>1. CASE Commit(s) \/ Regenerated(s)
  BY <1>1 DEF Commit, Regenerated, Changed, Working
<1>2. CASE OpenFails(s) \/ Open(s)
  BY <1>2 DEF OpenFails, Open, storeVars, OwnerInvariant, OwnerTypes
<1>3. CASE ReceiveClose(s) \/ Finish(s)
  BY <1>3 DEF ReceiveClose, AtLoop, Finish, storeVars, OwnerInvariant, OwnerTypes
<1>4. CASE ReceiveCancelled(s) \/ Receive(s) \/ StartRegeneration(s) \/ FinishList(s)
           \/ FinishOpen(s) \/ FinishPrepare(s) \/ DeclineCommit(s)
           \/ RegenerationFails(s)
  BY <1>4
  DEF ReceiveCancelled, Receive, AtLoop, StartRegeneration, FinishList, FinishOpen,
      FinishPrepare, DeclineCommit, RegenerationFails, Working, storeVars
<1> QED
  BY <1>1, <1>2, <1>3, <1>4 DEF OwnerStep

\* A listing is answered with the library as it is.
LEMMA ListingAnswers ==
  ASSUME OwnerInvariant, DOMAIN answer = Tokens, ChannelsApart, "list" \notin Faults,
         NEW s \in Sessions, OwnerStep(s), phase[s] = "serving", ~cancelled[s],
         phase'[s] = "serving",
         NEW n \in Places(s), At(s, n).kind = "ListGallery", At(s, n).token # None,
         answer[At(s, n).token] = Waiting,
         answer'[At(s, n).token] # Waiting
  PROVE  answer'[At(s, n).token] = [is |-> "snapshot", images |-> library]
<1> DEFINE t == At(s, n).token
<1>0. t \in Tokens /\ At(s, 0) = hand[s] /\ 0 \in Places(s)
  BY CommandTypes
<1>1. \A result : Reply(hand[s].token, result) => hand[s].token = t /\ answer'[t] = result
  <2> SUFFICES ASSUME NEW result, Reply(hand[s].token, result)
               PROVE  hand[s].token = t /\ answer'[t] = result
    OBVIOUS
  <2>1. hand[s].token = t
    BY <1>0 DEF Reply
  <2> QED
    BY <1>0, <2>1, ChannelStates DEF Reply
<1>2. hand[s].token = t => hand[s].kind = "ListGallery"
  <2> SUFFICES ASSUME hand[s].token = t PROVE hand[s].kind = "ListGallery"
    OBVIOUS
  <2>1. n = 0
    BY <1>0 DEF ChannelsApart
  <2> QED
    BY <1>0, <2>1
<1>3. CASE FinishList(s)
  <2>1. Listed = {[is |-> "snapshot", images |-> library]}
    BY DEF Listed
  <2> QED
    BY <1>1, <1>3, <2>1 DEF FinishList
<1>4. CASE FinishOpen(s) \/ FinishPrepare(s) \/ DeclineCommit(s) \/ Commit(s)
  <2>1. hand[s].kind # "ListGallery"
    BY <1>4 DEF FinishOpen, FinishPrepare, DeclineCommit, Commit, Working
  <2>2. \E result : Reply(hand[s].token, result)
    BY <1>4 DEF FinishOpen, FinishPrepare, DeclineCommit, Commit
  <2> QED
    BY <1>1, <1>2, <2>1, <2>2
<1>5. CASE OpenFails(s) \/ ReceiveCancelled(s) \/ Finish(s)
  BY <1>5 DEF OpenFails, ReceiveCancelled, Finish
<1>6. CASE Open(s) \/ ReceiveClose(s) \/ Receive(s) \/ StartRegeneration(s)
           \/ Regenerated(s) \/ RegenerationFails(s)
  BY <1>6
  DEF Open, ReceiveClose, Receive, StartRegeneration, Regenerated, RegenerationFails
<1> QED
  BY <1>3, <1>4, <1>5, <1>6 DEF OwnerStep

\* What is loaded is a revision that has been.
LEMMA LoadedStep ==
  ASSUME OwnerInvariant, DesktopSound, TilesPresent, LoadedPast, [Next]_desktopVars
  PROVE  LoadedPast'
<1>1. [OwnerNext]_ownerVars
  BY Implements
<1>2. /\ revision' \in [Sessions -> Nat] /\ revision \in [Sessions -> Nat]
      /\ \A s \in Sessions : revision'[s] >= revision[s] /\ (Born(s) => Born(s)')
  BY <1>1, RevisionGrows, BornStays DEF LoadedPast
<1>3. \/ loaded' \in {loaded, None}
      \/ /\ slot \in Sessions /\ Born(slot) /\ revision' = revision
         /\ loaded' = <<slot, revision[slot]>>
  <2>1. CASE User
    BY <2>1
    DEF User, ClickCreatePage, ClickBack, ClickOpen, Lock, ClearSensitive, Navigate,
        ClickChooser, AskPortal, ClickDecision, SelectImage, CloseWindow, widgetVars
  <2>2. CASE Timer
    BY <2>2
    DEF Timer, PollReady, FolderChosen, PollPortal, ImageNotChosen, ImageChosen,
        PreparationStale, PreparationAnswered, CommitStale, CommitAnswered,
        ListingAnswered, ViewerAnswered, PollShutdown, KeepPolling, widgetVars
  <2>3. CASE GalleryTimer
    <3>1. CASE ClearGallery
      BY <3>1 DEF ClearGallery
    <3>2. CASE AskListing
      BY <3>2 DEF AskListing, DesktopSound, Born, SendCommand, Send
    <3> QED BY <2>3, <3>1, <3>2 DEF GalleryTimer
  <2>4. CASE Broker
    BY <2>4 DEF Broker, BrokerAnswers, BrokerVanishes, widgetVars
  <2>5. CASE (\E s \in Sessions : Owner(s)) \/ UNCHANGED desktopVars
    BY <2>5 DEF Owner, desktopVars, uiVars, widgetVars
  <2> QED BY <2>1, <2>2, <2>3, <2>4, <2>5 DEF Next
<1>4. ASSUME NEW s \in Sessions, Born(s), NEW n \in 0..revision[s], loaded' = <<s, n>>
      PROVE  LoadedPast'
  <2>1. n \in 0..revision'[s]
    BY <1>2
  <2> QED
    BY <1>2, <1>4, <2>1 DEF LoadedPast, Born
<1>5. CASE loaded' = None
  BY <1>2, <1>5 DEF LoadedPast
<1>6. CASE loaded' = loaded /\ loaded # None
  BY <1>4, <1>6 DEF LoadedPast, Born
<1>7. CASE slot \in Sessions /\ Born(slot) /\ loaded' = <<slot, revision[slot]>>
  <2>1. revision[slot] \in 0..revision[slot]
    BY <1>2, <1>7
  <2> QED
    BY <1>4, <1>7, <2>1
<1> QED
  BY <1>3, <1>5, <1>6, <1>7

\* The window's session has changed nothing since the window asked for a listing,
\* and is not revoked.
Watching == slot # None /\ loaded = <<slot, revision[slot]>> /\ ~cancelled[slot]

\* A thread answers, or changes what was asked for.
LEMMA OwnerListings ==
  ASSUME OwnerInvariant, DOMAIN answer = Tokens, DesktopSound, "list" \notin Faults,
         ChannelsApart, PollersApart, ListPollersAsk, LoadedPast, ListingsInOrder,
         NEW s \in Sessions, OwnerStep(s), UNCHANGED uiVars
  PROVE  ListingsInOrder'
<1> SUFFICES ASSUME Watching'
             PROVE  /\ phase'[slot] = "opening" => \E i \in 1..Len(pollers) : Listing(i)
                    /\ phase'[slot] = "serving" =>
                         /\ \A i \in 1..Len(pollers) : Listing(i) =>
                              \E j \in i..Len(pollers) :
                                Listing(j) /\ Current(pollers[j].token)'
                         /\ Shown' \/ \E i \in 1..Len(pollers) : Listing(i)
  <2>1. /\ slot' = slot /\ pollers' = pollers /\ view' = view /\ loaded' = loaded
        /\ \A i : Listing(i)' = Listing(i)
    BY DEF uiVars, widgetVars, Listing
  <2> QED
    BY <2>1 DEF ListingsInOrder, Watching, OutdatedFirst, Listing, Current
<1>0. /\ slot \in Sessions /\ slot' = slot /\ loaded' = loaded /\ view' = view
      /\ pollers' = pollers /\ loaded = <<slot, revision'[slot]>> /\ slot # None
  BY DEF Watching, DesktopSound, uiVars, widgetVars
<1>1. revision' \in [Sessions -> Nat] /\ \A r \in Sessions : revision'[r] >= revision[r]
  BY RevisionGrows DEF LoadedPast, OwnerNext
<1>2. revision'[slot] = revision[slot]
  <2>1. loaded # None
    <3>1. loaded \in Sessions \X Nat
      BY <1>0, <1>1
    <3> QED
      BY <3>1, DesktopAssumption DEF DesktopAssumption
  <2>2. PICK r \in Sessions : \E n \in 0..revision[r] : loaded = <<r, n>>
    BY <2>1 DEF LoadedPast
  <2>3. PICK n \in 0..revision[r] : loaded = <<r, n>>
    BY <2>2
  <2>4. r = slot /\ n = revision'[slot]
    BY <1>0, <2>3
  <2>5. revision[slot] \in Nat /\ revision'[slot] >= revision[slot] /\ revision'[slot] \in Nat
    BY <1>0, <1>1 DEF LoadedPast
  <2> QED
    BY <2>3, <2>4, <2>5
<1>3. Watching
  BY <1>0, <1>2, OwnerSeen DEF Watching, LoadedPast
<1>4. ASSUME phase'[slot] = "opening"
      PROVE  \E i \in 1..Len(pollers) : Listing(i)
  <2>1. phase[slot] = "opening"
    BY <1>0, <1>4, OwnerSeen DEF LoadedPast
  <2> QED
    BY <1>3, <2>1 DEF ListingsInOrder, Watching
<1>5. ASSUME phase'[slot] = "serving"
      PROVE  /\ \A i \in 1..Len(pollers) : Listing(i) =>
                  \E j \in i..Len(pollers) : Listing(j) /\ Current(pollers[j].token)'
             /\ Shown' \/ \E i \in 1..Len(pollers) : Listing(i)
  <2>0. Len(pollers) \in Nat
    BY DEF DesktopSound
  <2>1. CASE phase[slot] = "opening"
    <3>1. answer' = answer
      BY <1>0, <1>5, <2>1, OwnerSeen DEF LoadedPast
    <3>2. ASSUME NEW i \in 1..Len(pollers), Listing(i)
          PROVE  i \in i..Len(pollers) /\ Current(pollers[i].token)'
      <4>1. answer[pollers[i].token] = Waiting
        BY <2>1, <3>2 DEF ListPollersAsk, ListPoller, Listing
      <4>2. answer'[pollers[i].token] = Waiting
        BY <3>1, <4>1
      <4> QED
        BY <1>0, <2>0, <4>2 DEF Current, Waiting
    <3> QED
      BY <1>3, <2>1, <3>2 DEF ListingsInOrder, Watching
  <2>2. CASE phase[slot] = "serving"
    <3>1. library' = library
      <4>1. phase[s] = "serving" => s = slot
        BY <1>0, <2>2 DEF OwnerInvariant, OneHolder, Holders
      <4> QED
        BY <1>2, <4>1, OwnerSeen DEF LoadedPast
    <3>2. ASSUME NEW j \in 1..Len(pollers), Listing(j), Current(pollers[j].token)
          PROVE  Current(pollers[j].token)'
      <4> DEFINE t == pollers[j].token
                 now == [is |-> "snapshot", images |-> library]
      <4>1. /\ t \in Tokens /\ pollers[j].session = slot
            /\ ListPoller(pollers[j])
        BY <3>2, TimerSoundAt DEF ListPollersAsk, Listing
      <4>2. CASE answer'[t] = answer[t]
        BY <1>0, <3>1, <3>2, <4>2 DEF Current, Waiting
      <4>3. CASE answer'[t] # answer[t]
        <5>1. Answering(s, t)
          BY <4>1, <4>3, OwnerServes DEF Serves
        <5>2. PICK n \in Places(s) : At(s, n).token = t
          BY <5>1 DEF Answering
        <5>3. s = slot /\ At(s, n).kind = "ListGallery"
          BY <4>1, <5>2 DEF ListPoller
        <5>4. t # None
          BY <4>1, CommandTypes
        <5>5. answer[t] = Waiting
          <6>1. now # Forgotten
            BY DEF Forgotten
          <6>2. answer[t] \in {Waiting, now}
            BY <3>2 DEF Current
          <6>3. answer[t] \in {Waiting, Forgotten}
            BY <5>2, <5>4 DEF ChannelsApart
          <6> QED
            BY <6>1, <6>2, <6>3
        <5>6. answer'[t] = now
          BY <1>3, <1>5, <2>2, <4>3, <5>2, <5>3, <5>4, <5>5, ListingAnswers DEF Watching
        <5>7. answer'[t] = [is |-> "snapshot", images |-> library']
          BY <3>1, <5>6
        <5> QED
          BY <1>0, <5>7 DEF Current
      <4> QED BY <4>2, <4>3
    <3>3. OutdatedFirst /\ (Shown \/ \E i \in 1..Len(pollers) : Listing(i))
      BY <1>3, <2>2 DEF ListingsInOrder, Watching
    <3>4. Shown => Shown'
      BY <1>0, <3>1 DEF Shown
    <3>5. ASSUME NEW i \in 1..Len(pollers), Listing(i)
          PROVE  \E j \in i..Len(pollers) : Listing(j) /\ Current(pollers[j].token)'
      <4>1. PICK j \in i..Len(pollers) : Listing(j) /\ Current(pollers[j].token)
        BY <3>3, <3>5 DEF OutdatedFirst
      <4>2. j \in 1..Len(pollers)
        BY <2>0
      <4> QED
        BY <3>2, <4>1, <4>2
    <3> QED
      BY <3>3, <3>4, <3>5
  <2> QED
    BY <1>0, <1>5, <2>1, <2>2, OwnerSeen DEF LoadedPast
<1> QED
  BY <1>4, <1>5

\* A timer is over, waits again or is new, and no listing is lost.
LEMMA KeptListings ==
  ASSUME OwnerInvariant, DesktopSound, PollersApart, ListingsInOrder,
         NEW new, NEW d \in {0, 1}, NEW a \in {0, 1}, Turned(new, d, a),
         \A i \in 1..Len(pollers) : Polls(pollers[i]) /\ (a = 1 \/ i > d) =>
           answer'[pollers[i].token] = answer[pollers[i].token],
         a = 1 /\ new.kind = "list" =>
           d = 1 /\ new = pollers[1] /\ answer[new.token] = Waiting,
         d = 1 /\ pollers[1].kind = "list" => a = 1 /\ new = pollers[1],
         slot' = slot, loaded' = loaded, view' = view, library' = library,
         revision' = revision, slot # None => phase'[slot] = phase[slot],
         slot # None /\ cancelled[slot] => cancelled'[slot]
  PROVE  ListingsInOrder'
<1> SUFFICES ASSUME Watching'
             PROVE  /\ phase'[slot] = "opening" => \E i \in 1..Len(pollers') : Listing(i)'
                    /\ phase'[slot] = "serving" =>
                         OutdatedFirst' /\ (Shown' \/ \E i \in 1..Len(pollers') : Listing(i)')
  BY DEF ListingsInOrder, Watching, Listing
<1>0. /\ pollers \in Seq(Timers) /\ slot \in Sessions
      /\ Watching /\ phase'[slot] = phase[slot]
      /\ Shown' = Shown
      /\ \A i : Listing(i)' <=> pollers'[i].kind = "list" /\ pollers'[i].session = slot
  BY DEF DesktopSound, Watching, Listing, Shown
<1>1. /\ Len(pollers) \in Nat /\ Len(pollers') \in Nat
      /\ Len(pollers') = Len(pollers) - d + a
      /\ \A i \in 1..Len(pollers') :
           \/ i + d \in 1..Len(pollers) /\ pollers'[i] = pollers[i + d]
           \/ a = 1 /\ i = Len(pollers') /\ pollers'[i] = new
      /\ \A i \in 1..Len(pollers) :
           i > d => i - d \in 1..Len(pollers') /\ pollers'[i - d] = pollers[i]
      /\ a = 1 => Len(pollers') \in 1..Len(pollers') /\ pollers'[Len(pollers')] = new
  BY <1>0, Positions
<1>2. (\E i \in 1..Len(pollers) : Listing(i)) => \E i \in 1..Len(pollers') : Listing(i)'
  <2> SUFFICES ASSUME NEW i \in 1..Len(pollers), Listing(i)
               PROVE  \E k \in 1..Len(pollers') : Listing(k)'
    OBVIOUS
  <2>1. CASE i > d
    BY <1>0, <1>1, <2>1 DEF Listing
  <2>2. CASE ~(i > d)
    <3>1. i = 1 /\ d = 1
      BY <2>2
    <3>2. a = 1 /\ new = pollers[1]
      BY <3>1 DEF Listing
    <3> QED
      BY <1>0, <1>1, <3>1, <3>2 DEF Listing
  <2> QED BY <2>1, <2>2
<1>3. ASSUME NEW j \in 1..Len(pollers), Listing(j), a = 1 \/ j > d
      PROVE  answer'[pollers[j].token] = answer[pollers[j].token]
  BY <1>3 DEF Listing, Polls
<1>4. ASSUME phase[slot] = "serving" PROVE OutdatedFirst'
  <2> SUFFICES ASSUME NEW i \in 1..Len(pollers'), Listing(i)'
               PROVE  \E j \in i..Len(pollers') : Listing(j)' /\ Current(pollers[j].token)'
    BY DEF OutdatedFirst, Listing
  <2>1. CASE i + d \in 1..Len(pollers) /\ pollers'[i] = pollers[i + d]
    <3>1. Listing(i + d)
      BY <1>0, <2>1 DEF Listing
    <3>2. OutdatedFirst
      BY <1>0, <1>4 DEF ListingsInOrder, Watching
    <3>3. PICK j \in (i + d)..Len(pollers) : Listing(j) /\ Current(pollers[j].token)
      BY <2>1, <3>1, <3>2 DEF OutdatedFirst
    <3>4. /\ j \in 1..Len(pollers) /\ j > d /\ j - d \in i..Len(pollers')
          /\ pollers'[j - d] = pollers[j]
      BY <1>1, <2>1
    <3>5. answer'[pollers[j].token] = answer[pollers[j].token]
      BY <1>3, <3>3, <3>4
    <3>6. Listing(j - d)' /\ Current(pollers[j - d].token)'
      BY <1>0, <3>3, <3>4, <3>5 DEF Listing, Current, Waiting
    <3> QED
      BY <3>4, <3>6
  <2>2. CASE a = 1 /\ i = Len(pollers') /\ pollers'[i] = new
    <3>1. /\ d = 1 /\ new = pollers[1] /\ answer[new.token] = Waiting
          /\ new.kind = "list"
      BY <1>0, <2>2
    <3>2. 1 \in 1..Len(pollers)
      BY <1>0, <3>1 DEF Turned
    <3>3. answer'[new.token] = Waiting
      BY <2>2, <3>1, <3>2 DEF Polls
    <3>4. i \in i..Len(pollers') /\ Current(pollers[i].token)'
      BY <1>1, <2>2, <3>3 DEF Current, Waiting
    <3> QED
      BY <3>4
  <2> QED BY <1>1, <2>1, <2>2
<1> QED
  BY <1>0, <1>2, <1>4 DEF ListingsInOrder, Watching

\* A listing arrives: it is what the vault holds, or a later one will come.
LEMMA AnsweredListings ==
  ASSUME OwnerInvariant, DesktopSound, DOMAIN answer = Tokens, PollersApart, ListPollersAsk,
         ListingsInOrder, ListingAnswered, ~Silent
  PROVE  ListingsInOrder'
<1> SUFFICES ASSUME Watching'
             PROVE  /\ phase'[slot] = "opening" => \E i \in 1..Len(pollers') : Listing(i)'
                    /\ phase'[slot] = "serving" =>
                         OutdatedFirst' /\ (Shown' \/ \E i \in 1..Len(pollers') : Listing(i)')
  <2>1. slot' = slot
    BY ChannelStates DEF ListingAnswered, KeepPolling
  <2> QED
    BY <2>1 DEF ListingsInOrder, Watching, Listing
<1>0. /\ pollers \in Seq(Timers) /\ Turn /\ pollers # <<>> /\ Now.kind = "list"
      /\ (Stop /\ Collect(Now.token)) \/ ListingOpens
      /\ UNCHANGED <<slot, loaded>>
      /\ view' = IF answer[Now.token].is = "snapshot" /\ Generation(Now.session)
                 THEN [session |-> Now.session, images |-> answer[Now.token].images]
                 ELSE view
  BY DEF DesktopSound, ListingAnswered, ListingApplies, ListingOpens, Turn
<1>1. Now = pollers[1] /\ 1 \in 1..Len(pollers) /\ Now.token \in Tokens
      /\ Now.session \in Sessions /\ Polls(Now)
  <2>1. Now = pollers[1] /\ 1 \in 1..Len(pollers)
    BY <1>0, QueueHead DEF Now
  <2> QED
    BY <1>0, <2>1, TimerSoundAt
<1>2. /\ UNCHANGED <<phase, cancelled, revision, library>>
      /\ \A u \in Tokens \ {Now.token} : answer'[u] = answer[u]
      /\ \E a \in {0, 1} : \E new : Turned(new, 1, a) /\ (a = 1 => new.kind = "viewer")
  <2>1. CASE Stop /\ Collect(Now.token)
    <3>1. Turned(Now, 1, 0)
      BY <1>0, <2>1 DEF Turned, Stop
    <3> QED
      BY <2>1, <3>1 DEF Collect, threadVars, storeVars
  <2>2. CASE ListingOpens
    <3>0. PICK i \in Imports : \E new, c : OpenedBy(i, new, c)
      BY <2>2, OpensByItself
    <3>1. PICK new, c : OpenedBy(i, new, c)
      BY <3>0
    <3>2. Turned(new, 1, 1) /\ new.kind = "viewer"
      BY <1>0, <3>1 DEF Turned, OpenedBy
    <3>3. \A u \in Tokens \ {Now.token} : answer'[u] = answer[u]
      BY <3>1 DEF OpenedBy, Send
    <3> QED
      BY <3>1, <3>2, <3>3 DEF OpenedBy, storeVars
  <2> QED BY <1>0, <2>1, <2>2
<1>3. Watching /\ slot \in Sessions
      /\ \A i : Listing(i)' <=> pollers'[i].kind = "list" /\ pollers'[i].session = slot
  BY <1>0, <1>2 DEF Watching, Listing, DesktopSound
<1>4. /\ Len(pollers) \in Nat /\ Len(pollers') \in Nat
      /\ \A i \in 1..Len(pollers') :
           \/ i + 1 \in 1..Len(pollers) /\ pollers'[i] = pollers[i + 1]
           \/ pollers'[i].kind = "viewer"
      /\ \A i \in 1..Len(pollers) :
           i > 1 => i - 1 \in 1..Len(pollers') /\ pollers'[i - 1] = pollers[i]
  <2>1. PICK a \in {0, 1} : \E new : Turned(new, 1, a) /\ (a = 1 => new.kind = "viewer")
    BY <1>2
  <2>2. PICK new : Turned(new, 1, a) /\ (a = 1 => new.kind = "viewer")
    BY <2>1
  <2> QED
    BY <1>0, <2>2, Positions
<1>5. ASSUME NEW i \in 1..Len(pollers), Listing(i), i > 1
      PROVE  i - 1 \in 1..Len(pollers') /\ Listing(i - 1)'
  BY <1>3, <1>4, <1>5 DEF Listing
<1>6. ASSUME NEW j \in 1..Len(pollers), Listing(j), j > 1, Current(pollers[j].token)
      PROVE  Current(pollers[j - 1].token)'
  <2>1. pollers[j].token \in Tokens /\ pollers[j].token # Now.token
    BY <1>1, <1>6, TimerSoundAt DEF PollersApart, Listing, Polls
  <2>2. pollers'[j - 1] = pollers[j] /\ answer'[pollers[j].token] = answer[pollers[j].token]
    BY <1>2, <1>4, <1>6, <2>1
  <2> QED
    BY <1>2, <1>6, <2>2 DEF Current, Waiting
<1>7. ASSUME phase'[slot] = "opening"
      PROVE  \E i \in 1..Len(pollers') : Listing(i)'
  <2>1. PICK i \in 1..Len(pollers) : Listing(i)
    BY <1>2, <1>3, <1>7 DEF ListingsInOrder, Watching
  <2>2. i # 1
    BY <1>1, <1>2, <1>7, <2>1 DEF ListPollersAsk, ListPoller, Listing, Silent
  <2> QED
    BY <1>5, <2>1, <2>2
<1>8. ASSUME phase'[slot] = "serving"
      PROVE  OutdatedFirst' /\ (Shown' \/ \E i \in 1..Len(pollers') : Listing(i)')
  <2>1. OutdatedFirst /\ (Shown \/ \E i \in 1..Len(pollers) : Listing(i))
    BY <1>2, <1>3, <1>8 DEF ListingsInOrder, Watching
  <2>2. OutdatedFirst'
    <3> SUFFICES ASSUME NEW i \in 1..Len(pollers'), Listing(i)'
                 PROVE  \E j \in i..Len(pollers') :
                          Listing(j)' /\ Current(pollers[j].token)'
      BY DEF OutdatedFirst, Listing
    <3>1. i + 1 \in 1..Len(pollers) /\ Listing(i + 1)
      BY <1>3, <1>4 DEF Listing
    <3>2. PICK j \in (i + 1)..Len(pollers) : Listing(j) /\ Current(pollers[j].token)
      BY <2>1, <3>1 DEF OutdatedFirst
    <3>3. j \in 1..Len(pollers) /\ j > 1 /\ j - 1 \in i..Len(pollers')
      BY <1>4
    <3> QED
      BY <1>5, <1>6, <3>2, <3>3
  <2>3. CASE Listing(1)
    <3>1. PICK j \in 1..Len(pollers) : Listing(j) /\ Current(pollers[j].token)
      BY <1>1, <2>1, <2>3 DEF OutdatedFirst
    <3>2. CASE j = 1
      <4>1. answer[Now.token] = [is |-> "snapshot", images |-> library]
        BY <1>1, <3>1, <3>2 DEF Current, Silent
      <4>2. Now.session = slot
        BY <1>1, <2>3 DEF Listing
      <4> QED
        BY <1>0, <1>2, <2>2, <4>1, <4>2 DEF Generation, Shown
    <3>3. CASE j # 1
      BY <1>5, <2>2, <3>1, <3>3
    <3> QED BY <3>2, <3>3
  <2>4. CASE ~Listing(1)
    <3>1. Shown => Shown'
      <4>1. Now.session # slot
        BY <1>0, <1>1, <2>4 DEF Listing
      <4> QED
        BY <1>0, <1>2, <4>1 DEF Generation, Shown
    <3>2. (\E i \in 1..Len(pollers) : Listing(i)) => \E i \in 1..Len(pollers') : Listing(i)'
      <4> SUFFICES ASSUME NEW i \in 1..Len(pollers), Listing(i)
                   PROVE  \E k \in 1..Len(pollers') : Listing(k)'
        OBVIOUS
      <4>1. i > 1
        BY <2>4
      <4> QED
        BY <1>5, <4>1
    <3> QED
      BY <2>1, <2>2, <3>1, <3>2
  <2> QED BY <2>3, <2>4
<1> QED
  BY <1>7, <1>8

\* The window asks for a listing: whatever is on its way is outdated before.
LEMMA AskedListings ==
  ASSUME OwnerInvariant, DesktopSound, DOMAIN answer = Tokens, AskListing
  PROVE  ListingsInOrder'
<1>1. PICK t \in Tokens : /\ SendCommand(slot, "ListGallery", t, None, None)
                          /\ StartPoller(Poller("list", slot, t, None))
  BY DEF AskListing
<1> DEFINE new == Poller("list", slot, t, None)
<1>2. new.kind = "list" /\ new.session = slot /\ new.token = t
  BY DEF Poller
<1> HIDE DEF new
<1>3. /\ Len(pollers') \in Nat /\ Len(pollers') \in 1..Len(pollers')
      /\ pollers'[Len(pollers')] = new
  <2>1. Turned(new, 0, 1) /\ pollers \in Seq(Timers)
    BY <1>1 DEF Turned, StartPoller, new, DesktopSound
  <2> QED
    BY <2>1, Positions
<1>4. slot' = slot /\ answer'[t] = Waiting
  <2>1. Send(slot, Command("ListGallery", t, None, None))
        /\ Command("ListGallery", t, None, None).token = t
    BY <1>1 DEF SendCommand, Command
  <2> QED
    BY <2>1 DEF AskListing, Send
<1>5. Listing(Len(pollers))' /\ Current(pollers[Len(pollers)].token)'
  BY <1>2, <1>3, <1>4 DEF Listing, Current, Waiting
<1>6. OutdatedFirst'
  <2> SUFFICES ASSUME NEW i \in 1..Len(pollers')
               PROVE  \E j \in i..Len(pollers') : Listing(j)' /\ Current(pollers[j].token)'
    BY DEF OutdatedFirst, Listing
  <2>1. Len(pollers') \in i..Len(pollers')
    BY <1>3
  <2> QED
    BY <1>5, <2>1
<1> QED
  BY <1>3, <1>5, <1>6 DEF ListingsInOrder

\* What a user does loses no listing.
LEMMA UserListings ==
  ASSUME OwnerInvariant, DesktopSound, DOMAIN answer = Tokens, PollersApart, LoadedPast,
         ListingsInOrder, TilesPresent, User
  PROVE  ListingsInOrder'
<1>0. /\ slot \in Sessions \cup {None} /\ pollers \in Seq(Timers)
      /\ active \in Imports \cup {None}
  BY DEF DesktopSound
<1>1. ASSUME pollers' = pollers, UNCHANGED <<ownerVars, slot, loaded, view>>
      PROVE  ListingsInOrder'
  <2>1. Turned(Poller("ready", None, None, None), 0, 0)
    BY <1>1 DEF Turned
  <2> QED
    BY <1>1, <2>1, KeptListings DEF ownerVars, threadVars, storeVars
<1>2. ASSUME NEW new, StartPoller(new), new.kind # "list",
             UNCHANGED <<ownerVars, slot, loaded, view>>
      PROVE  ListingsInOrder'
  <2>1. Turned(new, 0, 1)
    BY <1>2 DEF Turned, StartPoller
  <2> QED
    BY <1>2, <2>1, KeptListings DEF ownerVars, threadVars, storeVars
<1>3. ASSUME NEW t \in Tokens, Fresh(t), NEW c, c.token = t, Send(slot, c), library' = library,
             NEW new, StartPoller(new), new.kind # "list",
             UNCHANGED <<slot, loaded, view>>
      PROVE  ListingsInOrder'
  <2>1. Turned(new, 0, 1)
    BY <1>3 DEF Turned, StartPoller
  <2>2. \A i \in 1..Len(pollers) : Polls(pollers[i]) =>
          answer'[pollers[i].token] = answer[pollers[i].token]
    <3>1. answer[t] = Free /\ \A u \in Tokens \ {t} : answer'[u] = answer[u]
      BY <1>3 DEF Send, Fresh
    <3> QED
      BY <3>1, TimerSoundAt DEF PollersApart
  <2>3. UNCHANGED <<revision, phase, cancelled>>
    BY <1>3 DEF Send
  <2> QED
    BY <1>3, <2>1, <2>2, <2>3, KeptListings
<1>4. CASE ClickCreatePage \/ ClickBack \/ Navigate
  BY <1>1, <1>4 DEF ClickCreatePage, ClickBack, Navigate, widgetVars
<1>5. CASE Lock
  BY <1>5 DEF Lock, TakeSession, ListingsInOrder
<1>6. CASE ClickOpen
  <2>1. slot' \in Sessions /\ phase[slot'] = "unborn" /\ loaded' = loaded
        /\ revision' = revision
    BY <1>6 DEF ClickOpen, Begin, widgetVars
  <2>2. loaded # <<slot', revision[slot']>>
    <3> SUFFICES ASSUME loaded = <<slot', revision[slot']>> PROVE FALSE
      OBVIOUS
    <3>1. loaded \in Sessions \X Nat
      BY <2>1 DEF LoadedPast
    <3>2. PICK s \in Sessions : phase[s] # "unborn" /\ \E n \in 0..revision[s] : loaded = <<s, n>>
      BY <3>1, DesktopAssumption DEF DesktopAssumption, LoadedPast
    <3> QED
      BY <2>1, <3>2
  <2> QED
    BY <2>1, <2>2 DEF ListingsInOrder
<1>7. CASE ClickChooser
  <2>1. PICK b : AskPortal(b)
    BY <1>7 DEF ClickChooser
  <2>2. Poller("portal", slot, None, b).kind # "list"
    BY DEF Poller
  <2> QED
    BY <1>2, <2>1, <2>2 DEF AskPortal, widgetVars
<1>8. ASSUME NEW e \in Decisions, ClickDecision(e) PROVE ListingsInOrder'
  <2>1. PICK t \in Tokens : /\ Fresh(t) /\ SendCommand(slot, "CommitImport", t, active, e)
                           /\ StartPoller(Poller("commit", slot, t, active))
    BY <1>8 DEF ClickDecision
  <2>2. Command("CommitImport", t, active, e).token = t
        /\ Poller("commit", slot, t, active).kind # "list"
        /\ UNCHANGED <<slot, loaded, view>>
    BY <1>8 DEF ClickDecision, Command, Poller
  <2> QED
    BY <1>3, <2>1, <2>2 DEF SendCommand, storeVars
<1>9. ASSUME NEW i \in Imports, SelectImage(i) PROVE ListingsInOrder'
  <2>1. PICK t \in Tokens : /\ Fresh(t) /\ SendCommand(slot, "OpenViewer", t, i, None)
                           /\ StartPoller(Poller("viewer", slot, t, i))
    BY <1>9 DEF SelectImage
  <2>2. Command("OpenViewer", t, i, None).token = t
        /\ Poller("viewer", slot, t, i).kind # "list"
        /\ UNCHANGED <<slot, loaded, view>>
    BY <1>9 DEF SelectImage, Command, Poller, widgetVars
  <2> QED
    BY <1>3, <2>1, <2>2 DEF SendCommand, storeVars
<1>10. CASE CloseWindow
  <2>1. CASE slot = None
    BY <1>10, <2>1 DEF CloseWindow, ListingsInOrder
  <2>2. CASE slot # None
    <3>1. slot' = slot /\ cancelled'[slot]
      BY <1>0, <1>10, <2>2 DEF CloseWindow, Revoke, OwnerInvariant, OwnerTypes
    <3> QED
      BY <3>1 DEF ListingsInOrder
  <2> QED BY <2>1, <2>2
<1> QED
  BY <1>4, <1>5, <1>6, <1>7, <1>8, <1>9, <1>10 DEF User

\* Nor does a timer, but by showing it.
LEMMA TimerListings ==
  ASSUME OwnerInvariant, DesktopSound, DOMAIN answer = Tokens, PollersApart, ListPollersAsk,
         ListingsInOrder, Timer
  PROVE  ListingsInOrder'
<1>0. /\ slot \in Sessions \cup {None} /\ pollers \in Seq(Timers)
      /\ Turn /\ pollers # <<>>
  BY DEF DesktopSound, Turn, Timer, PollReady, FolderChosen, PollPortal, ImageNotChosen,
         ImageChosen, PreparationStale, PreparationAnswered, CommitStale, CommitAnswered,
         ListingAnswered, ViewerAnswered, PollShutdown
<1>1. Now = pollers[1] /\ 1 \in 1..Len(pollers)
  BY <1>0, QueueHead DEF Now
<1>2. ASSUME KeepPolling, Now.kind = "list" => Silent
      PROVE  ListingsInOrder'
  <2>1. Turned(Now, 1, 1)
    BY <1>0, <1>2 DEF Turned, KeepPolling, Again
  <2>2. UNCHANGED <<ownerVars, slot, loaded, view>>
    BY <1>2 DEF KeepPolling, widgetVars
  <2> QED
    BY <1>1, <1>2, <2>1, <2>2, KeptListings DEF ownerVars, threadVars, storeVars, Silent
<1>3. ASSUME Stop, Now.kind # "list", UNCHANGED <<slot, loaded, view>>,
             UNCHANGED <<phase, cancelled, revision, library>>,
             answer' = answer \/ (Polls(Now) /\ (Collect(Now.token) \/ Forget(Now.token)))
      PROVE  ListingsInOrder'
  <2>1. Turned(Now, 1, 0)
    BY <1>0, <1>3 DEF Turned, Stop
  <2>2. ASSUME NEW i \in 1..Len(pollers), Polls(pollers[i]), i > 1
        PROVE  answer'[pollers[i].token] = answer[pollers[i].token]
    <3>1. CASE answer' = answer
      BY <3>1
    <3>2. CASE Polls(Now) /\ (Collect(Now.token) \/ Forget(Now.token))
      <4>1. pollers[i].token # Now.token /\ pollers[i].token \in Tokens
        BY <1>1, <2>2, <3>2, TimerSoundAt DEF PollersApart
      <4> QED
        BY <3>2, <4>1 DEF Collect, Forget
    <3> QED BY <1>3, <3>1, <3>2
  <2> QED
    BY <1>1, <1>3, <2>1, <2>2, KeptListings
<1>4. CASE PollReady \/ PollShutdown
  <2>0. Now.kind # "list"
    BY <1>4 DEF PollReady, PollShutdown
  <2>1. \/ KeepPolling
        \/ Stop /\ TakeReady(slot) /\ UNCHANGED <<slot, loaded, view>>
        \/ slot' = None
    BY <1>4 DEF PollReady, PollShutdown, widgetVars
  <2>2. CASE slot' = None
    BY <2>2 DEF ListingsInOrder
  <2>3. CASE Stop /\ TakeReady(slot) /\ UNCHANGED <<slot, loaded, view>>
    BY <1>3, <2>0, <2>3 DEF TakeReady, storeVars
  <2> QED
    BY <1>2, <2>0, <2>1, <2>2, <2>3
<1>5. CASE FolderChosen \/ ImageNotChosen
  BY <1>3, <1>5
  DEF FolderChosen, ImageNotChosen, widgetVars, ownerVars, threadVars, storeVars
<1>6. CASE PollPortal
  BY <1>2, <1>6 DEF PollPortal
<1>7. CASE ImageChosen
  <2>0. Now.kind # "list" /\ ~Polls(Now) /\ UNCHANGED <<slot, loaded, view>>
    BY <1>7 DEF ImageChosen, Polls
  <2>1. CASE Closed(slot)
    BY <1>3, <1>7, <2>0, <2>1 DEF ImageChosen, ownerVars, threadVars, storeVars
  <2>2. CASE ~Closed(slot)
    <3>1. PICK t \in Tokens, f \in Files :
            /\ Fresh(t) /\ SendPrepare(slot, t, f)
            /\ pollers' = Append(Tail(pollers),
                            Poller("prepare", slot, t, Len(source) + 1))
      BY <1>7, <2>2 DEF ImageChosen
    <3> DEFINE new == Poller("prepare", slot, t, Len(source) + 1)
               c == Command("PrepareImport", t, Len(source) + 1, None)
    <3>2. new.kind # "list" /\ c.token = t /\ Send(slot, c)
          /\ UNCHANGED <<library, phase, cancelled, revision>>
      BY <3>1 DEF Poller, Command, SendPrepare, Send
    <3>3. Turned(new, 1, 1)
      BY <1>0, <3>1 DEF Turned
    <3> HIDE DEF new, c
    <3>4. answer[t] = Free /\ \A u \in Tokens \ {t} : answer'[u] = answer[u]
      BY <3>1, <3>2 DEF Send, Fresh
    <3>5. \A i \in 1..Len(pollers) : Polls(pollers[i]) =>
            answer'[pollers[i].token] = answer[pollers[i].token]
      BY <3>4, TimerSoundAt DEF PollersApart
    <3> QED
      BY <1>1, <2>0, <3>2, <3>3, <3>5, KeptListings
  <2> QED BY <2>1, <2>2
<1>8. CASE PreparationStale \/ PreparationAnswered \/ CommitStale \/ CommitAnswered
           \/ ViewerAnswered
  <2>1. Now.kind # "list" /\ Polls(Now)
    BY <1>8
    DEF PreparationStale, PreparationAnswered, CommitStale, CommitAnswered,
        ViewerAnswered, Polls
  <2>2. \/ KeepPolling
        \/ /\ Stop /\ UNCHANGED <<slot, loaded, view>>
           /\ Collect(Now.token) \/ Forget(Now.token)
    BY <1>8
    DEF PreparationStale, PreparationAnswered, CommitStale, CommitAnswered,
        ViewerAnswered, importVars
  <2>3. CASE KeepPolling
    BY <1>2, <2>1, <2>3
  <2>4. CASE /\ Stop /\ UNCHANGED <<slot, loaded, view>>
             /\ Collect(Now.token) \/ Forget(Now.token)
    <3>1. UNCHANGED <<phase, cancelled, revision, library>>
      BY <2>4 DEF Collect, Forget, threadVars, storeVars
    <3> QED
      BY <1>3, <2>1, <2>4, <3>1
  <2> QED BY <2>2, <2>3, <2>4
<1>9. CASE ListingAnswered
  <2>1. CASE Silent
    <3>1. KeepPolling
      BY <1>9, <2>1 DEF ListingAnswered
    <3> QED
      BY <1>2, <2>1, <3>1
  <2> QED
    BY <1>9, <2>1, AnsweredListings
<1> QED
  BY <1>4, <1>5, <1>6, <1>7, <1>8, <1>9 DEF Timer

\* Every step of the application keeps the listings in their order.
LEMMA ListingsStep ==
  ASSUME OwnerInvariant, DesktopSound, TilesPresent, "list" \notin Faults,
         GalleryInvariant, [Next]_desktopVars
  PROVE  GalleryInvariant'
<1> USE DEF GalleryInvariant
<1>0. DOMAIN answer = Tokens
  BY DEF TilesPresent, AnswersPresent
<1>1. ChannelsApart' /\ PollersApart' /\ ListPollersAsk' /\ LoadedPast'
  BY ChannelsKept, LoadedStep
<1>2. ASSUME UNCHANGED <<ownerVars, slot, loaded, view, pollers>>
      PROVE  ListingsInOrder'
  <2>1. Turned(Poller("ready", None, None, None), 0, 0)
    BY <1>2 DEF Turned
  <2> QED
    BY <1>2, <2>1, KeptListings DEF ownerVars, threadVars, storeVars
<1>3. CASE GalleryTimer
  <2>1. CASE ClearGallery
    BY <1>1, <2>1 DEF ClearGallery, ListingsInOrder
  <2> QED
    BY <1>0, <1>1, <1>3, <2>1, AskedListings DEF GalleryTimer
<1>4. CASE Broker
  BY <1>1, <1>2, <1>4 DEF Broker, BrokerAnswers, BrokerVanishes, widgetVars
<1>5. ASSUME NEW s \in Sessions, Owner(s) PROVE ListingsInOrder'
  BY <1>0, <1>5, OwnerListings DEF Owner
<1>6. CASE UNCHANGED desktopVars
  BY <1>1, <1>2, <1>6 DEF desktopVars, uiVars, widgetVars
<1> QED
  BY <1>0, <1>1, <1>3, <1>4, <1>5, <1>6, UserListings, TimerListings DEF Next

\* While no listing fails, the gallery shows the vault as it is once the listing of
\* the present revision has been answered: a timer that was silent goes behind the
\* later ones, and yet no listing is overtaken (refresh_gallery of ui.rs, the
\* command queue of runtime.rs).
THEOREM GalleryFollows ==
  ASSUME "list" \notin Faults
  PROVE  Spec => []ViewIsCurrent
<1>1. Init => GalleryInvariant
  <2> SUFFICES ASSUME Init PROVE GalleryInvariant
    OBVIOUS
  <2>1. ChannelsApart
    <3>1. \A s \in Sessions : \A n \in Places(s) : At(s, n).token = None
      BY DEF Init, OwnerInit, Places, At, Idle, Command
    <3> QED
      BY <3>1 DEF ChannelsApart
  <2>2. pollers = <<>> /\ \A i \in 1..Len(pollers) : FALSE
    BY DEF Init
  <2>3. PollersApart /\ ListPollersAsk
    BY <2>2 DEF PollersApart, ListPollersAsk
  <2>4. LoadedPast /\ ListingsInOrder
    BY DEF Init, OwnerInit, LoadedPast, ListingsInOrder
  <2> QED
    BY <2>1, <2>3, <2>4 DEF GalleryInvariant
<1>2. (OwnerInvariant /\ DesktopSound /\ TilesPresent) /\ GalleryInvariant /\ [Next]_desktopVars
        => GalleryInvariant'
  BY ListingsStep
<1>3. OwnerInvariant /\ DesktopSound /\ GalleryInvariant => ViewIsCurrent
  BY DEF GalleryInvariant, ListingsInOrder, ViewIsCurrent, Shown, Listing
<1> QED
  BY <1>1, <1>2, <1>3, DesktopStands, PTL DEF Spec

-----------------------------------------------------------------------------
(* The types of the window's state. *)

\* The part of the type invariant that only the window changes.
Pages == {"gallery", "choose", "unlock", "create", "error"}

ShellTypes ==
  /\ page \in Pages
  /\ Len(pollers) <= MaxPollers
  /\ slot # None => held[slot]

\* The timers do not grow in number, or there was room for one more.
LEMMA TimersBounded ==
  ASSUME pollers \in Seq(Timers), Len(pollers) <= MaxPollers, NEW new,
         \/ pollers' = pollers
         \/ Len(pollers) < MaxPollers /\ pollers' = Append(pollers, new)
         \/ pollers # <<>> /\ pollers' \in {Tail(pollers), Append(Tail(pollers), new)}
  PROVE  Len(pollers') <= MaxPollers
<1>0. MaxPollers \in Nat /\ Len(pollers) \in Nat
  BY DesktopAssumption DEF DesktopAssumption
<1>1. ASSUME NEW d \in {0, 1}, NEW a \in {0, 1}, Turned(new, d, a),
             a <= d \/ Len(pollers) < MaxPollers
      PROVE  Len(pollers') <= MaxPollers
  <2>1. Len(pollers') = Len(pollers) - d + a
    BY <1>1, Positions
  <2> QED
    BY <1>0, <1>1, <2>1
<1>2. CASE pollers' = pollers
  BY <1>2
<1>3. CASE Len(pollers) < MaxPollers /\ pollers' = Append(pollers, new)
  BY <1>1, <1>3 DEF Turned
<1>4. CASE pollers # <<>> /\ pollers' = Tail(pollers)
  BY <1>1, <1>4 DEF Turned
<1>5. CASE pollers # <<>> /\ pollers' = Append(Tail(pollers), new)
  BY <1>1, <1>5 DEF Turned
<1> QED
  BY <1>2, <1>3, <1>4, <1>5

\* What a user does keeps the window's types.
LEMMA UserTypes ==
  ASSUME OwnerInvariant, DesktopSound, ShellTypes, User
  PROVE  ShellTypes'
<1>0. /\ Len(pollers) \in Nat /\ MaxPollers \in Nat /\ slot \in Sessions \cup {None}
      /\ held \in [Sessions -> BOOLEAN] /\ pollers \in Seq(Timers)
      /\ ~Crowded => Len(pollers) < MaxPollers
  BY DesktopAssumption DEF DesktopAssumption, DesktopSound, Crowded, OwnerInvariant,
     OwnerTypes
<1>1. ASSUME UNCHANGED <<slot, held>> PROVE slot' # None => held'[slot']
  BY <1>1 DEF ShellTypes
<1>2. CASE ClickCreatePage \/ ClickBack \/ Navigate
  <2>1. page' \in Pages /\ UNCHANGED <<slot, held, pollers>>
    BY <1>2 DEF ClickCreatePage, ClickBack, Navigate, ownerVars, threadVars, Pages
  <2> QED
    BY <1>1, <2>1 DEF ShellTypes
<1>3. CASE Lock
  <2>1. page' \in Pages /\ slot' = None /\ pollers' = pollers
    BY <1>3 DEF Lock, TakeSession, Pages
  <2> QED
    BY <2>1 DEF ShellTypes
<1>4. CASE ClickOpen
  <2>1. slot' \in Sessions /\ held'[slot'] /\ page' = page
    BY <1>4 DEF ClickOpen, Begin, pageVars
  <2>2. Len(pollers) < MaxPollers
        /\ pollers' = Append(pollers, Poller("ready", None, None, None))
    BY <1>0, <1>4 DEF ClickOpen, StartPoller
  <2>3. Len(pollers') <= MaxPollers
    BY <1>0, <2>2, TimersBounded DEF ShellTypes
  <2> QED
    BY <2>1, <2>3 DEF ShellTypes
<1>5. ASSUME NEW new, ~Crowded, StartPoller(new), UNCHANGED <<slot, held, page>>
      PROVE  ShellTypes'
  <2>1. Len(pollers') <= MaxPollers
    BY <1>0, <1>5, TimersBounded DEF ShellTypes, StartPoller
  <2> QED
    BY <1>1, <1>5, <2>1 DEF ShellTypes
<1>6. CASE ClickChooser
  BY <1>5, <1>6 DEF ClickChooser, AskPortal, pageVars, ownerVars, threadVars
<1>7. ASSUME NEW e \in Decisions, ClickDecision(e) PROVE ShellTypes'
  BY <1>5, <1>7 DEF ClickDecision, SendCommand, Send, pageVars
<1>8. ASSUME NEW i \in Imports, SelectImage(i) PROVE ShellTypes'
  BY <1>5, <1>8 DEF SelectImage, SendCommand, Send, pageVars
<1>9. CASE CloseWindow
  <2>1. UNCHANGED <<slot, page>>
    BY <1>9 DEF CloseWindow, pageVars
  <2>2. CASE slot = None
    <3>1. UNCHANGED <<slot, held, page, pollers>>
      BY <1>9, <2>1, <2>2 DEF CloseWindow, ownerVars, threadVars
    <3> QED
      BY <1>1, <3>1 DEF ShellTypes
  <2>3. CASE slot # None
    <3>1. held'[slot]
      BY <1>0, <1>9, <2>3 DEF CloseWindow, Revoke
    <3>2. ~Crowded /\ StartPoller(Poller("shutdown", slot, None, None))
      BY <1>9, <2>3 DEF CloseWindow
    <3>3. Len(pollers') <= MaxPollers
      BY <1>0, <3>2, TimersBounded DEF ShellTypes, StartPoller
    <3> QED
      BY <2>1, <3>1, <3>3 DEF ShellTypes
  <2> QED BY <2>2, <2>3
<1> QED
  BY <1>2, <1>3, <1>4, <1>6, <1>7, <1>8, <1>9 DEF User

\* And so does every timer.
LEMMA TimerTypes ==
  ASSUME OwnerInvariant, DesktopSound, ShellTypes, Timer
  PROVE  ShellTypes'
<1>0. pollers \in Seq(Timers)
  BY DEF DesktopSound
<1>1. ASSUME Turn, NEW new, pollers' \in {Tail(pollers), Append(Tail(pollers), new)},
             page' \in Pages, slot' = None \/ UNCHANGED <<slot, held>>
      PROVE  ShellTypes'
  <2>1. Len(pollers') <= MaxPollers
    BY <1>0, <1>1, TimersBounded DEF ShellTypes, Turn
  <2> QED
    BY <1>1, <2>1 DEF ShellTypes
<1>2. ASSUME Turn, KeepPolling PROVE ShellTypes'
  BY <1>1, <1>2 DEF KeepPolling, Again, ShellTypes, pageVars, ownerVars, threadVars
<1>3. CASE PollReady \/ PollShutdown
  <2>1. Turn /\ page \in Pages
    BY <1>3 DEF PollReady, PollShutdown, ShellTypes
  <2>2. KeepPolling \/ (Stop /\ page' \in Pages /\ (slot' = None \/ UNCHANGED <<slot, held>>))
    BY <1>3, <2>1 DEF PollReady, PollShutdown, Pages, pageVars, TakeReady
  <2> QED
    BY <1>1, <1>2, <2>1, <2>2 DEF Stop
<1>4. CASE FolderChosen
  <2>1. Turn /\ Stop /\ page' \in Pages /\ UNCHANGED <<slot, held>>
    BY <1>4 DEF FolderChosen, Pages, ShellTypes, ownerVars, threadVars
  <2> QED
    BY <1>1, <2>1 DEF Stop
<1>5. CASE ImageNotChosen \/ PollPortal
  BY <1>1, <1>2, <1>5
  DEF ImageNotChosen, PollPortal, Stop, ShellTypes, pageVars, ownerVars, threadVars
<1>6. CASE ImageChosen
  <2>1. Turn /\ UNCHANGED <<slot, held, page>>
        /\ \E new : pollers' \in {Tail(pollers), Append(Tail(pollers), new)}
    BY <1>6
    DEF ImageChosen, Stop, pageVars, ownerVars, threadVars, SendPrepare, Send
  <2> QED
    BY <1>1, <2>1 DEF ShellTypes
<1>7. CASE PreparationStale \/ PreparationAnswered \/ CommitStale \/ CommitAnswered
           \/ ListingAnswered \/ ViewerAnswered
  <2>1. Turn /\ \/ KeepPolling
                \/ Stop /\ UNCHANGED <<slot, pageVars>>
                     /\ (Collect(Now.token) \/ Forget(Now.token))
                \/ ListingOpens
    BY <1>7
    DEF PreparationStale, PreparationAnswered, CommitStale, CommitAnswered,
        ListingAnswered, ViewerAnswered, ListingOpens
  <2>2. CASE Stop /\ UNCHANGED <<slot, pageVars>>
               /\ (Collect(Now.token) \/ Forget(Now.token))
    <3>1. UNCHANGED <<slot, held, page>>
      BY <2>2 DEF Collect, Forget, threadVars, pageVars
    <3> QED
      BY <1>1, <2>1, <2>2, <3>1 DEF Stop, ShellTypes
  <2>3. CASE ListingOpens
    <3>0. PICK i \in Imports : \E new, c : OpenedBy(i, new, c)
      BY <2>3, OpensByItself
    <3>1. PICK new, c : OpenedBy(i, new, c)
      BY <3>0
    <3> QED
      BY <1>1, <2>1, <3>1 DEF OpenedBy, ShellTypes, pageVars
  <2> QED
    BY <1>2, <2>1, <2>2, <2>3
<1> QED
  BY <1>3, <1>4, <1>5, <1>6, <1>7 DEF Timer

\* Every step keeps them.
LEMMA ShellTypesStep ==
  ASSUME OwnerInvariant, DesktopSound, ShellTypes, [Next]_desktopVars
  PROVE  ShellTypes'
<1>1. ASSUME UNCHANGED <<slot, held, page, pollers>> PROVE ShellTypes'
  BY <1>1 DEF ShellTypes
<1>2. CASE GalleryTimer
  <2>1. CASE ClearGallery
    BY <1>1, <2>1 DEF ClearGallery, pageVars, ownerVars, threadVars
  <2>2. CASE AskListing
    <3>1. UNCHANGED <<slot, held, page>>
      BY <2>2 DEF AskListing, SendCommand, Send, pageVars
    <3>2. PICK new : ~Crowded /\ pollers' = Append(pollers, new)
      BY <2>2 DEF AskListing, StartPoller
    <3>3. MaxPollers \in Nat /\ Len(pollers) \in Nat /\ pollers \in Seq(Timers)
      BY DesktopAssumption DEF DesktopAssumption, DesktopSound
    <3>4. Len(pollers') <= MaxPollers
      BY <3>2, <3>3, TimersBounded DEF ShellTypes, Crowded
    <3> QED
      BY <3>1, <3>4 DEF ShellTypes
  <2> QED BY <1>2, <2>1, <2>2 DEF GalleryTimer
<1>3. CASE Broker
  BY <1>1, <1>3 DEF Broker, BrokerAnswers, BrokerVanishes, pageVars, ownerVars, threadVars
<1>4. ASSUME NEW s \in Sessions, Owner(s) PROVE ShellTypes'
  <2>1. held' = held
    BY <1>4
    DEF Owner, OwnerStep, OpenFails, Open, ReceiveClose, ReceiveCancelled, Receive,
        StartRegeneration, FinishList, FinishOpen, FinishPrepare, DeclineCommit, Commit,
        Regenerated, RegenerationFails, Finish
  <2> QED
    BY <1>1, <1>4, <2>1 DEF Owner, uiVars, pageVars
<1>5. CASE UNCHANGED desktopVars
  BY <1>1, <1>5 DEF desktopVars, uiVars, pageVars, ownerVars, threadVars
<1> QED
  BY <1>2, <1>3, <1>4, <1>5, UserTypes, TimerTypes DEF Next

\* Every state has its type: the session in the slot is one that the interface
\* holds, and the timers stay within their bound.
THEOREM DesktopTyped == Spec => []TypeOK
<1>1. Init => ShellTypes
  BY DesktopAssumption DEF DesktopAssumption, Init, ShellTypes, Pages
<1>2. (OwnerInvariant /\ DesktopSound /\ TilesPresent) /\ ShellTypes /\ [Next]_desktopVars
        => ShellTypes'
  BY ShellTypesStep
<1>3. OwnerInvariant /\ DesktopSound /\ ShellTypes => TypeOK
  BY DEF OwnerInvariant, OwnerTypes, DesktopSound, ShellTypes, Pages, TypeOK
<1> QED
  BY <1>1, <1>2, <1>3, DesktopStands, PTL DEF Spec

-----------------------------------------------------------------------------
(* The screen of a locked shell. *)

\* A session that is held has told whether it is open once it is not opening any more.
LEMMA ReadyStep ==
  ASSUME OwnerInvariant, ReadyTold, [OwnerNext]_ownerVars
  PROVE  ReadyTold'
<1> USE DEF ReadyTold
<1>0. /\ phase \in [Sessions -> Phases] /\ held \in [Sessions -> BOOLEAN]
      /\ ready \in [Sessions -> {"empty", "ok", "error", "taken"}]
  BY DEF OwnerInvariant, OwnerTypes
<1>1. ASSUME NEW s \in Sessions, OpenFails(s) \/ Open(s) PROVE ReadyTold'
  BY <1>0, <1>1 DEF OpenFails, Open
<1>2. ASSUME NEW s \in Sessions, ready' = ready, held' = held,
             \/ phase' = phase
             \/ phase[s] \in {"serving", "closing"}
                  /\ phase' \in {[phase EXCEPT ![s] = "closing"], [phase EXCEPT ![s] = "ended"]}
      PROVE  ReadyTold'
  BY <1>0, <1>2
<1>3. ASSUME NEW s \in Sessions, OwnerStep(s), ~OpenFails(s), ~Open(s)
      PROVE  /\ ready' = ready /\ held' = held
             /\ \/ phase' = phase
                \/ phase[s] \in {"serving", "closing"}
                     /\ phase' \in {[phase EXCEPT ![s] = "closing"], [phase EXCEPT ![s] = "ended"]}
  BY <1>3
  DEF OwnerStep, ReceiveClose, ReceiveCancelled, Receive, StartRegeneration, FinishList,
      FinishOpen, FinishPrepare, DeclineCommit, Commit, Regenerated, RegenerationFails,
      Finish, AtLoop
<1>4. ASSUME NEW s \in Sessions, NEW previous \in Sessions \cup {None}, Begin(s, previous)
      PROVE  ReadyTold'
  BY <1>0, <1>4 DEF Begin
<1>5. ASSUME NEW s \in Sessions, TakeReady(s) \/ \E keep \in BOOLEAN : Revoke(s, keep)
      PROVE  ReadyTold'
  BY <1>0, <1>5 DEF TakeReady, Revoke
<1>6. ASSUME UNCHANGED <<phase, ready, held>> PROVE ReadyTold'
  BY <1>6
<1>7. ASSUME NEW s \in Sessions, InterfaceStep(s) PROVE ReadyTold'
  BY <1>4, <1>5, <1>6, <1>7 DEF InterfaceStep, SendPrepare, SendCommand, Send
<1>8. ASSUME NEW t \in Tokens, Collect(t) \/ Forget(t) PROVE ReadyTold'
  BY <1>6, <1>8 DEF Collect, Forget, threadVars
<1>9. ASSUME UNCHANGED ownerVars PROVE ReadyTold'
  BY <1>6, <1>9 DEF ownerVars, threadVars
<1> HIDE DEF ReadyTold
<1>10. ASSUME NEW s \in Sessions, OwnerStep(s) PROVE ReadyTold'
  BY <1>1, <1>2, <1>3, <1>10
<1> QED
  BY <1>7, <1>8, <1>9, <1>10 DEF OwnerNext

\* A session does not fall silent again about being open.
LEMMA TellsOnce ==
  ASSUME NEW s \in Sessions, Owner(s), ready \in [Sessions -> {"empty", "ok", "error", "taken"}],
         slot # None, slot \in Sessions
  PROVE  ready'[slot] \in {ready[slot], "ok", "error"}
BY
DEF Owner, OwnerStep, OpenFails, Open, ReceiveClose, ReceiveCancelled, Receive,
    StartRegeneration, FinishList, FinishOpen, FinishPrepare, DeclineCommit, Commit,
    Regenerated, RegenerationFails, Finish

\* The timer that unlocks the shell stays before those that show an image.
LEMMA ReadyStaysFirst ==
  ASSUME UnlockedFirst, pollers \in Seq(Timers), NEW new, NEW d \in {0, 1}, NEW a \in {0, 1},
         Turned(new, d, a), slot' = slot, unlocked' = unlocked,
         slot # None => ready'[slot] \in {ready[slot], "ok", "error"},
         d = 1 => pollers[1].kind # "ready",
         a = 1 /\ new.kind = "viewer" /\ new.session = slot /\ slot # None /\ ~unlocked
           => ready[slot] # "empty"
  PROVE  UnlockedFirst'
<1> SUFFICES ASSUME slot # None, ~unlocked
             PROVE  /\ ready'[slot] # "taken" /\ ReadyTimers' # {}
                    /\ \A i \in ViewerTimers' :
                         ready'[slot] # "empty" /\ \E j \in ReadyTimers' : j < i
  BY DEF UnlockedFirst
<1>1. /\ Len(pollers) \in Nat /\ Len(pollers') \in Nat
      /\ \A i \in 1..Len(pollers') :
           \/ i + d \in 1..Len(pollers) /\ pollers'[i] = pollers[i + d]
           \/ a = 1 /\ i = Len(pollers') /\ pollers'[i] = new
      /\ \A i \in 1..Len(pollers) :
           i > d => i - d \in 1..Len(pollers') /\ pollers'[i - d] = pollers[i]
  BY Positions
<1>2. ASSUME NEW j \in ReadyTimers PROVE j - d \in ReadyTimers'
  <2>1. j \in 1..Len(pollers) /\ pollers[j].kind = "ready" /\ j > d
    BY <1>2 DEF ReadyTimers
  <2> QED
    BY <1>1, <2>1 DEF ReadyTimers
<1>3. ready[slot] # "taken" /\ ReadyTimers # {}
  BY DEF UnlockedFirst
<1>4. ASSUME NEW i \in ViewerTimers'
      PROVE  ready[slot] # "empty" /\ \E j \in ReadyTimers' : j < i
  <2>0. i \in 1..Len(pollers') /\ pollers'[i].kind = "viewer" /\ pollers'[i].session = slot
    BY <1>4 DEF ViewerTimers
  <2>1. CASE i + d \in 1..Len(pollers) /\ pollers'[i] = pollers[i + d]
    <3>1. i + d \in ViewerTimers
      BY <2>0, <2>1 DEF ViewerTimers
    <3>2. ready[slot] # "empty"
      BY <3>1 DEF UnlockedFirst
    <3>3. PICK j \in ReadyTimers : j < i + d
      BY <3>1 DEF UnlockedFirst
    <3>4. j \in Nat /\ j - d < i
      BY <2>0, <3>3 DEF ReadyTimers
    <3> QED
      BY <1>2, <3>2, <3>3, <3>4
  <2>2. CASE a = 1 /\ i = Len(pollers') /\ pollers'[i] = new
    <3>1. PICK j \in ReadyTimers : TRUE
      BY <1>3
    <3>2. j - d \in 1..Len(pollers') /\ pollers'[j - d].kind = "ready" /\ j - d \in ReadyTimers'
      BY <1>2 DEF ReadyTimers
    <3>3. j - d < i
      BY <1>1, <2>0, <2>2, <3>2
    <3> QED
      BY <2>0, <2>2, <3>2, <3>3
  <2> QED BY <1>1, <2>0, <2>1, <2>2
<1>5. ReadyTimers' # {}
  BY <1>2, <1>3
<1> QED
  BY <1>3, <1>4, <1>5

\* No click brings anything to the screen of a locked shell.
LEMMA UserScreen ==
  ASSUME OwnerInvariant, DesktopSound, ShellTypes, ScreenInvariant, User
  PROVE  UnlockedFirst' /\ (~unlocked' => picture' = None)
<1>0. /\ slot \in Sessions \cup {None} /\ pollers \in Seq(Timers)
      /\ page = "gallery" => unlocked
      /\ UnlockedFirst /\ (~unlocked => picture = None)
  BY DEF DesktopSound, ScreenInvariant
<1>1. ASSUME unlocked, unlocked' = unlocked
      PROVE  UnlockedFirst' /\ (~unlocked' => picture' = None)
  BY <1>1 DEF UnlockedFirst
<1>2. CASE ClickCreatePage \/ ClickBack
  <2>1. Turned(Poller("ready", None, None, None), 0, 0)
        /\ UNCHANGED <<slot, unlocked, ready, picture>>
    BY <1>2
    DEF ClickCreatePage, ClickBack, Turned, pageVars, widgetVars, ownerVars, threadVars
  <2> QED
    BY <1>0, <2>1, ReadyStaysFirst
<1>3. CASE Navigate
  BY <1>1, <1>3 DEF Navigate
<1>4. CASE (\E d \in Decisions : ClickDecision(d)) \/ (\E i \in Imports : SelectImage(i))
  BY <1>0, <1>1, <1>4 DEF ClickDecision, SelectImage, pageVars
<1>5. ASSUME NEW new, StartPoller(new), new.kind \in {"portal", "shutdown"},
             UNCHANGED <<slot, unlocked, ready, picture>>
      PROVE  UnlockedFirst' /\ (~unlocked' => picture' = None)
  <2>1. Turned(new, 0, 1)
    BY <1>5 DEF Turned, StartPoller
  <2> QED
    BY <1>0, <1>5, <2>1, ReadyStaysFirst
<1>6. CASE ClickChooser
  <2>1. PICK b : AskPortal(b)
    BY <1>6 DEF ClickChooser
  <2>2. Poller("portal", slot, None, b).kind = "portal"
    BY DEF Poller
  <2> QED
    BY <1>5, <2>1, <2>2 DEF AskPortal, pageVars, widgetVars, ownerVars, threadVars
<1>7. CASE CloseWindow
  <2>1. CASE slot = None
    BY <1>0, <1>7, <2>1 DEF CloseWindow, UnlockedFirst, pageVars, widgetVars
  <2>2. CASE slot # None
    <3>1. Poller("shutdown", slot, None, None).kind = "shutdown"
      BY DEF Poller
    <3> QED
      BY <1>5, <1>7, <2>2, <3>1 DEF CloseWindow, Revoke, pageVars, widgetVars
  <2> QED BY <2>1, <2>2
<1>8. CASE Lock
  BY <1>8 DEF Lock, TakeSession, ClearSensitive, UnlockedFirst
<1>9. CASE ClickOpen
  <2>1. PICK s \in Sessions : Begin(s, slot) /\ slot' = s
    BY <1>9 DEF ClickOpen
  <2>2. StartPoller(Poller("ready", None, None, None)) /\ UNCHANGED <<unlocked, picture>>
    BY <1>9 DEF ClickOpen, pageVars, widgetVars
  <2>3. PICK new : new = Poller("ready", None, None, None)
    OBVIOUS
  <2>4. new.kind = "ready"
    BY <2>3 DEF Poller
  <2>5. Turned(new, 0, 1)
    BY <2>2, <2>3 DEF Turned, StartPoller
  <2>6. /\ Len(pollers') \in 1..Len(pollers') /\ pollers'[Len(pollers')] = new
        /\ \A i \in 1..Len(pollers') :
             (i \in 1..Len(pollers) /\ pollers'[i] = pollers[i]) \/ pollers'[i] = new
    BY <1>0, <2>5, Positions
  <2>7. ready'[s] = "empty"
    BY <2>1 DEF Begin, ScreenInvariant, ReadyTold
  <2>8. ReadyTimers' # {}
    BY <2>4, <2>6 DEF ReadyTimers
  <2>9. ASSUME NEW i \in ViewerTimers' PROVE FALSE
    <3>1. i \in 1..Len(pollers') /\ pollers'[i].kind = "viewer" /\ pollers'[i].session = s
      BY <2>1, <2>9 DEF ViewerTimers
    <3>2. i \in 1..Len(pollers) /\ pollers'[i] = pollers[i]
      BY <2>4, <2>6, <3>1
    <3>3. SoundTimer(pollers[i])
      BY <3>2 DEF DesktopSound, Timers
    <3>4. phase[s] # "unborn"
      BY <2>1, <3>1, <3>2, <3>3, OwnerAssumption DEF SoundTimer, OwnerAssumption, Sessions
    <3> QED
      BY <2>1, <3>4 DEF Begin
  <2> QED
    BY <1>0, <2>1, <2>2, <2>7, <2>8, <2>9 DEF UnlockedFirst
<1> QED
  BY <1>2, <1>3, <1>4, <1>6, <1>7, <1>8, <1>9 DEF User

\* Nor does a timer: the one that would show an image comes after the one that unlocks.
LEMMA TimerScreen ==
  ASSUME OwnerInvariant, DesktopSound, ShellTypes, PollersApart, ListPollersAsk,
         ScreenInvariant, Timer
  PROVE  UnlockedFirst' /\ (~unlocked' => picture' = None)
<1>0. /\ slot \in Sessions \cup {None} /\ pollers \in Seq(Timers)
      /\ Turn /\ pollers # <<>>
      /\ UnlockedFirst /\ (~unlocked => picture = None)
  BY DEF DesktopSound, ScreenInvariant, Turn, Timer, PollReady, FolderChosen, PollPortal,
         ImageNotChosen, ImageChosen, PreparationStale, PreparationAnswered, CommitStale,
         CommitAnswered, ListingAnswered, ViewerAnswered, PollShutdown
<1>1. Now = pollers[1] /\ 1 \in 1..Len(pollers) /\ SoundTimer(Now)
  BY <1>0, QueueHead, NowIsTimer DEF Now, DesktopSound
<1>2. ASSUME unlocked, unlocked' = unlocked
      PROVE  UnlockedFirst' /\ (~unlocked' => picture' = None)
  BY <1>2 DEF UnlockedFirst
<1>3. ASSUME slot' = None, unlocked' = unlocked, picture' = picture
      PROVE  UnlockedFirst' /\ (~unlocked' => picture' = None)
  BY <1>0, <1>3 DEF UnlockedFirst
<1>4. ASSUME NEW new, NEW a \in {0, 1}, Turned(new, 1, a), Now.kind # "ready",
             UNCHANGED <<slot, unlocked, ready>>,
             new = Now \/ new.kind # "viewer"
               \/ (slot # None /\ ~unlocked => ready[slot] # "empty"),
             ~unlocked => picture' = picture
      PROVE  UnlockedFirst' /\ (~unlocked' => picture' = None)
  <2>1. new = Now /\ new.kind = "viewer" /\ new.session = slot /\ slot # None /\ ~unlocked
          => ready[slot] # "empty"
    BY <1>0, <1>1 DEF UnlockedFirst, ViewerTimers
  <2>2. UnlockedFirst'
    BY <1>0, <1>1, <1>4, <2>1, ReadyStaysFirst
  <2> QED
    BY <1>0, <1>4, <2>2
<1>5. ASSUME KeepPolling, Now.kind # "ready"
      PROVE  UnlockedFirst' /\ (~unlocked' => picture' = None)
  <2>1. Turned(Now, 1, 1)
    BY <1>0, <1>5 DEF Turned, KeepPolling, Again
  <2> QED
    BY <1>4, <1>5, <2>1 DEF KeepPolling, pageVars, widgetVars, ownerVars, threadVars
<1>6. ASSUME Stop, Now.kind # "ready", UNCHANGED <<slot, unlocked, ready>>,
             ~unlocked => picture' = picture
      PROVE  UnlockedFirst' /\ (~unlocked' => picture' = None)
  <2>1. Turned(Now, 1, 0)
    BY <1>0, <1>6 DEF Turned, Stop
  <2> QED
    BY <1>4, <1>6, <2>1
<1>7. CASE PollReady
  <2>1. CASE KeepPolling
    <3>0. Turned(Now, 1, 1) /\ Now.kind = "ready"
      BY <1>0, <1>7, <2>1 DEF Turned, KeepPolling, Again, PollReady
    <3>1. UNCHANGED <<slot, unlocked, ready, picture>>
      BY <2>1 DEF KeepPolling, pageVars, widgetVars, ownerVars, threadVars
    <3>2. SUFFICES ASSUME slot # None, ~unlocked
                   PROVE  /\ ready[slot] # "taken" /\ ReadyTimers' # {}
                          /\ ViewerTimers' = {}
      BY <1>0, <3>1 DEF UnlockedFirst
    <3>3. ready[slot] # "taken"
      BY <1>0, <3>2 DEF UnlockedFirst
    <3>4. /\ Len(pollers') \in 1..Len(pollers') /\ pollers'[Len(pollers')] = Now
          /\ \A i \in 1..Len(pollers') :
               \/ i + 1 \in 1..Len(pollers) /\ pollers'[i] = pollers[i + 1]
               \/ pollers'[i] = Now
      BY <1>0, <3>0, Positions
    <3>5. ReadyTimers' # {}
      BY <3>0, <3>4 DEF ReadyTimers
    <3>6. ready[slot] = "empty"
      <4>1. CASE ready[slot] \in {"ok", "error"}
        <5>1. pollers' = Tail(pollers)
          BY <1>7, <3>2, <4>1 DEF PollReady, Stop
        <5>2. Turned(Now, 1, 0)
          BY <1>0, <5>1 DEF Turned
        <5>3. Len(pollers) - 1 = Len(pollers) /\ Len(pollers) \in Nat
          BY <1>0, <3>0, <5>2, Positions
        <5> QED BY <5>3
      <4> QED
        BY <1>0, <3>2, <3>3, <4>1 DEF ScreenInvariant, ReadyTold
    <3>7. ASSUME NEW i \in ViewerTimers' PROVE FALSE
      <4>1. i \in 1..Len(pollers') /\ pollers'[i].kind = "viewer" /\ pollers'[i].session = slot
        BY <3>1, <3>7 DEF ViewerTimers
      <4>2. i + 1 \in ViewerTimers
        BY <3>0, <3>4, <4>1 DEF ViewerTimers
      <4> QED
        BY <1>0, <3>2, <3>6, <4>2 DEF UnlockedFirst
    <3> QED
      BY <3>3, <3>5, <3>7
  <2>2. CASE ~KeepPolling
    <3>1. unlocked' = TRUE \/ (slot' = None /\ unlocked' = unlocked /\ picture' = picture)
      BY <1>7, <2>2 DEF PollReady, widgetVars
    <3> QED
      BY <1>3, <3>1 DEF UnlockedFirst
  <2> QED BY <2>1, <2>2
<1>8. CASE FolderChosen \/ ImageNotChosen \/ PollPortal
  BY <1>5, <1>6, <1>8
  DEF FolderChosen, ImageNotChosen, PollPortal, pageVars, widgetVars, ownerVars, threadVars
<1>9. CASE ImageChosen
  BY <1>0, <1>1, <1>2, <1>9 DEF ImageChosen, Generation, SoundTimer, Reveals, pageVars
<1>10. CASE PreparationStale \/ PreparationAnswered \/ CommitStale
  <2>1. Now.kind # "ready"
    BY <1>10 DEF PreparationStale, PreparationAnswered, CommitStale
  <2>2. KeepPolling \/ (Stop /\ UNCHANGED <<slot, unlocked, ready, picture>>)
    BY <1>10
    DEF PreparationStale, PreparationAnswered, CommitStale, Forget, Collect, pageVars,
        threadVars
  <2> QED
    BY <1>5, <1>6, <2>1, <2>2
<1>11. CASE CommitAnswered
  BY <1>1, <1>2, <1>11, <1>5
  DEF CommitAnswered, Generation, SoundTimer, Reveals, pageVars
<1>12. CASE ViewerAnswered
  <2>0. Now.kind = "viewer" /\ Now.session \in Sessions
    BY <1>1, <1>12 DEF ViewerAnswered, SoundTimer, Reveals
  <2>1. CASE KeepPolling
    BY <1>5, <2>0, <2>1
  <2>2. CASE ~KeepPolling
    <3>1. /\ Stop /\ UNCHANGED <<slot, unlocked, ready>>
          /\ picture' = picture \/ (slot = Now.session /\ slot # None)
      <4>1. Now.session # None
        BY <2>0, OwnerAssumption DEF OwnerAssumption, Sessions
      <4> QED
        BY <1>12, <2>2, <4>1
        DEF ViewerAnswered, Show, Generation, Collect, pageVars, threadVars
    <3>2. slot = Now.session /\ slot # None => unlocked
      <4> SUFFICES ASSUME slot = Now.session, slot # None, ~unlocked PROVE FALSE
        OBVIOUS
      <4>1. 1 \in ViewerTimers
        BY <1>1, <2>0 DEF ViewerTimers
      <4>2. PICK j \in ReadyTimers : j < 1
        BY <1>0, <4>1 DEF UnlockedFirst
      <4> QED
        BY <4>2 DEF ReadyTimers
    <3> QED
      BY <1>6, <2>0, <3>1, <3>2
  <2> QED BY <2>1, <2>2
<1>13. CASE ListingAnswered
  <2>0. Now.kind = "list"
    BY <1>13 DEF ListingAnswered
  <2>1. \/ KeepPolling
        \/ Stop /\ UNCHANGED <<slot, unlocked, ready, picture>>
        \/ ListingOpens
    BY <1>13 DEF ListingAnswered, ListingOpens, Collect, pageVars, threadVars
  <2>2. CASE ListingOpens
    <3>0. PICK i \in Imports : \E new, c : OpenedBy(i, new, c)
      BY <2>2, OpensByItself
    <3>1. PICK new, c : OpenedBy(i, new, c)
      BY <3>0
    <3>2. Turned(new, 1, 1) /\ UNCHANGED <<slot, unlocked, ready, picture>>
      BY <1>0, <3>1 DEF Turned, OpenedBy, pageVars
    <3>3. slot # None => ready[slot] # "empty"
      <4>1. slot = Now.session /\ answer[Now.token] # Waiting
        BY <2>2 DEF ListingOpens, ListingApplies, Generation, Silent
      <4>2. phase[slot] # "opening"
        BY <1>1, <2>0, <4>1 DEF ListPollersAsk, ListPoller
      <4>3. slot # None => phase[slot] # "unborn" /\ held[slot] /\ slot \in Sessions
        BY <1>0 DEF DesktopSound, ShellTypes
      <4> QED
        BY <4>2, <4>3 DEF ScreenInvariant, ReadyTold
    <3> QED
      BY <1>4, <2>0, <3>2, <3>3
  <2> QED BY <1>5, <1>6, <2>0, <2>1, <2>2
<1>14. CASE PollShutdown
  <2>1. Now.kind # "ready" /\ (KeepPolling \/ (slot' = None /\ unlocked' = unlocked /\ picture' = picture))
    BY <1>14 DEF PollShutdown, pageVars, widgetVars
  <2> QED
    BY <1>3, <1>5, <2>1
<1> QED
  BY <1>7, <1>8, <1>9, <1>10, <1>11, <1>12, <1>13, <1>14 DEF Timer

\* Every step keeps the screen of a locked shell blank.
LEMMA ScreenStep ==
  ASSUME OwnerInvariant, DesktopSound, TilesPresent, ShellTypes,
         PollersApart, ListPollersAsk, ScreenInvariant, [Next]_desktopVars
  PROVE  ScreenInvariant'
<1>0. ReadyTold'
  BY Implements, ReadyStep DEF ScreenInvariant
<1> SUFFICES UnlockedFirst' /\ (~unlocked' => picture' = None)
  BY <1>0 DEF ScreenInvariant
<1>1. ASSUME UNCHANGED <<slot, unlocked, picture, pollers>>,
             slot # None => ready'[slot] \in {ready[slot], "ok", "error"}
      PROVE  UnlockedFirst' /\ (~unlocked' => picture' = None)
  <2>1. Turned(Poller("portal", None, None, None), 0, 0)
    BY <1>1 DEF Turned
  <2> QED
    BY <1>1, <2>1, ReadyStaysFirst DEF ScreenInvariant, DesktopSound
<1>2. CASE GalleryTimer
  <2>1. CASE ClearGallery
    BY <1>1, <2>1 DEF ClearGallery, pageVars, ownerVars, threadVars
  <2>2. CASE AskListing
    <3>1. PICK t \in Tokens : /\ SendCommand(slot, "ListGallery", t, None, None)
                              /\ StartPoller(Poller("list", slot, t, None))
      BY <2>2 DEF AskListing
    <3>2. PICK new : new = Poller("list", slot, t, None)
      OBVIOUS
    <3>3. new.kind = "list"
      BY <3>2 DEF Poller
    <3>4. Turned(new, 0, 1) /\ UNCHANGED <<slot, unlocked, picture, ready>>
      BY <2>2, <3>1, <3>2 DEF AskListing, Turned, StartPoller, SendCommand, Send, pageVars
    <3> QED
      BY <3>3, <3>4, ReadyStaysFirst DEF ScreenInvariant, DesktopSound
  <2> QED BY <1>2, <2>1, <2>2 DEF GalleryTimer
<1>3. CASE Broker
  BY <1>1, <1>3
  DEF Broker, BrokerAnswers, BrokerVanishes, pageVars, widgetVars, ownerVars, threadVars
<1>4. ASSUME NEW s \in Sessions, Owner(s)
      PROVE  UnlockedFirst' /\ (~unlocked' => picture' = None)
  <2>1. slot # None => ready'[slot] \in {ready[slot], "ok", "error"}
    BY <1>4, TellsOnce DEF ScreenInvariant, ReadyTold, DesktopSound
  <2> QED
    BY <1>1, <1>4, <2>1 DEF Owner, uiVars, pageVars, widgetVars
<1>5. CASE UNCHANGED desktopVars
  BY <1>1, <1>5 DEF desktopVars, uiVars, pageVars, widgetVars, ownerVars, threadVars
<1> QED
  BY <1>2, <1>3, <1>4, <1>5, UserScreen, TimerScreen DEF Next

\* Nothing decoded is displayed and no decision is offered while the shell is
\* locked, whatever arrives late (clear_sensitive and the generation checks of
\* ui.rs), and also when a listing that is answered before the shell is unlocked has
\* an image opened.
THEOREM LockBlanksTheScreen == Spec => []LockedIsBlank
<1> DEFINE Channels == ChannelsApart /\ PollersApart /\ ListPollersAsk
<1>1. Init => Channels
  <2>1. ASSUME Init PROVE \A s \in Sessions : \A n \in Places(s) : At(s, n).token = None
    BY <2>1 DEF Init, OwnerInit, Places, At, Idle, Command
  <2>2. ASSUME Init PROVE pollers = <<>> /\ \A i \in 1..Len(pollers) : FALSE
    BY <2>2 DEF Init
  <2> QED
    BY <2>1, <2>2 DEF ChannelsApart, PollersApart, ListPollersAsk
<1>2. Init => ShellTypes
  BY DesktopAssumption DEF DesktopAssumption, Init, ShellTypes, Pages
<1>3. Init => ScreenInvariant
  BY DEF Init, OwnerInit, ScreenInvariant, ReadyTold, UnlockedFirst
<1>4. (OwnerInvariant /\ DesktopSound /\ TilesPresent)
        /\ Channels /\ ShellTypes /\ ScreenInvariant /\ [Next]_desktopVars
        => Channels' /\ ShellTypes' /\ ScreenInvariant'
  BY ChannelsKept, ShellTypesStep, ScreenStep
<1>5. DesktopSound /\ ScreenInvariant => LockedIsBlank
  BY DEF DesktopSound, ControlsHidden, ScreenInvariant, LockedIsBlank
<1> HIDE DEF Channels
<1> QED
  BY <1>1, <1>2, <1>3, <1>4, <1>5, DesktopStands, PTL DEF Spec
=============================================================================
