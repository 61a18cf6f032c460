----------------------------- MODULE OwnerThread -----------------------------
(***************************************************************************)
(* The serial owner of an unlocked vault (crates/osv-app/src/runtime.rs,   *)
(* VaultSession::begin): a thread that opens the vault, answers the        *)
(* commands of the interface in their order, makes missing thumbnails while  *)
(* no command waits, and closes the vault when the session is revoked.  Of *)
(* the import (crates/osv-import/src/lib.rs) it has what the thread sees:  *)
(* a prepared image that waits for a decision, and its commit.             *)
(*                                                                         *)
(* All sessions open the same vault, whose lock one thread holds at a time.  *)
(* The interface is the environment here; module Desktop composes the two. *)
(***************************************************************************)
EXTENDS Naturals, Sequences, FiniteSets

CONSTANTS
  MaxSessions,   \* bound: sessions begun
  MaxImports,    \* bound: preparations asked for
  MaxWork,       \* bound: sessions and preparations together
  MaxTokens,     \* bound: response channels in use at a time
  Files,         \* contents of the files a user may import
  Faults,        \* what may fail
  None

ASSUME OwnerAssumption ==
  /\ MaxSessions \in Nat
  /\ MaxImports \in Nat
  /\ MaxTokens \in Nat
  /\ MaxWork \in Nat
  /\ Faults \subseteq 
       {"open", "list", "read", "image", "publish", "thumbnail", "broker"}
  /\ None \notin Nat /\ None # "ImportAnotherCopy"

Sessions == 1..MaxSessions
Imports == 1..MaxImports
Tokens == 1..MaxTokens

VARIABLES
  phase,      \* life of each session's thread
  held,       \* the interface holds the VaultSession
  ready,      \* the ready channel: "empty", "ok", "error" or "taken"
  cancelled,  \* the flag that revoke sets
  inbox,      \* commands not received yet
  hand,       \* the command, or the thumbnail, that is worked on
  pending,    \* the prepared import that waits for its commit
  backlog,    \* images without a thumbnail, to be regenerated
  tally,      \* MaintenanceStatus without `running`
  revision,   \* catalog_revision
  answer,     \* response channel of each token
  source,     \* content of the file of each preparation
  library,    \* images in the vault, by the preparation they come from
  copies      \* imports made as another copy of a duplicate (history)

threadVars == <<phase, held, ready, cancelled, inbox, hand, pending, backlog,
                tally, revision>>
storeVars == <<source, library, copies>>
ownerVars == <<threadVars, answer, storeVars>>

Phases == {"unborn", "opening", "serving", "closing", "ended"}
Decisions == {None, "Skip", "ImportAnotherCopy"}

\* An image without and with a thumbnail.
ImageStates == {"absent", "bare", "whole"}
Present == {i \in Imports : library[i] # "absent"}

HasWork ==
  Cardinality({s \in Sessions : phase[s] # "unborn"}) + Len(source) < MaxWork

-----------------------------------------------------------------------------
(* Commands and their answers. *)

Command(kind, token, subject, decision) ==
  [kind |-> kind, token |-> token, subject |-> subject, decision |-> decision]

Close == Command("Close", None, None, None)

\* Work on a thumbnail between two commands, and none at all.
Regeneration(i) == Command("Regenerate", None, i, None)
Idle == Command("Idle", None, None, None)

\* No request, one that waits, one whose receiver is gone, one whose sender is.
Free == [is |-> "free"]
Waiting == [is |-> "waiting"]
Forgotten == [is |-> "forgotten"]
Dropped == [is |-> "dropped"]
Answered == {"dropped", "snapshot", "opened", "preview", "imported", "skipped",
             "error"}

Refusal(error) == [is |-> "error", error |-> error]

\* send on a channel whose receiver is gone fails, and is ignored.
Reply(token, result) ==
  answer' = [answer EXCEPT ![token] =
               IF @ = Forgotten THEN Free ELSE result]

\* The commands that the thread leaves behind are dropped with their senders.
Abandon(s) ==
  LET left == {inbox[s][i].token : i \in 1..Len(inbox[s])} \ {None}
  IN /\ answer' = [t \in Tokens |->
                     IF t \notin left THEN answer[t]
                     ELSE IF answer[t] = Forgotten THEN Free ELSE Dropped]
     /\ inbox' = [inbox EXCEPT ![s] = <<>>]

-----------------------------------------------------------------------------
(* What the interface does with a VaultSession. *)

\* Closed is the error of a command when the thread has ended.
Closed(s) == phase[s] = "ended"

\* The commands of a session that is revoked, and a mutant: the flag alone.
EndingByFlag(s) == inbox[s]

Ending(s) == IF Closed(s) THEN inbox[s] ELSE Append(inbox[s], Close)

\* VaultSession::begin, in the place of a session that is revoked.
Begin(s, previous) ==
  /\ phase[s] = "unborn" /\ \A r \in 1..(s - 1) : phase[r] # "unborn"
  /\ HasWork
  /\ previous # None => held[previous]
  /\ phase' = [phase EXCEPT ![s] = "opening"]
  /\ held' = [r \in Sessions |-> r = s \/ (held[r] /\ r # previous)]
  /\ cancelled' = [r \in Sessions |-> r = previous \/ cancelled[r]]
  /\ inbox' = [r \in Sessions |-> IF r = previous THEN Ending(r) ELSE inbox[r]]
  /\ UNCHANGED <<ready, hand, pending, backlog, tally, revision, answer,
                 storeVars>>

\* A new channel: the first that is not in use.
Fresh(t) == answer[t] = Free /\ \A u \in 1..(t - 1) : answer[u] # Free

\* One that is not in use, or whose answer is collected in the same step.
Vacant(t) == answer[t] = Free \/ answer[t].is \in Answered

Send(s, command) ==
  /\ held[s] /\ ~Closed(s)
  /\ Vacant(command.token)
  /\ answer' = [answer EXCEPT ![command.token] = Waiting]
  /\ inbox' = [inbox EXCEPT ![s] = Append(@, command)]
  /\ UNCHANGED <<phase, held, ready, cancelled, hand, pending, backlog, tally,
                 revision>>

\* prepare_import takes a new PreparationId for the file.
SendPrepare(s, t, file) ==
  /\ Len(source) < MaxImports /\ HasWork
  /\ source' = Append(source, file)
  /\ Send(s, Command("PrepareImport", t, Len(source) + 1, None))
  /\ UNCHANGED <<library, copies>>

SendCommand(s, kind, t, subject, decision) ==
  /\ Send(s, Command(kind, t, subject, decision))
  /\ UNCHANGED storeVars

\* revoke; the session itself stays with the interface, or is dropped.  (The
\* second Close of the drop is never received.)
Revoke(s, keep) ==
  /\ held[s]
  /\ cancelled' = [cancelled EXCEPT ![s] = TRUE]
  /\ inbox' = [inbox EXCEPT ![s] = Ending(s)]
  /\ held' = [held EXCEPT ![s] = keep]
  /\ UNCHANGED <<phase, ready, hand, pending, backlog, tally, revision, answer,
                 storeVars>>

\* try_ready.
TakeReady(s) ==
  /\ held[s] /\ ready[s] \in {"ok", "error"}
  /\ ready' = [ready EXCEPT ![s] = "taken"]
  /\ UNCHANGED <<phase, held, cancelled, inbox, hand, pending, backlog, tally,
                 revision, answer, storeVars>>

\* A poller receives an answer, or is given up before it comes.
Collect(t) ==
  /\ answer[t].is \in Answered
  /\ answer' = [answer EXCEPT ![t] = Free]
  /\ UNCHANGED <<threadVars, storeVars>>

Forget(t) ==
  /\ answer' = [answer EXCEPT ![t] = IF @ = Waiting THEN Forgotten ELSE Free]
  /\ UNCHANGED <<threadVars, storeVars>>

-----------------------------------------------------------------------------
(* The thread. *)

\* The vault's lock is held from the open to the end of the close.
Holders == {s \in Sessions : phase[s] \in {"serving", "closing"}}

OpenFails(s) ==
  /\ phase[s] = "opening"
  /\ Holders # {} \/ "open" \in Faults
  /\ phase' = [phase EXCEPT ![s] = "ended"]
  /\ ready' = [ready EXCEPT ![s] = "error"]
  /\ Abandon(s)
  /\ UNCHANGED <<held, cancelled, hand, pending, backlog, tally, revision,
                 storeVars>>

\* derived_needing_recipe.
Bare == {i \in Imports : library[i] = "bare"}

\* The identifiers of images are random, and so is their order.
Orders(images) ==
  {q \in [1..Cardinality(images) -> images] :
     \A i, j \in DOMAIN q : q[i] = q[j] => i = j}

\* A session that was dropped meanwhile is closed again at once.
Open(s) ==
  /\ phase[s] = "opening" /\ Holders = {}
  /\ IF held[s]
     THEN /\ phase' = [phase EXCEPT ![s] = "serving"]
          /\ ready' = [ready EXCEPT ![s] = "ok"]
          /\ \E queue \in Orders(Bare) : backlog' = [backlog EXCEPT ![s] = queue]
          /\ tally' = [tally EXCEPT ![s].total = Cardinality(Bare)]
     ELSE /\ phase' = [phase EXCEPT ![s] = "closing"]
          /\ UNCHANGED <<ready, backlog, tally>>
  /\ UNCHANGED <<held, cancelled, inbox, hand, pending, revision, answer,
                 storeVars>>

AtLoop(s) == phase[s] = "serving" /\ hand[s] = Idle

\* Close, with the flag or without it.
ReceiveClose(s) ==
  /\ AtLoop(s) /\ inbox[s] # <<>> /\ Head(inbox[s]) = Close
  /\ phase' = [phase EXCEPT ![s] = "closing"]
  /\ inbox' = [inbox EXCEPT ![s] = Tail(@)]
  /\ UNCHANGED <<held, ready, cancelled, hand, pending, backlog, tally,
                 revision, answer, storeVars>>

\* A revoked session answers what is still in the queue.
ReceiveCancelled(s) ==
  /\ AtLoop(s) /\ inbox[s] # <<>> /\ Head(inbox[s]) # Close
  /\ cancelled[s]
  /\ inbox' = [inbox EXCEPT ![s] = Tail(@)]
  /\ Reply(Head(inbox[s]).token, Refusal("Cancelled"))
  /\ UNCHANGED <<phase, held, ready, cancelled, hand, pending, backlog, tally,
                 revision, storeVars>>

\* A new preparation gives up the one that waits.
Receive(s) ==
  /\ AtLoop(s) /\ inbox[s] # <<>> /\ Head(inbox[s]) # Close
  /\ ~cancelled[s]
  /\ inbox' = [inbox EXCEPT ![s] = Tail(@)]
  /\ hand' = [hand EXCEPT ![s] = Head(inbox[s])]
  /\ pending' = IF Head(inbox[s]).kind = "PrepareImport"
                THEN [pending EXCEPT ![s] = None] ELSE pending
  /\ UNCHANGED <<phase, held, ready, cancelled, backlog, tally, revision,
                 answer, storeVars>>

\* recv_timeout: no command for 50 ms.
StartRegeneration(s) ==
  /\ AtLoop(s) /\ inbox[s] = <<>> /\ backlog[s] # <<>>
  /\ hand' = [hand EXCEPT ![s] = Regeneration(Head(backlog[s]))]
  /\ backlog' = [backlog EXCEPT ![s] = Tail(@)]
  /\ UNCHANGED <<phase, held, ready, cancelled, inbox, pending, tally,
                 revision, answer, storeVars>>

Working(s, kind) == phase[s] = "serving" /\ hand[s].kind = kind

Rest(s) == hand' = [hand EXCEPT ![s] = Idle]

\* The errors of a call that reads, decodes or publishes.
Errors(s, fault) ==
  (IF fault \in Faults THEN {"Input"} ELSE {})
    \cup (IF cancelled[s] THEN {"Cancelled"} ELSE {})

\* list_gallery: every image, and whether it has a thumbnail.
Listed ==
  {[is |-> "snapshot", images |-> library]}
    \cup {Refusal("Input") : f \in Faults \cap {"list"}}

FinishList(s) ==
  /\ Working(s, "ListGallery")
  /\ \E result \in Listed : Reply(hand[s].token, result)
  /\ Rest(s)
  /\ UNCHANGED <<phase, held, ready, cancelled, inbox, pending, backlog, tally,
                 revision, storeVars>>

\* open_viewer decodes the original of an image, open_thumbnail its thumbnail.
Opened(s) ==
  LET i == hand[s].subject IN
  IF library[i] = "absent" \/ (hand[s].kind = "OpenThumbnail" /\ library[i] = "bare")
  THEN {Refusal("Input")}
  ELSE {[is |-> "opened", image |-> i]}
         \cup {Refusal(e) : e \in Errors(s, "read")}

FinishOpen(s) ==
  /\ Working(s, "OpenViewer") \/ Working(s, "OpenThumbnail")
  /\ \E result \in Opened(s) : Reply(hand[s].token, result)
  /\ Rest(s)
  /\ UNCHANGED <<phase, held, ready, cancelled, inbox, pending, backlog, tally,
                 revision, storeVars>>

\* Mutant: an image without a thumbnail is not found.
DuplicateShown(file) == \E i \in Imports : library[i] = "whole" /\ source[i] = file

Duplicate(file) == \E i \in Present : source[i] = file

\* prepare_import: the duplicate is looked up when the image is prepared.
FinishPrepare(s) ==
  LET id == hand[s].subject
      duplicate == Duplicate(source[id])
  IN /\ Working(s, "PrepareImport")
     /\ \/ /\ pending' = [pending EXCEPT ![s] =
                            [id |-> id, duplicate |-> duplicate]]
           /\ Reply(hand[s].token, [is |-> "preview", duplicate |-> duplicate])
        \/ \E e \in Errors(s, "image") :
             Reply(hand[s].token, Refusal(e)) /\ UNCHANGED pending
     /\ Rest(s)
     /\ UNCHANGED <<phase, held, ready, cancelled, inbox, backlog, tally,
                    revision, storeVars>>

\* take_pending_for.
IsPending(s) == pending[s] # None /\ pending[s].id = hand[s].subject

\* commit_import: a duplicate asks for a decision, and only a duplicate does.
Accepted(s) ==
  /\ IsPending(s)
  /\ hand[s].decision = IF pending[s].duplicate THEN "ImportAnotherCopy" ELSE None

Declined(s) ==
  IF ~IsPending(s) \/ ~pending[s].duplicate THEN Refusal("Input")
  ELSE IF hand[s].decision = None THEN Refusal("Duplicate")
  ELSE [is |-> "skipped"]

Consume(s) ==
  pending' = IF IsPending(s) THEN [pending EXCEPT ![s] = None] ELSE pending

DeclineCommit(s) ==
  /\ Working(s, "CommitImport")
  /\ \/ ~Accepted(s) /\ Reply(hand[s].token, Declined(s))
     \/ /\ Accepted(s) /\ "publish" \in Faults
        /\ Reply(hand[s].token, Refusal("Input"))
  /\ Consume(s)
  /\ Rest(s)
  /\ UNCHANGED <<phase, held, ready, cancelled, inbox, backlog, tally,
                 revision, storeVars>>

\* Listings made so far are out of date.  Mutant: only a thumbnail counts.
Unchanged(s) ==
  revision' = [revision EXCEPT ![s] = IF hand[s].kind = "Regenerate" THEN @ + 1
                                      ELSE @]

Changed(s) == revision' = [revision EXCEPT ![s] = @ + 1]

\* The original is committed; its thumbnail may fail, and is queued again then.
Commit(s) ==
  /\ Working(s, "CommitImport") /\ Accepted(s)
  /\ \E made \in {"whole"} \cup {"bare" : f \in Faults \cap {"thumbnail"}} :
       LET id == hand[s].subject
           missing == made = "bare"
       IN /\ library' = [library EXCEPT ![id] = made]
          /\ backlog' = IF missing
                        THEN [backlog EXCEPT ![s] = Append(@, id)]
                        ELSE backlog
          /\ tally' = IF missing THEN [tally EXCEPT ![s].total = @ + 1]
                      ELSE tally
          /\ copies' = IF hand[s].decision = None THEN copies
                       ELSE copies \cup {id}
          /\ Reply(hand[s].token, [is |-> "imported", image |-> id])
  /\ Changed(s)
  /\ Consume(s)
  /\ Rest(s)
  /\ UNCHANGED <<phase, held, ready, cancelled, inbox, source>>

\* regenerate_image_thumbnail_cancellable_observed; a failure is not retried in
\* this session, and counted unless the session is revoked.
FailureCounted(s) ==
  IF cancelled[s] THEN tally ELSE [tally EXCEPT ![s].failed = @ + 1]

Regenerated(s) ==
  /\ Working(s, "Regenerate")
  /\ library' = [library EXCEPT ![hand[s].subject] = "whole"]
  /\ tally' = [tally EXCEPT ![s].completed = @ + 1]
  /\ Changed(s)
  /\ Rest(s)
  /\ UNCHANGED <<phase, held, ready, cancelled, inbox, pending, backlog, answer,
                 source, copies>>

RegenerationFails(s) ==
  /\ Working(s, "Regenerate")
  /\ Errors(s, "thumbnail") # {}
  /\ tally' = FailureCounted(s)
  /\ Rest(s)
  /\ UNCHANGED <<phase, held, ready, cancelled, inbox, pending, backlog,
                 revision, answer, storeVars>>

\* vault.close(), whose error is ignored, and the end of the thread.
Finish(s) ==
  /\ phase[s] = "closing"
  /\ phase' = [phase EXCEPT ![s] = "ended"]
  /\ pending' = [pending EXCEPT ![s] = None]
  /\ backlog' = [backlog EXCEPT ![s] = <<>>]
  /\ Abandon(s)
  /\ UNCHANGED <<held, ready, cancelled, hand, tally, revision, storeVars>>

OwnerStep(s) ==
  \/ OpenFails(s) \/ Open(s)
  \/ ReceiveClose(s) \/ ReceiveCancelled(s) \/ Receive(s)
  \/ StartRegeneration(s)
  \/ FinishList(s) \/ FinishOpen(s) \/ FinishPrepare(s)
  \/ DeclineCommit(s) \/ Commit(s)
  \/ Regenerated(s) \/ RegenerationFails(s)
  \/ Finish(s)

-----------------------------------------------------------------------------
(* The owner threads with any interface. *)

OwnerInit ==
  /\ phase = [s \in Sessions |-> "unborn"]
  /\ held = [s \in Sessions |-> FALSE]
  /\ ready = [s \in Sessions |-> "empty"]
  /\ cancelled = [s \in Sessions |-> FALSE]
  /\ inbox = [s \in Sessions |-> <<>>]
  /\ hand = [s \in Sessions |-> Idle]
  /\ pending = [s \in Sessions |-> None]
  /\ backlog = [s \in Sessions |-> <<>>]
  /\ tally = [s \in Sessions |-> [total |-> 0, completed |-> 0, failed |-> 0]]
  /\ revision = [s \in Sessions |-> 0]
  /\ answer = [t \in Tokens |-> Free]
  /\ source = <<>>
  /\ library = [i \in Imports |-> "absent"]
  /\ copies = {}

InterfaceStep(s) ==
  \/ \E previous \in Sessions \cup {None} : Begin(s, previous)
  \/ TakeReady(s)
  \/ \E keep \in BOOLEAN : Revoke(s, keep)
  \/ \E t \in Tokens, f \in Files : SendPrepare(s, t, f)
  \/ \E t \in Tokens : SendCommand(s, "ListGallery", t, None, None)
  \/ \E t \in Tokens, i \in Present, kind \in {"OpenViewer", "OpenThumbnail"} :
       SendCommand(s, kind, t, i, None)
  \/ \E t \in Tokens, d \in Decisions, i \in Imports :
       SendCommand(s, "CommitImport", t, i, d)

OwnerNext ==
  \/ \E s \in Sessions : OwnerStep(s) \/ InterfaceStep(s)
  \/ \E t \in Tokens : Collect(t) \/ Forget(t)

OwnerSpec == OwnerInit /\ [][OwnerNext]_ownerVars

-----------------------------------------------------------------------------
(* Properties. *)

\* Of the images with one content at most one was imported without the choice
\* of another copy: the lookup at prepare time is still right when the import
\* commits (has_fingerprint in prepare_image_import_cancellable, commit_import).
NoSilentDuplicate ==
  \A i, j \in Present \ copies : source[i] = source[j] => i = j

\* The counters shown as maintenance status account for every thumbnail that
\* the session has found missing, up to the revocation (MaintenanceStatus).
MaintenanceAccounted ==
  \A s \in Sessions :
    phase[s] = "serving" /\ ~cancelled[s] =>
      tally[s].total = tally[s].completed + tally[s].failed + Len(backlog[s])
                         + (IF Working(s, "Regenerate") THEN 1 ELSE 0)

-----------------------------------------------------------------------------
(* The inductive invariant of the two. *)

CommandKinds == {"ListGallery", "OpenViewer", "OpenThumbnail", "PrepareImport",
                 "CommitImport", "Close"}

Commands(kinds) ==
  [kind : kinds, token : Tokens \cup {None}, subject : Nat \cup {None},
   decision : Decisions]

OwnerTypes ==
  /\ phase \in [Sessions -> Phases]
  /\ held \in [Sessions -> BOOLEAN] /\ cancelled \in [Sessions -> BOOLEAN]
  /\ inbox \in [Sessions -> Seq(Commands(CommandKinds))]
  /\ hand \in [Sessions -> Commands(CommandKinds \cup {"Regenerate", "Idle"})]
  /\ DOMAIN pending = Sessions
  /\ backlog \in [Sessions -> Seq(Imports)]
  /\ tally \in [Sessions -> [total : Nat, completed : Nat, failed : Nat]]
  /\ source \in Seq(Files) /\ Len(source) <= MaxImports
  /\ library \in [Imports -> ImageStates]
  /\ \A i \in Present : i <= Len(source)

\* The vault has one owner.
OneHolder == \A s, r \in Holders : s = r

\* A preparation that is asked for has a number, also while it is worked on.
Numbered(command) ==
  command.kind = "PrepareImport" => command.subject \in 1..Len(source)

AllNumbered ==
  \A s \in Sessions :
    /\ Numbered(hand[s])
    /\ \A i \in 1..Len(inbox[s]) : Numbered(inbox[s][i])

\* Only the owner works, has a prepared import, and knows thumbnails to make.
OnlyHolderWorks ==
  \A s \in Sessions :
    /\ hand[s].kind # "Idle" => phase[s] = "serving"
    /\ pending[s] # None =>
         /\ s \in Holders
         /\ pending[s] \in [id : 1..Len(source), duplicate : BOOLEAN]
    /\ phase[s] \in {"unborn", "opening"} =>
         backlog[s] = <<>> /\ tally[s] = [total |-> 0, completed |-> 0, failed |-> 0]

\* A thumbnail is made for an image of the vault.
BacklogPresent ==
  \A s \in Holders :
    /\ \A i \in 1..Len(backlog[s]) : backlog[s][i] \in Present
    /\ hand[s].kind = "Regenerate" => hand[s].subject \in Present

\* What was not a duplicate when it was prepared is none until it is committed.
PendingFresh ==
  \A s \in Sessions :
    pending[s] # None =>
      (~pending[s].duplicate =>
         \A i \in Present : source[i] # source[pending[s].id])

\* An image that an answer lists is in the vault.
AnswersPresent ==
  /\ DOMAIN answer = Tokens
  /\ \A t \in Tokens :
       answer[t].is = "snapshot" =>
         \A i \in Imports : answer[t].images[i] # "absent" => i \in Present

OwnerInvariant ==
  /\ OwnerTypes /\ OneHolder /\ AllNumbered /\ OnlyHolderWorks
  /\ BacklogPresent /\ PendingFresh
  /\ NoSilentDuplicate /\ MaintenanceAccounted
=============================================================================
