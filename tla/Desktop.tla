------------------------------- MODULE Desktop -------------------------------
(***************************************************************************)
(* The main loop of the application (crates/osv-app/src/ui.rs) over the    *)
(* owner threads of its sessions: the pages and their buttons, the portal  *)
(* choosers (portal.rs), the import with its decision, the gallery and the *)
(* viewer, lock, and closing the window.  Each click, timer and callback   *)
(* runs to its end before the next.                                        *)
(*                                                                         *)
(* Answers are polled for by timers of 20 ms each.  GLib fires timers of   *)
(* one interval in turn, older ones first when several are late: a timer   *)
(* does not fire before all that are older have fired since it was created  *)
(* or fired last.                                                          *)
(***************************************************************************)
EXTENDS OwnerThread

CONSTANTS
  MaxPollers,  \* bound: timers of 20 ms at a time
  Choosers,    \* chooser buttons: a vault's folder, a place for a new one, an
               \* image
  Outcomes     \* datagrams that a broker may send

ASSUME DesktopAssumption ==
  /\ MaxPollers \in Nat
  /\ Choosers \subseteq {"folder", "place", "image"}
  /\ Outcomes \subseteq {"selected", "cancelled", "failed"}
  /\ None \notin Sessions \X Nat

VARIABLES
  slot,       \* the VaultSession of the window
  unlocked,   \* ShellState::is_unlocked
  page,       \* the visible page
  folder,     \* a folder has been chosen: vault_authority
  chooser,    \* the portal broker that each chooser button has started
  pollers,    \* the timers, the one whose turn it is first
  authority,  \* selected_authority: the file of the import in preparation
  active,     \* active_preparation
  controls,   \* visible decision buttons: "hidden", "confirm" or "choice"
  sensitive,  \* they can be pressed
  picture,    \* what the viewer shows: an image of a session
  view,       \* the listing in the gallery
  loaded,     \* loaded_revision: the session and revision that were asked for
  window,     \* "open", "closing" or "gone"
  previewed   \* preparation whose preview was displayed last (history)

importVars == <<authority, active, controls, sensitive>>
widgetVars == <<importVars, picture, view, loaded>>
pageVars == <<unlocked, page, folder>>
uiVars == <<slot, pageVars, chooser, pollers, widgetVars, window, previewed>>
desktopVars == <<ownerVars, uiVars>>

\* A timer that polls: what for, of which session, at which channel.
Poller(kind, session, token, subject) ==
  [kind |-> kind, session |-> session, token |-> token, subject |-> subject]

StartPoller(p) == pollers' = Append(pollers, p)

Crowded == Len(pollers) >= MaxPollers

Generation(s) == slot = s

-----------------------------------------------------------------------------
(* Pages. *)

\* welcome_page: a second click waits until the chooser has answered.
ClickCreatePage ==
  /\ page = "choose"
  /\ page' = "create"
  /\ UNCHANGED <<ownerVars, slot, unlocked, folder, chooser, pollers,
                 widgetVars, window, previewed>>

\* Back on the create page and on the error page.
ClickBack ==
  /\ page \in {"create", "error"}
  /\ page' = "choose"
  /\ UNCHANGED <<ownerVars, slot, unlocked, folder, chooser, pollers,
                 widgetVars, window, previewed>>

\* Sidebar buttons and shortcuts: navigate.  (The other vault pages show nothing
\* of the vault.)
Navigate ==
  /\ unlocked /\ page # "gallery"
  /\ page' = "gallery"
  /\ UNCHANGED <<ownerVars, slot, unlocked, folder, chooser, pollers,
                 widgetVars, window, previewed>>

\* begin_vault_session: a session in the slot is revoked and replaced.
ClickOpen ==
  /\ page \in {"unlock", "create"} /\ folder
  /\ ~Crowded
  /\ \E s \in Sessions : Begin(s, slot) /\ slot' = s
  /\ StartPoller(Poller("ready", None, None, None))
  /\ UNCHANGED <<pageVars, chooser, widgetVars, window, previewed>>

\* An image of a session is displayed only while it is the window's session.
\* Mutant: whenever it arrives.
ShowLate(s, i) == [session |-> s, image |-> i]

Show(s, i) == IF Generation(s) THEN [session |-> s, image |-> i] ELSE picture

\* clear_sensitive_*; active_preparation keeps its value.
ClearSensitive ==
  /\ authority' = FALSE
  /\ controls' = "hidden" /\ sensitive' = TRUE
  /\ picture' = None
  /\ view' = None
  /\ UNCHANGED <<active, loaded>>

\* The session is dropped.  Mutant: but stays in the slot.
TakeNothing == UNCHANGED slot

TakeSession == slot' = None

\* The Lock button of the vault pages, and the shortcut wherever the shell is
\* unlocked.
Lock ==
  /\ page = "gallery" \/ unlocked
  /\ IF slot = None THEN UNCHANGED ownerVars ELSE Revoke(slot, FALSE)
  /\ TakeSession
  /\ ClearSensitive
  /\ unlocked' = FALSE
  /\ page' = "choose"
  /\ UNCHANGED <<folder, chooser, pollers, window, previewed>>

-----------------------------------------------------------------------------
(* Portal choosers: select starts a broker and a thread that receives its   *)
(* one datagram and reaps it.                                              *)

NoBroker == [at |-> "idle"]

AskPortal(b) ==
  /\ b \in Choosers /\ chooser[b] = NoBroker
  /\ ~Crowded
  /\ chooser' = [chooser EXCEPT ![b] = [at |-> "dialog"]]
  /\ StartPoller(Poller("portal", slot, None, b))
  /\ UNCHANGED <<ownerVars, slot, pageVars, widgetVars, window, previewed>>

\* The button that was clicked is insensitive until then; the others are not.
ClickChooser ==
  \/ page = "choose" /\ AskPortal("folder")
  \/ page = "create" /\ AskPortal("place")
  \/ /\ page = "gallery" /\ slot # None /\ Len(source) < MaxImports /\ HasWork
     /\ AskPortal("image")

\* The broker sends its datagram and exits; the thread receives it and reaps the
\* child ...
BrokerAnswers(b, outcome) ==
  /\ chooser[b].at = "dialog"
  /\ chooser' = [chooser EXCEPT ![b] = [at |-> "reaped", outcome |-> outcome]]
  /\ UNCHANGED <<ownerVars, slot, pageVars, pollers, widgetVars, window,
                 previewed>>

\* ... or the broker exits without one: it crashes, or cannot open what was
\* selected (send_selected).  A datagram socket tells nobody that its peer is
\* gone: the thread's recvmsg blocks.
BrokerVanishes(b) ==
  /\ "broker" \in Faults
  /\ chooser[b].at = "dialog"
  /\ chooser' = [chooser EXCEPT ![b] = [at |-> "vanished"]]
  /\ UNCHANGED <<ownerVars, slot, pageVars, pollers, widgetVars, window,
                 previewed>>

-----------------------------------------------------------------------------
(* Timers. *)

Turn == pollers # <<>>
Now == Head(pollers)
Stop == pollers' = Tail(pollers)
Again == pollers' = Append(Tail(pollers), Now)

\* Nothing has come yet.
Silent == answer[Now.token] = Waiting

KeepPolling ==
  /\ Again
  /\ UNCHANGED <<ownerVars, slot, pageVars, chooser, widgetVars, window,
                 previewed>>

\* The timer of begin_vault_session asks whatever session is in the slot.
PollReady ==
  /\ Turn /\ Now.kind = "ready"
  /\ \/ /\ slot # None => ready[slot] \notin {"ok", "error"} /\ ~Closed(slot)
        /\ KeepPolling
     \/ /\ slot # None /\ ready[slot] = "ok"
        /\ Stop
        /\ TakeReady(slot)
        /\ unlocked' = TRUE /\ page' = "gallery"
        /\ UNCHANGED <<slot, folder, chooser, widgetVars, window, previewed>>
     \/ /\ slot # None
        /\ ready[slot] # "ok" /\ (ready[slot] = "error" \/ Closed(slot))
        /\ Stop
        /\ Revoke(slot, FALSE)
        /\ slot' = None
        /\ page' = "error"
        /\ UNCHANGED <<unlocked, folder, chooser, widgetVars, window,
                       previewed>>

\* A selected folder opens the unlock page; a place is kept for the create page.
FolderChosen ==
  /\ Turn /\ Now.kind = "portal" /\ Now.subject \in {"folder", "place"}
  /\ chooser[Now.subject].at = "reaped"
  /\ Stop
  /\ chooser' = [chooser EXCEPT ![Now.subject] = NoBroker]
  /\ folder' = (folder \/ chooser[Now.subject].outcome = "selected")
  /\ page' = IF Now.subject = "place" \/ chooser[Now.subject].outcome = "cancelled"
             THEN page
             ELSE IF chooser[Now.subject].outcome = "selected" THEN "unlock"
             ELSE "error"
  /\ UNCHANGED <<ownerVars, slot, unlocked, widgetVars, window, previewed>>

PollPortal ==
  /\ Turn /\ Now.kind = "portal"
  /\ chooser[Now.subject].at # "reaped"
  /\ KeepPolling

\* A selection for another session than the one that asked is dropped.
\* Mutant: without the button.
LeaveButton == UNCHANGED chooser

EnableButton == chooser' = [chooser EXCEPT !["image"] = NoBroker]

ImageNotChosen ==
  /\ Turn /\ Now.kind = "portal" /\ Now.subject = "image"
  /\ chooser["image"].at = "reaped"
  /\ ~Generation(Now.session) \/ chooser["image"].outcome # "selected"
  /\ Stop
  /\ EnableButton
  /\ UNCHANGED <<ownerVars, slot, pageVars, widgetVars, window, previewed>>

\* Mutant: the buttons of the old preview stay.
LeaveOldPreview == UNCHANGED controls

HideOldPreview == controls' = "hidden"

\* The import button: the old controls are hidden, the file is handed over.
ImageChosen ==
  /\ Turn /\ Now.kind = "portal" /\ Now.subject = "image"
  /\ chooser["image"].at = "reaped"
  /\ Generation(Now.session) /\ chooser["image"].outcome = "selected"
  /\ chooser' = [chooser EXCEPT !["image"] = NoBroker]
  /\ HideOldPreview
  /\ IF Closed(slot)
     THEN /\ Stop
          /\ active' = None /\ authority' = FALSE
          /\ UNCHANGED ownerVars
     ELSE \E t \in Tokens, f \in Files :
          /\ Fresh(t) /\ SendPrepare(slot, t, f)
          /\ active' = Len(source) + 1 /\ authority' = TRUE
          /\ pollers' = Append(Tail(pollers),
                          Poller("prepare", slot, t, Len(source) + 1))
  /\ UNCHANGED <<slot, pageVars, sensitive, picture, view, loaded, window,
                 previewed>>

\* A poller of an older session, or of a preparation that was replaced, gives
\* its channel up.
PreparationStale ==
  /\ Turn /\ Now.kind = "prepare"
  /\ ~Generation(Now.session) \/ active # Now.subject
  /\ Stop
  /\ Forget(Now.token)
  /\ authority' = (authority /\ Generation(Now.session))
  /\ UNCHANGED <<slot, pageVars, chooser, active, controls, sensitive, picture,
                 view, loaded, window, previewed>>

\* Mutant: not after a preview.
ReleaseAfterError ==
  authority' = (authority /\ answer[Now.token].is = "preview")

Release == authority' = FALSE

PreparationAnswered ==
  /\ Turn /\ Now.kind = "prepare"
  /\ Generation(Now.session) /\ active = Now.subject
  /\ \/ Silent /\ KeepPolling
     \/ /\ ~Silent
        /\ Stop
        /\ Collect(Now.token)
        /\ Release
        /\ IF answer[Now.token].is = "preview"
           THEN /\ controls' = IF answer[Now.token].duplicate THEN "choice"
                               ELSE "confirm"
                /\ previewed' = Now.subject
                /\ UNCHANGED active
           ELSE active' = None /\ UNCHANGED <<controls, previewed>>
        /\ UNCHANGED <<slot, pageVars, chooser, sensitive, picture, view,
                       loaded, window>>

\* The buttons Import, Skip duplicate and Import another copy.
ClickDecision(decision) ==
  /\ page = "gallery" /\ sensitive
  /\ controls = IF decision = None THEN "confirm" ELSE "choice"
  /\ active # None /\ slot # None /\ ~Closed(slot)
  /\ ~Crowded
  /\ sensitive' = FALSE
  /\ \E t \in Tokens :
       /\ Fresh(t) /\ SendCommand(slot, "CommitImport", t, active, decision)
       /\ StartPoller(Poller("commit", slot, t, active))
  /\ UNCHANGED <<slot, pageVars, chooser, authority, active, controls, picture,
                 view, loaded, window, previewed>>

CommitStale ==
  /\ Turn /\ Now.kind = "commit"
  /\ ~Generation(Now.session)
  /\ Stop
  /\ Forget(Now.token)
  /\ authority' = FALSE
  /\ UNCHANGED <<slot, pageVars, chooser, active, controls, sensitive, picture,
                 view, loaded, window, previewed>>

\* Whatever the answer, the decision is over.
CommitAnswered ==
  /\ Turn /\ Now.kind = "commit"
  /\ Generation(Now.session)
  /\ \/ Silent /\ KeepPolling
     \/ /\ ~Silent
        /\ Stop
        /\ Collect(Now.token)
        /\ picture' = IF answer[Now.token].is = "imported"
                      THEN Show(slot, Now.subject) ELSE picture
        /\ authority' = FALSE
        /\ active' = IF active = Now.subject THEN None ELSE active
        /\ controls' = "hidden" /\ sensitive' = TRUE
        /\ UNCHANGED <<slot, pageVars, chooser, view, loaded, window, previewed>>

-----------------------------------------------------------------------------
(* Gallery and viewer. *)

\* The timer of 50 ms, without a session ...
ClearGallery ==
  /\ slot = None
  /\ view # None \/ loaded # None
  /\ view' = None /\ loaded' = None
  /\ UNCHANGED <<ownerVars, slot, pageVars, chooser, pollers, importVars,
                 picture, window, previewed>>

\* ... and with one whose catalog has changed since it asked last.
AskListing ==
  /\ slot # None /\ ~Closed(slot)
  /\ loaded # <<slot, revision[slot]>>
  /\ ~Crowded
  /\ loaded' = <<slot, revision[slot]>>
  /\ \E t \in Tokens :
       /\ Fresh(t) /\ SendCommand(slot, "ListGallery", t, None, None)
       /\ StartPoller(Poller("list", slot, t, None))
  /\ UNCHANGED <<slot, pageVars, chooser, importVars, picture, view, window,
                 previewed>>

\* The gallery selects a tile by itself when its entries are replaced, on whatever
\* page, and a tile with a thumbnail opens the original: any of them here, or none.
\* (GalleryView has which.)  The channel of the listing serves again.
OpenSelected ==
  /\ ~Closed(slot)
  /\ \E i \in Imports :
       /\ answer[Now.token].images[i] = "whole"
       /\ SendCommand(slot, "OpenViewer", Now.token, i, None)
       /\ pollers' = Append(Tail(pollers), Poller("viewer", slot, Now.token, i))

ListingApplies == answer[Now.token].is = "snapshot" /\ Generation(Now.session)

ListingAnswered ==
  /\ Turn /\ Now.kind = "list"
  /\ \/ Silent /\ KeepPolling
     \/ /\ ~Silent
        /\ view' = IF ListingApplies
                   THEN [session |-> Now.session,
                         images |-> answer[Now.token].images]
                   ELSE view
        /\ \/ Stop /\ Collect(Now.token)
           \/ ListingApplies /\ OpenSelected
        /\ UNCHANGED <<slot, pageVars, chooser, importVars, picture, loaded,
                       window, previewed>>

\* Selecting a tile that has its thumbnail opens the original.  Mutant: any
\* position, whether the listing has an image there or not.
AnyTile(i) == view # None

Whole(i) == view # None /\ view.images[i] = "whole"

SelectImage(i) ==
  /\ page = "gallery" /\ Whole(i)
  /\ slot # None /\ ~Closed(slot)
  /\ ~Crowded
  /\ \E t \in Tokens :
       /\ Fresh(t) /\ SendCommand(slot, "OpenViewer", t, i, None)
       /\ StartPoller(Poller("viewer", slot, t, i))
  /\ UNCHANGED <<slot, pageVars, chooser, widgetVars, window, previewed>>

ViewerAnswered ==
  /\ Turn /\ Now.kind = "viewer"
  /\ \/ Silent /\ KeepPolling
     \/ /\ ~Silent
        /\ Stop
        /\ Collect(Now.token)
        /\ picture' = IF answer[Now.token].is = "opened"
                      THEN Show(Now.session, Now.subject) ELSE picture
        /\ UNCHANGED <<slot, pageVars, chooser, importVars, view, loaded,
                       window, previewed>>

-----------------------------------------------------------------------------
(* Closing the window. *)

\* install_clean_shutdown: without a session in the slot the window closes, and
\* with its last window the application ends.
CloseWindow ==
  /\ window = "open"
  /\ IF slot = None
     THEN window' = "gone" /\ UNCHANGED <<ownerVars, pollers>>
     ELSE /\ ~Crowded
          /\ window' = "closing"
          /\ Revoke(slot, TRUE)
          /\ StartPoller(Poller("shutdown", slot, None, None))
  /\ UNCHANGED <<slot, pageVars, chooser, widgetVars, previewed>>

PollShutdown ==
  /\ Turn /\ Now.kind = "shutdown"
  /\ \/ slot # None /\ ~Closed(slot) /\ KeepPolling
     \/ /\ slot # None => Closed(slot)
        /\ Stop
        /\ IF slot = None THEN UNCHANGED ownerVars ELSE Revoke(slot, FALSE)
        /\ slot' = None
        /\ window' = "gone"
        /\ UNCHANGED <<pageVars, chooser, widgetVars, previewed>>

-----------------------------------------------------------------------------
Init ==
  /\ OwnerInit
  /\ slot = None
  /\ unlocked = FALSE /\ page = "choose" /\ folder = FALSE
  /\ chooser = [b \in Choosers |-> NoBroker]
  /\ pollers = <<>>
  /\ authority = FALSE /\ active = None
  /\ controls = "hidden" /\ sensitive = TRUE
  /\ picture = None /\ view = None /\ loaded = None
  /\ window = "open"
  /\ previewed = None

\* The hidden window takes no more input.
User ==
  /\ window = "open"
  /\ \/ ClickCreatePage \/ ClickBack \/ ClickOpen \/ Lock
     \/ Navigate
     \/ ClickChooser
     \/ \E d \in Decisions : ClickDecision(d)
     \/ \E i \in Imports : SelectImage(i)
     \/ CloseWindow

Timer ==
  /\ window # "gone"
  /\ \/ PollReady
     \/ FolderChosen \/ PollPortal \/ ImageNotChosen \/ ImageChosen
     \/ PreparationStale \/ PreparationAnswered
     \/ CommitStale \/ CommitAnswered
     \/ ListingAnswered \/ ViewerAnswered
     \/ PollShutdown

GalleryTimer ==
  /\ window # "gone"
  /\ ClearGallery \/ AskListing

Broker ==
  /\ window # "gone"
  /\ \E b \in Choosers :
       \/ \E o \in Outcomes : BrokerAnswers(b, o)
       \/ BrokerVanishes(b)

Owner(s) ==
  /\ window # "gone"
  /\ OwnerStep(s)
  /\ UNCHANGED uiVars

Next ==
  \/ User \/ Timer \/ GalleryTimer \/ Broker
  \/ \E s \in Sessions : Owner(s)

Spec == Init /\ [][Next]_desktopVars

\* The threads run and the timers fire.
Fairness ==
  /\ \A s \in Sessions : WF_desktopVars(Owner(s))
  /\ WF_desktopVars(Timer)

FairSpec == Spec /\ Fairness

-----------------------------------------------------------------------------
(* Properties. *)

TypeOK ==
  /\ slot \in Sessions \cup {None}
  /\ page \in {"gallery", "choose", "unlock", "create", "error"}
  /\ Len(pollers) <= MaxPollers
  /\ active \in Imports \cup {None}
  /\ phase \in [Sessions -> Phases]
  /\ library \in [Imports -> ImageStates]
  /\ slot # None => held[slot]

\* While the shell is locked no decoded image is on the screen and no decision
\* can be made: nothing that an old session answers late gets there.
LockedIsBlank == ~unlocked => picture = None /\ controls = "hidden"

\* The decision that can be pressed is about the preview displayed last.
DecisionIsPreviewed ==
  controls # "hidden" /\ sensitive /\ active # None => active = previewed

\* Once the listing of the session's present revision has been answered the
\* gallery shows the vault as it is: listings are not applied out of order.
ViewIsCurrent ==
  \/ slot = None
  \/ loaded # <<slot, revision[slot]>>
  \/ phase[slot] # "serving" \/ cancelled[slot]
  \/ \E i \in 1..Len(pollers) :
       pollers[i].kind = "list" /\ pollers[i].session = slot
  \/ view = [session |-> slot, images |-> library]

\* The application ends after the owner threads have closed the vault
\* (ROADMAP.md:1666).
QuitAfterClose == window = "gone" => Holders = {}

\* A revoked session ends.
RevokedSessionEnds ==
  \A s \in Sessions : cancelled[s] ~> phase[s] = "ended" \/ window = "gone"

\* The file selected for an import is let go.
AuthorityReleased == authority ~> ~authority \/ window = "gone"

\* A broker that has ended is reaped, and its button works again (ADR 0012).
BrokerReaped ==
  \A b \in Choosers :
    chooser[b].at \in {"reaped", "vanished"} ~>
      chooser[b] = NoBroker \/ window = "gone"

-----------------------------------------------------------------------------
(* The inductive invariant of the window. *)

Timers == {pollers[i] : i \in 1..Len(pollers)}

\* An answer to it can bring something of its session to the screen.
Reveals(p) ==
  p.kind \in {"prepare", "commit", "viewer"} \/ (p.kind = "portal" /\ p.subject = "image")

\* A timer has the channel it polls; it belongs to a session that was begun, and
\* to the window's session only if that was unlocked, unless it waits for a listing
\* or an image.
SoundTimer(p) ==
  /\ p.kind \in {"prepare", "commit", "list", "viewer"} => p.token \in Tokens
  /\ p.session \in Sessions \cup {None}
  /\ p.kind = "list" \/ Reveals(p) => p.session # None
  /\ p.kind \in {"prepare", "commit"} => p.subject \in Imports
  /\ p.session # None => phase[p.session] # "unborn"
  /\ Reveals(p) /\ p.kind # "viewer" /\ p.session = slot => unlocked

ControlsHidden == ~unlocked => controls = "hidden"

DesktopSound ==
  /\ slot \in Sessions \cup {None} /\ active \in Imports \cup {None}
  /\ pollers \in Seq(Timers)
  /\ slot # None => phase[slot] # "unborn"
  /\ \A p \in Timers : SoundTimer(p)
  /\ page = "gallery" => unlocked
  /\ ControlsHidden
  /\ controls # "hidden" /\ active # None => active = previewed

\* An image on a tile is in the vault, and so is one that is on its way there.
TilesPresent ==
  /\ AnswersPresent
  /\ view # None =>
       \A i \in Imports : view.images[i] # "absent" => i \in Present

-----------------------------------------------------------------------------
(* The inductive invariant of the gallery. *)

\* The commands that a thread has not answered: the one in its hand, and those in
\* the queue.
Places(s) == 0..Len(inbox[s])
At(s, n) == IF n = 0 THEN hand[s] ELSE inbox[s][n]

\* Each of them will be answered on a channel of its own.
ChannelsApart ==
  \A s \in Sessions : \A n \in Places(s) :
    At(s, n).token # None =>
      /\ answer[At(s, n).token] \in {Waiting, Forgotten}
      /\ \A r \in Sessions : \A m \in Places(r) :
           At(r, m).token = At(s, n).token => r = s /\ m = n

\* So does each timer have a channel of its own, whose receiver it holds.
Polls(p) == p.kind \in {"prepare", "commit", "list", "viewer"}

PollersApart ==
  \A i \in 1..Len(pollers) : Polls(pollers[i]) =>
    /\ answer[pollers[i].token] \notin {Free, Forgotten}
    /\ \A j \in 1..Len(pollers) :
         Polls(pollers[j]) /\ pollers[j].token = pollers[i].token => i = j

\* A timer that waits for a listing waits for its own session, which answers only
\* when it serves.
ListPoller(p) ==
  /\ \A s \in Sessions : \A n \in Places(s) :
       At(s, n).token = p.token => s = p.session /\ At(s, n).kind = "ListGallery"
  /\ phase[p.session] = "opening" => answer[p.token] = Waiting

ListPollersAsk ==
  \A i \in 1..Len(pollers) : pollers[i].kind = "list" => ListPoller(pollers[i])

\* The revision asked for last has existed.
LoadedPast ==
  /\ revision \in [Sessions -> Nat]
  /\ loaded # None =>
       \E s \in Sessions : /\ phase[s] # "unborn"
                          /\ \E n \in 0..revision[s] : loaded = <<s, n>>

\* A timer for a listing of the window's session, and an answer that is as the
\* vault is, or will be.
Listing(i) == pollers[i].kind = "list" /\ pollers[i].session = slot
Current(t) == answer[t] \in {Waiting, [is |-> "snapshot", images |-> library]}

\* An outdated listing is applied before one that is not.
OutdatedFirst ==
  \A i \in 1..Len(pollers) : Listing(i) =>
    \E j \in i..Len(pollers) : Listing(j) /\ Current(pollers[j].token)

Shown == view = [session |-> slot, images |-> library]

\* Nothing has changed since the window asked for a listing: that one is still to
\* come, or the gallery shows it.
ListingsInOrder ==
  slot # None /\ loaded = <<slot, revision[slot]>> /\ ~cancelled[slot] =>
    /\ phase[slot] = "opening" => \E i \in 1..Len(pollers) : Listing(i)
    /\ phase[slot] = "serving" =>
         OutdatedFirst /\ (Shown \/ \E i \in 1..Len(pollers) : Listing(i))

GalleryInvariant ==
  /\ ChannelsApart /\ PollersApart /\ ListPollersAsk /\ LoadedPast
  /\ ListingsInOrder

-----------------------------------------------------------------------------
(* The inductive invariant of the screen. *)

\* A session that the window holds has told that it is open, or why not.
ReadyTold ==
  /\ ready \in [Sessions -> {"empty", "ok", "error", "taken"}]
  /\ \A s \in Sessions :
       /\ phase[s] = "unborn" => ready[s] = "empty"
       /\ ready[s] = "empty" /\ held[s] => phase[s] \in {"unborn", "opening"}

\* Timers that wait for the window's session to be open, and for an image of it.
ReadyTimers == {i \in 1..Len(pollers) : pollers[i].kind = "ready"}
ViewerTimers ==
  {i \in 1..Len(pollers) : pollers[i].kind = "viewer" /\ pollers[i].session = slot}

\* A listing that was answered before the shell is unlocked may have an image
\* opened; the timer that unlocks the shell comes before the one that shows it.
UnlockedFirst ==
  slot # None /\ ~unlocked =>
    /\ ready[slot] # "taken" /\ ReadyTimers # {}
    /\ \A i \in ViewerTimers :
         ready[slot] # "empty" /\ \E j \in ReadyTimers : j < i

ScreenInvariant == ReadyTold /\ UnlockedFirst /\ (~unlocked => picture = None)
=============================================================================
