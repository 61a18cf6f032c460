-------------------------------- MODULE Shell --------------------------------
(***************************************************************************)
(* The state of the shell (crates/osv-app/src/lib.rs): route, session,      *)
(* jobs and the handles of jobs and workers, which lock, completion,        *)
(* failure, cancellation and replacement revoke; and the shortcuts.         *)
(***************************************************************************)
EXTENDS Naturals, FiniteSets, Sequences

CONSTANTS
  Workers,          \* numbers that workers are registered under
  MaxJobs,          \* bound: jobs started
  MaxGenerations,   \* bound: unlocks and locks
  Accelerators      \* what the user may type for a shortcut

Commands == {"Lock", "Search", "Gallery", "Tasks", "Preferences"}
LockedRoutes == {"Choose", "Unlock", "Create", "Preferences"}
Routes == LockedRoutes \cup {"Gallery", "Search", "Tasks"}

ASSUME ShellAssumption == MaxJobs \in Nat /\ MaxGenerations \in Nat

VARIABLES
  route, generation,
  unlockedAt,   \* generation of the unlocked model, 0 without one
  jobs,         \* each job listed, with its state
  handles,      \* the handles the unlocked model owns, by what they stand for
  live,         \* every handle that was handed to the shell and is not revoked
  nextJob,
  shortcuts

shellVars == <<route, generation, unlockedAt, jobs, handles, live, nextJob, shortcuts>>

\* An accelerator is its modifiers in order and its key; letters have two cases.
Accelerator(modifiers, key, upper) == [modifiers |-> modifiers, key |-> key, upper |-> upper]
DefaultKey == [c \in Commands |->
  CASE c = "Lock" -> "l" [] c = "Search" -> "f" [] c = "Gallery" -> "g"
    [] c = "Tasks" -> "j" [] c = "Preferences" -> "comma"]
DefaultShortcuts == [c \in Commands |-> Accelerator(<<"primary">>, DefaultKey[c], FALSE)]

ShellInit ==
  /\ route = "Choose" /\ generation = 0 /\ unlockedAt = 0
  /\ jobs = [j \in {} |-> "Running"] /\ handles = {} /\ live = {} /\ nextJob = 1
  /\ shortcuts = DefaultShortcuts

----------------------------------------------------------------------------
Worker(w, n) == [kind |-> "worker", worker |-> w, number |-> n]
JobHandle(j) == [kind |-> "job", job |-> j]
HandleOf(j) == handles \cap {JobHandle(j)}

Navigate(to) ==
  /\ route' = IF unlockedAt # 0 \/ to \in LockedRoutes THEN to ELSE route
  /\ UNCHANGED <<generation, unlockedAt, jobs, handles, live, nextJob, shortcuts>>

\* A model that is replaced is dropped, and its handles revoke themselves; its jobs stay
\* listed.
UnlockShell ==
  /\ generation < MaxGenerations
  /\ generation' = generation + 1 /\ unlockedAt' = generation'
  /\ handles' = {} /\ live' = live \ handles
  /\ route' = "Gallery"
  /\ UNCHANGED <<jobs, nextJob, shortcuts>>

LockShell ==
  /\ generation < MaxGenerations
  /\ generation' = generation + 1 /\ unlockedAt' = 0
  /\ handles' = {} /\ live' = live \ handles
  /\ jobs' = [j \in {} |-> "Running"]
  /\ route' = "Choose"
  /\ UNCHANGED <<nextJob, shortcuts>>
ActivateLock == unlockedAt # 0 /\ LockShell

\* The handle of a worker that is registered again replaces and revokes the old one.
RegisterWorker(w) ==
  /\ unlockedAt # 0
  /\ \E n \in 1..2 :
       LET replaced == {h \in handles : h.kind = "worker" /\ h.worker = w} IN
         /\ Worker(w, n) \notin replaced
         /\ handles' = (handles \ replaced) \cup {Worker(w, n)}
         /\ live' = (live \ replaced) \cup {Worker(w, n)}
  /\ UNCHANGED <<route, generation, unlockedAt, jobs, nextJob, shortcuts>>

StartJob ==
  /\ unlockedAt # 0 /\ nextJob <= MaxJobs
  /\ jobs' = [j \in DOMAIN jobs \cup {nextJob} |-> IF j = nextJob THEN "Running" ELSE jobs[j]]
  /\ handles' = handles \cup {JobHandle(nextJob)}
  /\ live' = live \cup {JobHandle(nextJob)}
  /\ nextJob' = nextJob + 1
  /\ UNCHANGED <<route, generation, unlockedAt, shortcuts>>

\* Mutant: the handle of a job that ends stays with the session.
KeepHandle(j) == UNCHANGED <<handles, live>>

ReleaseHandle(j) == handles' = handles \ HandleOf(j) /\ live' = live \ HandleOf(j)

EndJob(j, state) ==
  /\ j \in DOMAIN jobs /\ jobs[j] = "Running"
  /\ jobs' = [jobs EXCEPT ![j] = state]
  /\ ReleaseHandle(j)
  /\ UNCHANGED <<route, generation, unlockedAt, nextJob, shortcuts>>

\* A result counts only for the session it names; progress below 100 changes nothing
\* that is modelled.
JobResult(j, ofGeneration, state) == unlockedAt = ofGeneration /\ EndJob(j, state)
CancelJob(j) == EndJob(j, "Cancelling")

----------------------------------------------------------------------------
\* parse_binding: one modifier has several names and may occur once, case is folded.
ModifierNames == [primary |-> "control", control |-> "control", ctrl |-> "control",
                  shift |-> "shift", alt |-> "alt", super |-> "super"]
IsBinding(a) ==
  /\ a.key # "other" /\ \A i \in DOMAIN a.modifiers : a.modifiers[i] \in DOMAIN ModifierNames
  /\ \A i, j \in DOMAIN a.modifiers :
       ModifierNames[a.modifiers[i]] = ModifierNames[a.modifiers[j]] => i = j
Binding(a) ==
  [modifiers |-> {ModifierNames[a.modifiers[i]] : i \in DOMAIN a.modifiers}, key |-> a.key]
Reserved == {[modifiers |-> {"alt"}, key |-> "f4"],
             [modifiers |-> {"control", "alt"}, key |-> "delete"]}

\* Mutant: shortcuts are compared as they were typed.
SameSpelling(a, b) == a = b

SameBinding(a, b) == Binding(a) = Binding(b)

Assign(c, a) ==
  /\ IsBinding(a) /\ Binding(a) \notin Reserved
  /\ \A d \in Commands \ {c} : ~SameBinding(shortcuts[d], a)
  /\ shortcuts' = [shortcuts EXCEPT ![c] = a]
  /\ UNCHANGED <<route, generation, unlockedAt, jobs, handles, live, nextJob>>

ShellNext ==
  \/ \E to \in Routes : Navigate(to)
  \/ UnlockShell \/ LockShell \/ ActivateLock \/ StartJob
  \/ \E w \in Workers : RegisterWorker(w)
  \/ \E j \in 1..MaxJobs, g \in 1..MaxGenerations, state \in {"Complete", "Failed"} :
       JobResult(j, g, state)
  \/ \E j \in 1..MaxJobs : CancelJob(j)
  \/ \E c \in Commands, a \in Accelerators : Assign(c, a)

----------------------------------------------------------------------------
ShellTypeOK ==
  /\ route \in Routes /\ generation \in 0..MaxGenerations
  /\ unlockedAt \in 0..generation /\ nextJob \in 1..MaxJobs + 1
  /\ DOMAIN jobs \subseteq 1..MaxJobs
  /\ \A j \in DOMAIN jobs : jobs[j] \in {"Running", "Cancelling", "Failed", "Complete"}
  /\ unlockedAt = 0 => route \in LockedRoutes

\* No authority outlives its purpose: a handle that is not revoked belongs to the
\* unlocked model, is the only one of its worker, or stands for a job that runs; locked,
\* there is none (lock, replaced models, ended jobs, replaced workers).
AuthorityIsAccounted ==
  /\ live = handles
  /\ unlockedAt = 0 => live = {}
  /\ \A h \in live : h.kind = "job" => h.job \in DOMAIN jobs /\ jobs[h.job] = "Running"
  /\ \A h, k \in live : h.kind = "worker" /\ k.kind = "worker" /\ h.worker = k.worker => h = k

\* No key press means two commands or what the desktop reserves, however the shortcuts
\* were typed and in whatever order they were assigned.
ShortcutsAreDistinct ==
  /\ \A c \in Commands : Binding(shortcuts[c]) \notin Reserved
  /\ \A c, d \in Commands : Binding(shortcuts[c]) = Binding(shortcuts[d]) => c = d

\* The inductive invariant: handles are those of workers and jobs, and every command has
\* its shortcut.
ShellInvariant ==
  /\ AuthorityIsAccounted /\ ShortcutsAreDistinct
  /\ generation \in Nat /\ DOMAIN shortcuts = Commands
  /\ handles \subseteq {Worker(w, n) : w \in Workers, n \in 1..2} \cup {JobHandle(j) : j \in 1..MaxJobs}
  /\ nextJob \in Nat \ {0}
=============================================================================
