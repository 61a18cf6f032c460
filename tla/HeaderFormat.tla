----------------------------- MODULE HeaderFormat -----------------------------
(***************************************************************************)
(* The bytes of a vault header (crates/osv-crypto/src/header.rs, kdf.rs):   *)
(* what wrap writes, what parse accepts, which credentials derive which     *)
(* key, and what unlocking authenticates, for headers that were altered.    *)
(*                                                                         *)
(* A header is a record of its fields.  Keys, salts and nonces are values   *)
(* that no computation repeats; sealing is ideal.                           *)
(***************************************************************************)
EXTENDS Naturals, Sequences

CONSTANTS
  Symbols,          \* bytes of passwords and key files
  MaxPart,          \* bound: length of a password and of a key file
  VaultIds,
  Costs,            \* KDF costs offered: <<memory, iterations, parallelism>>
  MaxAlterations    \* bound: fields altered

NoKeyfile == <<>>
Parts == UNION {[1..n -> Symbols] : n \in 0..MaxPart}
CredentialPairs == [password : Parts, keyfile : {NoKeyfile} \cup {<<p>> : p \in Parts}]

ASSUME HeaderFormatAssumption == MaxPart \in Nat /\ MaxAlterations \in Nat

VARIABLES
  written,      \* the header as it was made, and the credentials it was made with
  fields,       \* the header as it is on the disk
  unlocked,     \* outcome of the last unlock
  alterations   \* fields altered so far

formatVars == <<written, fields, unlocked, alterations>>

NoHeader == [made |-> FALSE]
NoOutcome == [tried |-> FALSE]

----------------------------------------------------------------------------
\* KdfParams::new
MinMemory == 8
MaxMemory == 1048576
CostAllowed(memory, iterations, parallelism) ==
  /\ memory \in MinMemory..MaxMemory /\ iterations \in 1..10 /\ parallelism \in 1..16
  /\ memory >= parallelism * 8

\* derive_kek: both parts with their lengths; an absent key file is an empty one.
Keyfile(c) == IF c.keyfile = NoKeyfile THEN <<>> ELSE c.keyfile[1]

\* Mutant: the parts follow each other without their lengths.
Concatenated(c) == c.password \o Keyfile(c)

CredentialInput(c) ==
  <<Len(c.password)>> \o c.password \o <<Len(Keyfile(c))>> \o Keyfile(c)

Kek(c, salt, cost) == [input |-> CredentialInput(c), salt |-> salt, cost |-> cost]

AuthenticatedFields ==
  {"magic", "version", "length", "kdfVersion", "suite", "flags", "vault", "cost", "salt",
   "nonce", "reserved"}
AssociatedData(h) == [f \in AuthenticatedFields |-> h[f]]

Plain(c, vault, cost) ==
  [magic |-> "OSVVAULT", version |-> 1, length |-> 256, kdfVersion |-> 1, suite |-> 1,
   flags |-> IF c.keyfile = NoKeyfile THEN 0 ELSE 1, vault |-> vault, cost |-> cost,
   salt |-> "salt", nonce |-> "nonce", reserved |-> 0]
Fields == AuthenticatedFields \cup {"sealed"}
Wrapped(c, vault, cost) ==
  LET h == Plain(c, vault, cost) IN
    [f \in Fields |->
       IF f # "sealed" THEN h[f]
       ELSE [key |-> Kek(c, h.salt, cost), nonce |-> h.nonce, aad |-> AssociatedData(h)]]

FormatInit ==
  /\ written = NoHeader /\ fields = NoHeader /\ unlocked = NoOutcome /\ alterations = 0

\* create and rewrap: the cost was made by KdfParams::new.
Wrap(c, vault, cost) ==
  /\ written = NoHeader
  /\ CostAllowed(cost[1], cost[2], cost[3])
  /\ written' = [made |-> TRUE, header |-> Wrapped(c, vault, cost), credentials |-> c]
  /\ fields' = Wrapped(c, vault, cost)
  /\ UNCHANGED <<unlocked, alterations>>

\* What a field may be altered to.
Alternatives == [f \in Fields |->
  CASE f = "vault" -> VaultIds
    [] f = "cost" -> Costs
    [] f = "flags" -> 0..3
    [] f \in {"version", "length", "kdfVersion", "suite", "reserved"} -> {0, 2}
    [] f = "sealed" -> {[altered |-> TRUE]}
    [] OTHER -> {"altered"}]
Alter(f) ==
  /\ written # NoHeader /\ alterations < MaxAlterations
  /\ \E value \in Alternatives[f] : fields' = [fields EXCEPT ![f] = value]
  /\ alterations' = alterations + 1
  /\ UNCHANGED <<written, unlocked>>

\* parse: everything that has one meaning is compared, the flags may have one bit, and the
\* cost is bounded before it costs anything.
Parses(h) ==
  /\ h.magic = "OSVVAULT" /\ h.version = 1 /\ h.length = 256
  /\ h.kdfVersion = 1 /\ h.suite = 1
  /\ h.flags \in {0, 1} /\ h.reserved = 0
  /\ CostAllowed(h.cost[1], h.cost[2], h.cost[3])

\* unlock_with_status
Authenticates(h, c) ==
  /\ (h.flags = 1) = (c.keyfile # NoKeyfile)
  /\ h.sealed = [key |-> Kek(c, h.salt, h.cost), nonce |-> h.nonce, aad |-> AssociatedData(h)]

UnlockHeader(c) ==
  /\ written # NoHeader
  /\ unlocked' = [tried |-> TRUE, credentials |-> c, header |-> fields,
                  ok |-> Parses(fields) /\ Authenticates(fields, c)]
  /\ UNCHANGED <<written, fields, alterations>>

FormatNext ==
  \/ written = NoHeader /\ \E c \in CredentialPairs, vault \in VaultIds, cost \in Costs :
       Wrap(c, vault, cost)
  \/ \E f \in Fields : Alter(f)
  \/ \E c \in CredentialPairs : UnlockHeader(c)

----------------------------------------------------------------------------
FormatTypeOK ==
  /\ alterations \in 0..MaxAlterations
  /\ written # NoHeader => DOMAIN fields = Fields /\ written.credentials \in CredentialPairs

\* Only the credentials that a header was made with unlock it, and only as it was made:
\* no other split of the same bytes into password and key file, no empty key file for
\* none, and no header with an altered cost, flag, salt or vault identity.  They do
\* unlock it, at every cost that KdfParams allows.
UnlocksAsItWasMade ==
  unlocked.tried =>
    unlocked.ok = (unlocked.header = written.header
                   /\ unlocked.credentials = written.credentials)

----------------------------------------------------------------------------
\* The inductive invariant: the header was made by wrap, and its sealed part is the one
\* that was made or none that any key fits.
FormatInvariant ==
  /\ FormatTypeOK /\ UnlocksAsItWasMade
  /\ unlocked.tried => written # NoHeader
  /\ written # NoHeader =>
       /\ \E vault \in VaultIds, cost \in Costs :
            /\ CostAllowed(cost[1], cost[2], cost[3])
            /\ written.header = Wrapped(written.credentials, vault, cost)
       /\ fields = [f \in Fields |-> fields[f]]
       /\ fields.sealed \in {written.header.sealed, [altered |-> TRUE]}
=============================================================================
