---------------------------- MODULE BytesProofs ----------------------------
(***************************************************************************)
(* Proofs about the parts that read back what was written: headers, frames *)
(* and objects.                                                            *)
(***************************************************************************)
EXTENDS ImageProofs, SequenceTheorems

----------------------------------------------------------------------------
\* HeaderFormat: a header opens with what it was made with.

\* Two parts that follow each other with their lengths, and where they stand.
WithLengths(p, q) == <<Len(p)>> \o p \o <<Len(q)>> \o q

\* Both lengths and both parts are found again in the joined sequence.
LEMMA PartsAreFound ==
  ASSUME NEW V, NEW a \in Seq(V), NEW b \in Seq(V)
  PROVE  /\ WithLengths(a, b)[1] = Len(a) /\ WithLengths(a, b)[Len(a) + 2] = Len(b)
         /\ \A i \in 1..Len(a) : WithLengths(a, b)[i + 1] = a[i]
         /\ \A i \in 1..Len(b) : WithLengths(a, b)[i + Len(a) + 2] = b[i]
BY DEF WithLengths

\* They can be told apart.
LEMMA PartsAreTold ==
  ASSUME NEW V, NEW a \in Seq(V), NEW b \in Seq(V), NEW c \in Seq(V), NEW d \in Seq(V),
         WithLengths(a, b) = WithLengths(c, d)
  PROVE  a = c /\ b = d
<1>1. PICK x : x = WithLengths(a, b)
  OBVIOUS
<1>2. /\ x[1] = Len(a) /\ x[Len(a) + 2] = Len(b)
      /\ \A i \in 1..Len(a) : x[i + 1] = a[i]
      /\ \A i \in 1..Len(b) : x[i + Len(a) + 2] = b[i]
  <2>1. /\ WithLengths(a, b)[1] = Len(a) /\ WithLengths(a, b)[Len(a) + 2] = Len(b)
        /\ \A i \in 1..Len(a) : WithLengths(a, b)[i + 1] = a[i]
        /\ \A i \in 1..Len(b) : WithLengths(a, b)[i + Len(a) + 2] = b[i]
    BY PartsAreFound
  <2> QED
    BY <1>1, <2>1
<1>3. /\ x[1] = Len(c) /\ x[Len(c) + 2] = Len(d)
      /\ \A i \in 1..Len(c) : x[i + 1] = c[i]
      /\ \A i \in 1..Len(d) : x[i + Len(c) + 2] = d[i]
  <2>1. /\ WithLengths(c, d)[1] = Len(c) /\ WithLengths(c, d)[Len(c) + 2] = Len(d)
        /\ \A i \in 1..Len(c) : WithLengths(c, d)[i + 1] = c[i]
        /\ \A i \in 1..Len(d) : WithLengths(c, d)[i + Len(c) + 2] = d[i]
    BY PartsAreFound
  <2> QED
    BY <1>1, <2>1
<1>4. Len(a) = Len(c) /\ Len(b) = Len(d)
  BY <1>2, <1>3
<1>5. \A i \in 1..Len(a) : a[i] = c[i]
  BY <1>2, <1>3, <1>4
<1>6. \A i \in 1..Len(b) : b[i] = d[i]
  BY <1>2, <1>3, <1>4
<1> QED
  BY <1>4, <1>5, <1>6, SeqEqual

\* Credentials are a password and, if there is one, a key file.
LEMMA CredentialsKnown ==
  ASSUME NEW c \in CredentialPairs
  PROVE  /\ c.password \in Seq(Symbols) /\ Keyfile(c) \in Seq(Symbols)
         /\ c = [password |-> c.password, keyfile |-> c.keyfile]
         /\ c.keyfile = NoKeyfile \/ c.keyfile = <<Keyfile(c)>>
         /\ <<Keyfile(c)>> # NoKeyfile
<1>1. Parts \subseteq Seq(Symbols)
  BY HeaderFormatAssumption DEF Parts
<1>2. c.password \in Parts /\ (c.keyfile = NoKeyfile \/ \E p \in Parts : c.keyfile = <<p>>)
  BY DEF CredentialPairs
<1>3. \A p : <<p>> # NoKeyfile
  BY DEF NoKeyfile
<1>4. c.keyfile = NoKeyfile \/ \E p \in Parts : c.keyfile = <<p>> /\ Keyfile(c) = p
  BY <1>2, <1>3 DEF Keyfile
<1>5. Keyfile(c) \in Seq(Symbols)
  BY <1>1, <1>4 DEF Keyfile
<1> QED
  BY <1>1, <1>2, <1>3, <1>4, <1>5 DEF CredentialPairs

\* Credentials that derive the same key, both with a key file or both without, are equal.
LEMMA CredentialsAreTold ==
  ASSUME NEW c \in CredentialPairs, NEW d \in CredentialPairs,
         CredentialInput(c) = CredentialInput(d),
         (c.keyfile = NoKeyfile) <=> (d.keyfile = NoKeyfile)
  PROVE  c = d
<1>1. /\ c.password \in Seq(Symbols) /\ Keyfile(c) \in Seq(Symbols)
      /\ d.password \in Seq(Symbols) /\ Keyfile(d) \in Seq(Symbols)
  BY CredentialsKnown
<1>2. c.password = d.password /\ Keyfile(c) = Keyfile(d)
  BY <1>1, PartsAreTold DEF CredentialInput, WithLengths
<1> QED
  BY <1>2, CredentialsKnown

\* What wrap wrote unlocks with the credentials it was given.
LEMMA WrappedOpens ==
  ASSUME NEW c \in CredentialPairs, NEW vault, NEW cost, NEW h, h = Wrapped(c, vault, cost),
         CostAllowed(cost[1], cost[2], cost[3])
  PROVE  /\ Parses(h) /\ Authenticates(h, c) /\ DOMAIN h = Fields /\ h = [f \in Fields |-> h[f]]
         /\ h.sealed = [key |-> Kek(c, h.salt, h.cost), nonce |-> h.nonce, aad |-> AssociatedData(h)]
         /\ h.flags = IF c.keyfile = NoKeyfile THEN 0 ELSE 1
<1> DEFINE p == Plain(c, vault, cost)
<1>1. /\ p.magic = "OSVVAULT" /\ p.version = 1 /\ p.length = 256 /\ p.kdfVersion = 1 /\ p.suite = 1
      /\ p.flags = (IF c.keyfile = NoKeyfile THEN 0 ELSE 1) /\ p.cost = cost /\ p.reserved = 0
  BY DEF Plain
<1> HIDE DEF p
<1>2. /\ DOMAIN h = Fields /\ h = [f \in Fields |-> h[f]]
      /\ \A f \in AuthenticatedFields : h[f] = p[f]
      /\ h.sealed = [key |-> Kek(c, p.salt, cost), nonce |-> p.nonce, aad |-> AssociatedData(p)]
  BY DEF Wrapped, Fields, AuthenticatedFields, p
<1>3. /\ h.magic = "OSVVAULT" /\ h.version = 1 /\ h.length = 256 /\ h.kdfVersion = 1 /\ h.suite = 1
      /\ h.flags = (IF c.keyfile = NoKeyfile THEN 0 ELSE 1) /\ h.cost = cost /\ h.reserved = 0
      /\ h.salt = p.salt /\ h.nonce = p.nonce
  BY <1>1, <1>2 DEF AuthenticatedFields
<1>4. AssociatedData(h) = AssociatedData(p)
  BY <1>2 DEF AssociatedData
<1>5. Parses(h)
  BY <1>3 DEF Parses
<1>6. h.sealed = [key |-> Kek(c, h.salt, h.cost), nonce |-> h.nonce, aad |-> AssociatedData(h)]
  BY <1>2, <1>3, <1>4
<1>7. (h.flags = 1) = (c.keyfile # NoKeyfile)
  BY <1>3
<1> QED
  BY <1>2, <1>3, <1>5, <1>6, <1>7 DEF Authenticates

\* Nothing else does: neither other credentials, nor a header that was altered.
LEMMA OnlyWrappedOpens ==
  ASSUME NEW c \in CredentialPairs, NEW d \in CredentialPairs, NEW vault, NEW cost,
         NEW h, h = Wrapped(c, vault, cost), CostAllowed(cost[1], cost[2], cost[3]),
         NEW g, DOMAIN g = Fields, g = [f \in Fields |-> g[f]],
         g.sealed \in {h.sealed, [altered |-> TRUE]}
  PROVE  Parses(g) /\ Authenticates(g, d) <=> g = h /\ d = c
<1>1. /\ Parses(h) /\ Authenticates(h, c) /\ h = [f \in Fields |-> h[f]]
      /\ h.sealed = [key |-> Kek(c, h.salt, h.cost), nonce |-> h.nonce, aad |-> AssociatedData(h)]
      /\ h.flags = IF c.keyfile = NoKeyfile THEN 0 ELSE 1
  BY WrappedOpens
<1>2. SUFFICES ASSUME Parses(g), Authenticates(g, d) PROVE g = h /\ d = c
  BY <1>1
<1>3. g.sealed = [key |-> Kek(d, g.salt, g.cost), nonce |-> g.nonce, aad |-> AssociatedData(g)]
  BY <1>2 DEF Authenticates
<1>4. g.sealed = h.sealed
  <2>1. "key" \in DOMAIN g.sealed /\ "key" \notin DOMAIN [altered |-> TRUE]
    BY <1>3
  <2> QED
    BY <2>1
<1>5. AssociatedData(g) = AssociatedData(h) /\ Kek(d, g.salt, g.cost) = Kek(c, h.salt, h.cost)
  <2>1. g.sealed.aad = AssociatedData(g) /\ g.sealed.key = Kek(d, g.salt, g.cost)
    BY <1>3
  <2>2. h.sealed.aad = AssociatedData(h) /\ h.sealed.key = Kek(c, h.salt, h.cost)
    BY <1>1
  <2> QED
    BY <1>4, <2>1, <2>2
<1>6. \A f \in AuthenticatedFields : g[f] = h[f]
  <2>1. ASSUME NEW f \in AuthenticatedFields
        PROVE  AssociatedData(g)[f] = g[f] /\ AssociatedData(h)[f] = h[f]
    BY DEF AssociatedData
  <2> QED
    BY <1>5, <2>1
<1>7. g = h
  <2>1. \A f \in Fields : g[f] = h[f]
    BY <1>4, <1>6 DEF Fields
  <2> QED
    BY <1>1, <2>1
<1>8. CredentialInput(d) = CredentialInput(c)
  BY <1>5 DEF Kek
<1>9. (d.keyfile = NoKeyfile) <=> (c.keyfile = NoKeyfile)
  <2>1. (g.flags = 1) = (d.keyfile # NoKeyfile)
    BY <1>2 DEF Authenticates
  <2> QED
    BY <1>1, <1>7, <2>1
<1> QED
  BY <1>7, <1>8, <1>9, CredentialsAreTold

\* There is no header yet.
LEMMA FormatBegins == FormatInit => FormatInvariant
BY HeaderFormatAssumption
DEF FormatInit, FormatInvariant, FormatTypeOK, UnlocksAsItWasMade, NoHeader, NoOutcome

\* Wrapping makes a header, an alteration changes a field, and unlocking tells.
LEMMA FormatStep ==
  ASSUME FormatInvariant, [FormatNext]_formatVars
  PROVE  FormatInvariant'
<1>1. CASE UNCHANGED formatVars
  <2>1. written' = written /\ fields' = fields /\ unlocked' = unlocked /\ alterations' = alterations
    BY <1>1 DEF formatVars
  <2> QED
    BY <2>1 DEF FormatInvariant, FormatTypeOK, UnlocksAsItWasMade
<1>2. ASSUME written = NoHeader, NEW c \in CredentialPairs, NEW vault \in VaultIds, NEW cost \in Costs,
             Wrap(c, vault, cost)
      PROVE  FormatInvariant'
  <2>1. PICK h : h = Wrapped(c, vault, cost)
    OBVIOUS
  <2>2. /\ CostAllowed(cost[1], cost[2], cost[3])
        /\ written' = [made |-> TRUE, header |-> h, credentials |-> c] /\ fields' = h
        /\ unlocked' = unlocked /\ alterations' = alterations
    BY <1>2, <2>1 DEF Wrap
  <2>3. DOMAIN h = Fields /\ h = [f \in Fields |-> h[f]]
    BY <2>1, <2>2, WrappedOpens
  <2>4. ~unlocked.tried
    BY <1>2 DEF FormatInvariant
  <2> QED
    BY <2>1, <2>2, <2>3, <2>4 DEF FormatInvariant, FormatTypeOK, UnlocksAsItWasMade, NoHeader
<1>3. ASSUME NEW f \in Fields, Alter(f) PROVE FormatInvariant'
  <2>1. PICK value \in Alternatives[f] : fields' = [fields EXCEPT ![f] = value]
    BY <1>3 DEF Alter
  <2>2. /\ written # NoHeader /\ alterations < MaxAlterations /\ alterations' = alterations + 1
        /\ written' = written /\ unlocked' = unlocked
    BY <1>3 DEF Alter
  <2>3. f = "sealed" => value = [altered |-> TRUE]
    BY <2>1 DEF Alternatives
  <2>4. DOMAIN fields' = Fields /\ fields'.sealed \in {written.header.sealed, [altered |-> TRUE]}
    BY <2>1, <2>2, <2>3 DEF FormatInvariant, FormatTypeOK, Fields
  <2>6. fields' = [g \in Fields |-> fields'[g]]
    BY <2>1, <2>2 DEF FormatInvariant
  <2>5. alterations' \in 0..MaxAlterations
    BY <2>2, HeaderFormatAssumption DEF FormatInvariant, FormatTypeOK
  <2> QED
    BY <2>2, <2>4, <2>5, <2>6 DEF FormatInvariant, FormatTypeOK, UnlocksAsItWasMade
<1>4. ASSUME NEW c \in CredentialPairs, UnlockHeader(c) PROVE FormatInvariant'
  <2>1. /\ written # NoHeader
        /\ unlocked' = [tried |-> TRUE, credentials |-> c, header |-> fields,
                        ok |-> Parses(fields) /\ Authenticates(fields, c)]
        /\ written' = written /\ fields' = fields /\ alterations' = alterations
    BY <1>4 DEF UnlockHeader
  <2>2. PICK vault \in VaultIds, cost \in Costs :
          /\ CostAllowed(cost[1], cost[2], cost[3])
          /\ written.header = Wrapped(written.credentials, vault, cost)
    BY <2>1 DEF FormatInvariant
  <2>3. /\ written.credentials \in CredentialPairs /\ DOMAIN fields = Fields
        /\ fields.sealed \in {written.header.sealed, [altered |-> TRUE]}
    BY <2>1 DEF FormatInvariant, FormatTypeOK
  <2>4. Parses(fields) /\ Authenticates(fields, c) <=> fields = written.header /\ c = written.credentials
    <3>1. fields = [f \in Fields |-> fields[f]]
      BY <2>1 DEF FormatInvariant
    <3>2. PICK h : h = written.header
      OBVIOUS
    <3>3. PICK d : d = written.credentials
      OBVIOUS
    <3> QED
      BY <2>2, <2>3, <3>1, <3>2, <3>3, OnlyWrappedOpens
  <2>5. UnlocksAsItWasMade'
    <3>1. unlocked'.ok <=> fields = written.header /\ c = written.credentials
      BY <2>1, <2>4
    <3>2. unlocked'.ok \in BOOLEAN /\ unlocked'.header = fields /\ unlocked'.credentials = c
      BY <2>1 DEF Parses, Authenticates
    <3> QED
      BY <2>1, <3>1, <3>2 DEF UnlocksAsItWasMade
  <2> QED
    BY <2>1, <2>5 DEF FormatInvariant, FormatTypeOK
<1> QED
  BY <1>1, <1>2, <1>3, <1>4 DEF FormatNext

----------------------------------------------------------------------------
\* WireFormat: frames mean one thing each.

\* The two bytes of a number, and the number of two bytes.
Low(n) == n % 256
High(n) == n \div 256

\* A number made of two bytes, and the bytes of a number of the model.
LEMMA NumberOf ==
  ASSUME NEW a \in Octet, NEW b \in Octet, NEW n, n = a + 256 * b
  PROVE  n \in TwoOctets /\ n \in Nat /\ Low(n) = a /\ High(n) = b
<1>1. a \in Nat /\ b \in Nat /\ a <= 255 /\ b <= 255
  BY DEF Octet
<1>2. n % 256 = a /\ n \div 256 = b /\ n \in Nat
  BY <1>1
<1> QED
  BY <1>2 DEF TwoOctets, Low, High

\* A number of two bytes is made of its low and its high byte.
LEMMA BytesOf ==
  ASSUME NEW n \in TwoOctets
  PROVE  n \in Nat /\ Low(n) \in Octet /\ High(n) \in Octet /\ n = Low(n) + 256 * High(n)
<1>1. PICK a \in Octet, b \in Octet : n = a + 256 * b
  BY DEF TwoOctets
<1> QED
  BY <1>1, NumberOf

\* The digits of a number that fits two bytes.
LEMMA DigitsAre ==
  ASSUME NEW n \in TwoOctets, NEW width \in Nat, width >= 2, NEW p, p = Digits(n, width)
  PROVE  /\ p \in Seq(Octet) /\ Len(p) = width /\ p[1] = Low(n) /\ p[2] = High(n)
         /\ \A i \in 3..width : p[i] = 0
<1>1. p = [i \in 1..width |-> IF i = 1 THEN Low(n) ELSE IF i = 2 THEN High(n) ELSE 0]
  BY DEF Digits, Low, High
<1>2. p[1] = Low(n) /\ p[2] = High(n)
  <2>1. 1 \in 1..width /\ 2 \in 1..width
    OBVIOUS
  <2> QED
    BY <1>1, <2>1
<1>3. ASSUME NEW i \in 3..width PROVE p[i] = 0
  <2>1. i \in 1..width /\ i # 1 /\ i # 2
    OBVIOUS
  <2> QED
    BY <1>1, <2>1
<1>4. \A i \in 1..width : p[i] \in Octet
  <2>1. Low(n) \in Octet /\ High(n) \in Octet /\ 0 \in Octet
    BY BytesOf DEF Octet
  <2> QED
    BY <1>1, <2>1
<1>5. DOMAIN p = 1..width
  BY <1>1
<1>6. p \in [1..width -> Octet]
  BY <1>1, <1>4
<1>7. p \in Seq(Octet) /\ Len(p) = width
  BY <1>5, <1>6
<1> QED
  BY <1>2, <1>3, <1>7

\* The byte of a kind, and the kind of a byte.
LEMMA KindsNamed ==
  /\ DOMAIN KindOf = {"Hello", "Ready", "Start", "Data", "End", "Cancel", "Complete", "Failed",
                      "ResultData", "ResultEnd"}
  /\ \A kind \in DOMAIN KindOf : Named(KindOf, KindOf[kind]) = kind
  /\ \A byte : (\E kind \in DOMAIN KindOf : KindOf[kind] = byte) <=> byte \in 1..10
<1>1. KindOf = [Hello |-> 1, Ready |-> 2, Start |-> 3, Data |-> 4, End |-> 5, Cancel |-> 6,
           Complete |-> 7, Failed |-> 8, ResultData |-> 9, ResultEnd |-> 10]
  BY DEF KindOf
<1>2. DOMAIN KindOf = {"Hello", "Ready", "Start", "Data", "End", "Cancel", "Complete", "Failed",
                      "ResultData", "ResultEnd"}
  BY <1>1
<1>3. /\ KindOf["Hello"] = 1 /\ KindOf["Ready"] = 2 /\ KindOf["Start"] = 3 /\ KindOf["Data"] = 4
      /\ KindOf["End"] = 5 /\ KindOf["Cancel"] = 6 /\ KindOf["Complete"] = 7 /\ KindOf["Failed"] = 8
      /\ KindOf["ResultData"] = 9 /\ KindOf["ResultEnd"] = 10
  BY <1>1
<1>4. \A k, l \in DOMAIN KindOf : KindOf[k] = KindOf[l] => k = l
  BY <1>2, <1>3
<1>5. ASSUME NEW kind \in DOMAIN KindOf PROVE Named(KindOf, KindOf[kind]) = kind
  BY <1>4 DEF Named
<1>6. \A byte : (\E kind \in DOMAIN KindOf : KindOf[kind] = byte) <=> byte \in 1..10
  BY <1>2, <1>3
<1> QED
  BY <1>2, <1>5, <1>6

\* Numbers of the widths that occur.
LEMMA DigitsOf ==
  ASSUME NEW n \in TwoOctets, NEW width \in {2, 4, 8}, NEW p, p = Digits(n, width)
  PROVE  /\ p \in Seq(Octet) /\ Len(p) = width /\ p[1] = Low(n) /\ p[2] = High(n)
         /\ \A i \in 3..width : p[i] = 0
<1>1. PICK w \in Nat : w = width /\ w >= 2
  OBVIOUS
<1>2. p = Digits(n, w)
  BY <1>1
<1>3. p \in Seq(Octet) /\ Len(p) = w /\ p[1] = Low(n) /\ p[2] = High(n)
  BY <1>1, <1>2, DigitsAre
<1>4. \A i \in 3..w : p[i] = 0
  BY <1>1, <1>2, DigitsAre
<1> QED
  BY <1>1, <1>3, <1>4

\* The bytes of two sequences, one behind the other.
Follow(S, p, x, y) ==
  /\ p \in Seq(S) /\ Len(p) = Len(x) + Len(y)
  /\ \A i \in 1..Len(x) : p[i] = x[i]
  /\ \A i \in 1..Len(y) : p[Len(x) + i] = y[i]

\* Joining two sequences puts the one behind the other.
LEMMA Joined ==
  ASSUME NEW S, NEW x \in Seq(S), NEW y \in Seq(S)
  PROVE  Follow(S, x \o y, x, y)
<1>0. PICK p : p = x \o y
  OBVIOUS
<1>1. Len(x) \in Nat /\ Len(y) \in Nat
  OBVIOUS
<1>2. p \in Seq(S) /\ Len(p) = Len(x) + Len(y)
  BY <1>0, ConcatProperties
<1>3. \A i \in 1..Len(x) + Len(y) : p[i] = IF i <= Len(x) THEN x[i] ELSE y[i - Len(x)]
  BY <1>0, ConcatProperties
<1>4. ASSUME NEW i \in 1..Len(x) PROVE p[i] = x[i]
  BY <1>1, <1>3
<1>5. ASSUME NEW i \in 1..Len(y) PROVE p[Len(x) + i] = y[i]
  <2>1. Len(x) + i \in 1..Len(x) + Len(y) /\ ~(Len(x) + i <= Len(x)) /\ Len(x) + i - Len(x) = i
    BY <1>1
  <2> QED
    BY <1>3, <2>1
<1> QED
  BY <1>0, <1>2, <1>4, <1>5 DEF Follow

\* A sequence of bytes is as long as its bytes say.
LEMMA SameOctets ==
  ASSUME NEW p \in Seq(Octet), NEW q \in Seq(Octet), Len(p) = Len(q),
         \A i \in 1..Len(p) : p[i] = q[i]
  PROVE  p = q
BY SeqEqual

\* What a number and its two bytes have to do with each other.
Spells(p, i, n) == p[i] = Low(n) /\ p[i + 1] = High(n)

\* Two bytes spell one number.
LEMMA SpellsOne ==
  ASSUME NEW p \in Seq(Octet), NEW i \in Nat \ {0}, i + 1 <= Len(p)
  PROVE  /\ p[i] + 256 * p[i + 1] \in TwoOctets
         /\ Spells(p, i, p[i] + 256 * p[i + 1])
         /\ \A n \in TwoOctets : Spells(p, i, n) => n = p[i] + 256 * p[i + 1]
<1>1. p[i] \in Octet /\ p[i + 1] \in Octet
  OBVIOUS
<1>2. PICK a \in Octet, b \in Octet : a = p[i] /\ b = p[i + 1]
  BY <1>1
<1>3. PICK n : n = a + 256 * b
  OBVIOUS
<1>4. n \in TwoOctets /\ Low(n) = a /\ High(n) = b
  BY <1>3, NumberOf
<1>5. ASSUME NEW k \in TwoOctets, Low(k) = a, High(k) = b PROVE k = n
  BY <1>3, <1>5, BytesOf
<1> QED
  BY <1>2, <1>3, <1>4, <1>5 DEF Spells

\* The number at the start of a payload, and the one at its third byte.
LEMMA NumbersRead ==
  ASSUME NEW p \in Seq(Octet)
  PROVE  /\ Len(p) >= 2 => Number(p) \in TwoOctets /\ Spells(p, 1, Number(p))
         /\ Len(p) >= 4 => /\ Number(SubSeq(p, 3, Len(p))) \in TwoOctets
                           /\ Spells(p, 3, Number(SubSeq(p, 3, Len(p))))
<1>1. ASSUME Len(p) >= 2 PROVE Number(p) \in TwoOctets /\ Spells(p, 1, Number(p))
  <2>1. Number(p) = p[1] + 256 * p[1 + 1]
    BY DEF Number
  <2> QED
    BY <1>1, <2>1, SpellsOne
<1>2. ASSUME Len(p) >= 4
      PROVE  /\ Number(SubSeq(p, 3, Len(p))) \in TwoOctets
             /\ Spells(p, 3, Number(SubSeq(p, 3, Len(p))))
  <2>1. SubSeq(p, 3, Len(p))[1] = p[3] /\ SubSeq(p, 3, Len(p))[2] = p[3 + 1]
    BY <1>2
  <2>2. Number(SubSeq(p, 3, Len(p))) = p[3] + 256 * p[3 + 1]
    BY <2>1 DEF Number
  <2> QED
    BY <1>2, <2>2, SpellsOne
<1> QED
  BY <1>1, <1>2

----------------------------------------------------------------------------
\* The messages of each kind with any numbers of two bytes, and the bytes of each.
Hellos == [kind : {"Hello"}, minimum : TwoOctets, maximum : TwoOctets]
Readies == [kind : {"Ready"}, version : TwoOctets, flags : TwoOctets, locks : LockStatuses]
Chunks == [kind : {"Data", "ResultData"}, sequence : TwoOctets, bytes : Seq(Octet)]
Endings == [kind : {"End", "ResultEnd"}, chunks : TwoOctets]
Starts == [kind : {"Start"}, role : DOMAIN RoleByte]
Cancels == [kind : {"Cancel"}]
Completes == [kind : {"Complete"}, locks : LockStatuses]
Failures == [kind : {"Failed"}, class : DOMAIN ClassByte, locks : LockStatuses]

HelloBytes(p, m) == Len(p) = 4 /\ Spells(p, 1, m.minimum) /\ Spells(p, 3, m.maximum)
ReadyBytes(p, m) ==
  /\ Len(p) = 7 /\ Spells(p, 1, m.version) /\ Spells(p, 3, m.flags)
  /\ p[5] = 0 /\ p[6] = 0 /\ p[7] = LockByte(m.locks)
ZerosAfterTwo(p) == p[3] = 0 /\ p[4] = 0 /\ p[5] = 0 /\ p[6] = 0 /\ p[7] = 0 /\ p[8] = 0
ChunkBytesOf(p, m) ==
  /\ Len(p) = 8 + Len(m.bytes) /\ Spells(p, 1, m.sequence) /\ ZerosAfterTwo(p)
  /\ \A i \in 1..Len(m.bytes) : p[8 + i] = m.bytes[i]
EndBytes(p, m) == Len(p) = 8 /\ Spells(p, 1, m.chunks) /\ ZerosAfterTwo(p)

\* The payload of a message is made of these bytes.
LEMMA HelloSpelled ==
  ASSUME NEW m \in Hellos, NEW p, p = Payload(m)
  PROVE  p \in Seq(Octet) /\ HelloBytes(p, m)
<1>1. m.kind = "Hello" /\ m.minimum \in TwoOctets /\ m.maximum \in TwoOctets
  BY DEF Hellos
<1>2. PICK x : x = Digits(m.minimum, 2)
  OBVIOUS
<1>3. PICK y : y = Digits(m.maximum, 2)
  OBVIOUS
<1>4. p = x \o y
  BY <1>1, <1>2, <1>3 DEF Payload
<1>5. x \in Seq(Octet) /\ Len(x) = 2 /\ x[1] = Low(m.minimum) /\ x[2] = High(m.minimum)
  BY <1>1, <1>2, DigitsOf
<1>6. y \in Seq(Octet) /\ Len(y) = 2 /\ y[1] = Low(m.maximum) /\ y[2] = High(m.maximum)
  BY <1>1, <1>3, DigitsOf
<1>7. /\ p \in Seq(Octet) /\ Len(p) = 4
      /\ \A i \in 1..2 : p[i] = x[i]
      /\ \A i \in 1..2 : p[2 + i] = y[i]
  <2>1. Follow(Octet, p, x, y)
    BY <1>4, <1>5, <1>6, Joined
  <2> QED
    BY <1>5, <1>6, <2>1 DEF Follow
<1>8. p[1] = x[1] /\ p[2] = x[2] /\ p[3] = y[1] /\ p[4] = y[2]
  <2>1. 1 \in 1..2 /\ 2 \in 1..2 /\ 2 + 1 = 3 /\ 2 + 2 = 4
    OBVIOUS
  <2> QED
    BY <1>7, <2>1
<1> QED
  BY <1>5, <1>6, <1>7, <1>8 DEF HelloBytes, Spells

\* How encode_payload spells a Ready.
LEMMA ReadySpelled ==
  ASSUME NEW m \in Readies, NEW p, p = Payload(m)
  PROVE  p \in Seq(Octet) /\ ReadyBytes(p, m)
<1>1. m.kind = "Ready" /\ m.version \in TwoOctets /\ m.flags \in TwoOctets
  BY DEF Readies
<1>2. PICK x : x = Digits(m.version, 2)
  OBVIOUS
<1>3. PICK y : y = Digits(m.flags, 4)
  OBVIOUS
<1>4. PICK z : z = <<LockByte(m.locks)>>
  OBVIOUS
<1>5. PICK v : v = x \o y
  OBVIOUS
<1>6. p = v \o z
  BY <1>1, <1>2, <1>3, <1>4, <1>5 DEF Payload
<1>7. x \in Seq(Octet) /\ Len(x) = 2 /\ x[1] = Low(m.version) /\ x[2] = High(m.version)
  BY <1>1, <1>2, DigitsOf
<1>8. /\ y \in Seq(Octet) /\ Len(y) = 4 /\ y[1] = Low(m.flags) /\ y[2] = High(m.flags)
      /\ y[3] = 0 /\ y[4] = 0
  <2>1. /\ y \in Seq(Octet) /\ Len(y) = 4 /\ y[1] = Low(m.flags) /\ y[2] = High(m.flags)
        /\ \A i \in 3..4 : y[i] = 0
    BY <1>1, <1>3, DigitsOf
  <2>2. 3 \in 3..4 /\ 4 \in 3..4
    OBVIOUS
  <2> QED
    BY <2>1, <2>2
<1>9. z \in Seq(Octet) /\ Len(z) = 1 /\ z[1] = LockByte(m.locks)
  <2>1. LockByte(m.locks) \in Octet
    BY DEF LockByte, Octet
  <2> QED
    BY <1>4, <2>1
<1>10. /\ v \in Seq(Octet) /\ Len(v) = 6
       /\ \A i \in 1..2 : v[i] = x[i]
       /\ \A i \in 1..4 : v[2 + i] = y[i]
  <2>1. Follow(Octet, v, x, y)
    BY <1>5, <1>7, <1>8, Joined
  <2> QED
    BY <1>7, <1>8, <2>1 DEF Follow
<1>11. v[1] = x[1] /\ v[2] = x[2] /\ v[3] = y[1] /\ v[4] = y[2] /\ v[5] = y[3] /\ v[6] = y[4]
  <2>1. /\ 1 \in 1..2 /\ 2 \in 1..2 /\ 1 \in 1..4 /\ 2 \in 1..4 /\ 3 \in 1..4 /\ 4 \in 1..4
        /\ 2 + 1 = 3 /\ 2 + 2 = 4 /\ 2 + 3 = 5 /\ 2 + 4 = 6
    OBVIOUS
  <2> QED
    BY <1>10, <2>1
<1>12. /\ p \in Seq(Octet) /\ Len(p) = 7
       /\ \A i \in 1..6 : p[i] = v[i]
       /\ \A i \in 1..1 : p[6 + i] = z[i]
  <2>1. Follow(Octet, p, v, z)
    BY <1>6, <1>9, <1>10, Joined
  <2> QED
    BY <1>9, <1>10, <2>1 DEF Follow
<1>13. /\ p[1] = v[1] /\ p[2] = v[2] /\ p[3] = v[3] /\ p[4] = v[4] /\ p[5] = v[5]
       /\ p[6] = v[6] /\ p[7] = z[1]
  <2>1. /\ 1 \in 1..6 /\ 2 \in 1..6 /\ 3 \in 1..6 /\ 4 \in 1..6 /\ 5 \in 1..6 /\ 6 \in 1..6
        /\ 1 \in 1..1 /\ 6 + 1 = 7
    OBVIOUS
  <2> QED
    BY <1>12, <2>1
<1> QED
  BY <1>7, <1>8, <1>9, <1>11, <1>12, <1>13 DEF ReadyBytes, Spells

\* How it spells a Data or a ResultData.
LEMMA ChunkSpelled ==
  ASSUME NEW m \in Chunks, NEW p, p = Payload(m)
  PROVE  p \in Seq(Octet) /\ ChunkBytesOf(p, m)
<1>1. m.kind \in {"Data", "ResultData"} /\ m.sequence \in TwoOctets /\ m.bytes \in Seq(Octet)
  BY DEF Chunks
<1>2. PICK x : x = Digits(m.sequence, 8)
  OBVIOUS
<1>3. p = x \o m.bytes
  BY <1>1, <1>2 DEF Payload
<1>4. /\ x \in Seq(Octet) /\ Len(x) = 8 /\ x[1] = Low(m.sequence) /\ x[2] = High(m.sequence)
      /\ \A i \in 3..8 : x[i] = 0
  BY <1>1, <1>2, DigitsOf
<1>5. x[3] = 0 /\ x[4] = 0 /\ x[5] = 0 /\ x[6] = 0 /\ x[7] = 0 /\ x[8] = 0
  <2>1. 3 \in 3..8 /\ 4 \in 3..8 /\ 5 \in 3..8 /\ 6 \in 3..8 /\ 7 \in 3..8 /\ 8 \in 3..8
    OBVIOUS
  <2> QED
    BY <1>4, <2>1
<1>6. /\ p \in Seq(Octet) /\ Len(p) = 8 + Len(m.bytes)
      /\ \A i \in 1..8 : p[i] = x[i]
      /\ \A i \in 1..Len(m.bytes) : p[8 + i] = m.bytes[i]
  <2>1. Follow(Octet, p, x, m.bytes)
    BY <1>1, <1>3, <1>4, Joined
  <2> QED
    BY <1>4, <2>1 DEF Follow
<1>7. /\ p[1] = x[1] /\ p[2] = x[2] /\ p[3] = x[3] /\ p[4] = x[4]
      /\ p[5] = x[5] /\ p[6] = x[6] /\ p[7] = x[7] /\ p[8] = x[8]
  <2>1. /\ 1 \in 1..8 /\ 2 \in 1..8 /\ 3 \in 1..8 /\ 4 \in 1..8
        /\ 5 \in 1..8 /\ 6 \in 1..8 /\ 7 \in 1..8 /\ 8 \in 1..8
    OBVIOUS
  <2> QED
    BY <1>6, <2>1
<1> QED
  BY <1>4, <1>5, <1>6, <1>7 DEF ChunkBytesOf, Spells, ZerosAfterTwo

\* How it spells an End or a ResultEnd.
LEMMA EndSpelled ==
  ASSUME NEW m \in Endings, NEW p, p = Payload(m)
  PROVE  p \in Seq(Octet) /\ EndBytes(p, m)
<1>1. m.kind \in {"End", "ResultEnd"} /\ m.chunks \in TwoOctets
  BY DEF Endings
<1>2. p = Digits(m.chunks, 8)
  BY <1>1 DEF Payload
<1>3. /\ p \in Seq(Octet) /\ Len(p) = 8 /\ p[1] = Low(m.chunks) /\ p[2] = High(m.chunks)
      /\ \A i \in 3..8 : p[i] = 0
  BY <1>1, <1>2, DigitsOf
<1>4. p[3] = 0 /\ p[4] = 0 /\ p[5] = 0 /\ p[6] = 0 /\ p[7] = 0 /\ p[8] = 0
  <2>1. 3 \in 3..8 /\ 4 \in 3..8 /\ 5 \in 3..8 /\ 6 \in 3..8 /\ 7 \in 3..8 /\ 8 \in 3..8
    OBVIOUS
  <2> QED
    BY <1>3, <2>1
<1> QED
  BY <1>3, <1>4 DEF EndBytes, Spells, ZerosAfterTwo

\* A name whose byte no other name has is found by its byte.
LEMMA NamedBack ==
  ASSUME NEW names, \A k, l \in DOMAIN names : names[k] = names[l] => k = l
  PROVE  /\ \A k \in DOMAIN names : Named(names, names[k]) = k
         /\ \A byte : (\E k \in DOMAIN names : names[k] = byte) =>
              Named(names, byte) \in DOMAIN names /\ names[Named(names, byte)] = byte
BY DEF Named

\* The names of roles, classes and states of locks.
LEMMA NamesKnown ==
  /\ DOMAIN RoleByte = {"Media", "Archive"}
  /\ DOMAIN ClassByte = {"InvalidInput", "ResourceLimit", "Internal"}
  /\ \A r \in DOMAIN RoleByte : RoleByte[r] \in {1, 2} /\ Named(RoleByte, RoleByte[r]) = r
  /\ \A c \in DOMAIN ClassByte : ClassByte[c] \in {1, 2, 3} /\ Named(ClassByte, ClassByte[c]) = c
  /\ \A s \in LockStatuses : LockByte(s) \in LockBytes /\ LockOf(LockByte(s)) = s
  /\ \A b \in {1, 2} : Named(RoleByte, b) \in DOMAIN RoleByte /\ RoleByte[Named(RoleByte, b)] = b
  /\ \A b \in {1, 2, 3} : Named(ClassByte, b) \in DOMAIN ClassByte /\ ClassByte[Named(ClassByte, b)] = b
  /\ \A b \in LockBytes : LockOf(b) \in LockStatuses /\ LockByte(LockOf(b)) = b
<1>1. DOMAIN RoleByte = {"Media", "Archive"} /\ RoleByte["Media"] = 1 /\ RoleByte["Archive"] = 2
  BY DEF RoleByte
<1>2. /\ DOMAIN ClassByte = {"InvalidInput", "ResourceLimit", "Internal"}
      /\ ClassByte["InvalidInput"] = 1 /\ ClassByte["ResourceLimit"] = 2 /\ ClassByte["Internal"] = 3
  BY DEF ClassByte
<1>3. \A k, l \in DOMAIN RoleByte : RoleByte[k] = RoleByte[l] => k = l
  BY <1>1
<1>4. \A k, l \in DOMAIN ClassByte : ClassByte[k] = ClassByte[l] => k = l
  BY <1>2
<1>5. \A b \in {1, 2} : \E k \in DOMAIN RoleByte : RoleByte[k] = b
  BY <1>1
<1>6. \A b \in {1, 2, 3} : \E k \in DOMAIN ClassByte : ClassByte[k] = b
  BY <1>2
<1>7. /\ \A r \in DOMAIN RoleByte : RoleByte[r] \in {1, 2} /\ Named(RoleByte, RoleByte[r]) = r
      /\ \A b \in {1, 2} : Named(RoleByte, b) \in DOMAIN RoleByte /\ RoleByte[Named(RoleByte, b)] = b
  BY <1>1, <1>3, <1>5, NamedBack
<1>8. /\ \A c \in DOMAIN ClassByte : ClassByte[c] \in {1, 2, 3} /\ Named(ClassByte, ClassByte[c]) = c
      /\ \A b \in {1, 2, 3} :
           Named(ClassByte, b) \in DOMAIN ClassByte /\ ClassByte[Named(ClassByte, b)] = b
  BY <1>2, <1>4, <1>6, NamedBack
<1>9. /\ \A s \in LockStatuses : LockByte(s) \in LockBytes /\ LockOf(LockByte(s)) = s
      /\ \A b \in LockBytes : LockOf(b) \in LockStatuses /\ LockByte(LockOf(b)) = b
  BY DEF LockStatuses, LockBytes, LockByte, LockOf
<1> QED
  BY <1>1, <1>2, <1>7, <1>8, <1>9

\* The kind of each byte.
LEMMA KindsRead ==
  /\ Named(KindOf, 1) = "Hello" /\ Named(KindOf, 2) = "Ready" /\ Named(KindOf, 3) = "Start"
  /\ Named(KindOf, 4) = "Data" /\ Named(KindOf, 5) = "End" /\ Named(KindOf, 6) = "Cancel"
  /\ Named(KindOf, 7) = "Complete" /\ Named(KindOf, 8) = "Failed"
  /\ Named(KindOf, 9) = "ResultData" /\ Named(KindOf, 10) = "ResultEnd"
<1>1. \A kind \in DOMAIN KindOf : Named(KindOf, KindOf[kind]) = kind
  BY KindsNamed
<1>2. /\ KindOf["Hello"] = 1 /\ KindOf["Ready"] = 2 /\ KindOf["Start"] = 3 /\ KindOf["Data"] = 4
      /\ KindOf["End"] = 5 /\ KindOf["Cancel"] = 6 /\ KindOf["Complete"] = 7 /\ KindOf["Failed"] = 8
      /\ KindOf["ResultData"] = 9 /\ KindOf["ResultEnd"] = 10
  BY DEF KindOf
<1>3. {"Hello", "Ready", "Start", "Data", "End", "Cancel", "Complete", "Failed",
       "ResultData", "ResultEnd"} \subseteq DOMAIN KindOf
  BY KindsNamed
<1> QED
  BY <1>1, <1>2, <1>3

----------------------------------------------------------------------------
\* What decode makes of a frame of each kind: a message that is spelled as the frame is.
LEMMA HelloRead ==
  ASSUME NEW w, NEW p \in Seq(Octet), w.payload = p, w.kind = 1, Len(p) = 4
  PROVE  Decoded(w) \in Hellos /\ HelloBytes(p, Decoded(w))
<1>1. PICK a : a = Number(p)
  OBVIOUS
<1>2. PICK b : b = Number(SubSeq(p, 3, Len(p)))
  OBVIOUS
<1>3. a \in TwoOctets /\ b \in TwoOctets /\ Spells(p, 1, a) /\ Spells(p, 3, b)
  <2>1. Len(p) >= 2 /\ Len(p) >= 4
    OBVIOUS
  <2>2. /\ Number(p) \in TwoOctets /\ Spells(p, 1, Number(p))
        /\ Number(SubSeq(p, 3, Len(p))) \in TwoOctets
        /\ Spells(p, 3, Number(SubSeq(p, 3, Len(p))))
    BY <2>1, NumbersRead
  <2> QED
    BY <1>1, <1>2, <2>2
<1>4. Decoded(w) = [kind |-> "Hello", minimum |-> a, maximum |-> b]
  BY <1>1, <1>2, KindsRead DEF Decoded
<1> QED
  BY <1>3, <1>4 DEF Hellos, HelloBytes

\* A payload that spells a Ready is decoded as that Ready.
LEMMA ReadyRead ==
  ASSUME NEW w, NEW p \in Seq(Octet), w.payload = p, w.kind = 2, Len(p) = 7,
         HighBytesAreZero(p), p[7] \in LockBytes
  PROVE  Decoded(w) \in Readies /\ ReadyBytes(p, Decoded(w))
<1>1. PICK a : a = Number(p)
  OBVIOUS
<1>2. PICK b : b = Number(SubSeq(p, 3, Len(p)))
  OBVIOUS
<1>3. a \in TwoOctets /\ b \in TwoOctets /\ Spells(p, 1, a) /\ Spells(p, 3, b)
  <2>1. Len(p) >= 2 /\ Len(p) >= 4
    OBVIOUS
  <2>2. /\ Number(p) \in TwoOctets /\ Spells(p, 1, Number(p))
        /\ Number(SubSeq(p, 3, Len(p))) \in TwoOctets
        /\ Spells(p, 3, Number(SubSeq(p, 3, Len(p))))
    BY <2>1, NumbersRead
  <2> QED
    BY <1>1, <1>2, <2>2
<1>4. PICK c : c = LockOf(p[7])
  OBVIOUS
<1>5. c \in LockStatuses /\ LockByte(c) = p[7]
  BY <1>4, NamesKnown
<1>6. Decoded(w) = [kind |-> "Ready", version |-> a, flags |-> b, locks |-> c]
  BY <1>1, <1>2, <1>4, KindsRead DEF Decoded
<1>7. p[5] = 0 /\ p[6] = 0
  BY DEF HighBytesAreZero
<1> QED
  BY <1>3, <1>5, <1>6, <1>7 DEF Readies, ReadyBytes

\* A payload that spells a Data or a ResultData is decoded as that message.
LEMMA ChunkRead ==
  ASSUME NEW w, NEW p \in Seq(Octet), w.payload = p, w.kind \in {4, 9}, Len(p) >= 8,
         HighBytesAreZero(p)
  PROVE  Decoded(w) \in Chunks /\ ChunkBytesOf(p, Decoded(w)) /\ KindOf[Decoded(w).kind] = w.kind
<1>1. PICK a : a = Number(p)
  OBVIOUS
<1>2. PICK b : b = SubSeq(p, 9, Len(p))
  OBVIOUS
<1>3. a \in TwoOctets /\ Spells(p, 1, a)
  <2>1. Len(p) >= 2
    OBVIOUS
  <2> QED
    BY <1>1, <2>1, NumbersRead
<1>4. b \in Seq(Octet) /\ Len(b) = Len(p) - 8 /\ \A i \in 1..Len(b) : b[i] = p[8 + i]
  <2>1. Len(p) \in Nat /\ \A i \in 9..Len(p) : p[i] \in Octet
    OBVIOUS
  <2>2. /\ b \in Seq(Octet) /\ Len(b) = IF 9 <= Len(p) THEN Len(p) - 9 + 1 ELSE 0
        /\ \A i \in 1..Len(p) - 9 + 1 : b[i] = p[9 + i - 1]
    BY <1>2, <2>1, SubSeqProperties
  <2>3. Len(b) = Len(p) - 8
    <3>1. PICK n \in Nat : n = Len(p) /\ n >= 8
      OBVIOUS
    <3>2. Len(b) = IF 9 <= n THEN n - 9 + 1 ELSE 0
      BY <2>2, <3>1
    <3> QED
      BY <3>1, <3>2
  <2>4. ASSUME NEW i \in 1..Len(b) PROVE b[i] = p[8 + i]
    <3>1. i \in 1..Len(p) - 9 + 1 /\ 9 + i - 1 = 8 + i
      BY <2>1, <2>3
    <3> QED
      BY <2>2, <3>1
  <2> QED
    BY <2>2, <2>3, <2>4
<1>5. PICK k : k = Named(KindOf, w.kind)
  OBVIOUS
<1>6. k \in {"Data", "ResultData"} /\ KindOf[k] = w.kind
  BY <1>5, KindsRead DEF KindOf
<1>7. Decoded(w) = [kind |-> k, sequence |-> a, bytes |-> b]
  BY <1>1, <1>2, <1>5, <1>6 DEF Decoded
<1>8. ZerosAfterTwo(p)
  BY DEF HighBytesAreZero, ZerosAfterTwo
<1>9. Len(p) = 8 + Len(b)
  BY <1>4
<1> QED
  BY <1>3, <1>4, <1>6, <1>7, <1>8, <1>9 DEF Chunks, ChunkBytesOf

\* A payload that spells an End or a ResultEnd is decoded as that message.
LEMMA EndRead ==
  ASSUME NEW w, NEW p \in Seq(Octet), w.payload = p, w.kind \in {5, 10}, Len(p) = 8,
         HighBytesAreZero(p)
  PROVE  Decoded(w) \in Endings /\ EndBytes(p, Decoded(w)) /\ KindOf[Decoded(w).kind] = w.kind
<1>1. PICK a : a = Number(p)
  OBVIOUS
<1>2. a \in TwoOctets /\ Spells(p, 1, a)
  <2>1. Len(p) >= 2
    OBVIOUS
  <2> QED
    BY <1>1, <2>1, NumbersRead
<1>3. PICK k : k = Named(KindOf, w.kind)
  OBVIOUS
<1>4. k \in {"End", "ResultEnd"} /\ KindOf[k] = w.kind
  BY <1>3, KindsRead DEF KindOf
<1>5. Decoded(w) = [kind |-> k, chunks |-> a]
  BY <1>1, <1>3, <1>4 DEF Decoded
<1>6. ZerosAfterTwo(p)
  BY DEF HighBytesAreZero, ZerosAfterTwo
<1> QED
  BY <1>2, <1>4, <1>5, <1>6 DEF Endings, EndBytes

\* The kinds without numbers.
LEMMA NamesRead ==
  ASSUME NEW w, NEW p \in Seq(Octet), w.payload = p
  PROVE  /\ w.kind = 3 /\ p[1] \in {1, 2} =>
              Decoded(w) \in Starts /\ RoleByte[Decoded(w).role] = p[1]
         /\ w.kind = 6 => Decoded(w) \in Cancels
         /\ w.kind = 7 /\ p[1] \in LockBytes =>
              Decoded(w) \in Completes /\ LockByte(Decoded(w).locks) = p[1]
         /\ w.kind = 8 /\ p[1] \in {1, 2, 3} /\ p[2] \in LockBytes =>
              /\ Decoded(w) \in Failures
              /\ ClassByte[Decoded(w).class] = p[1] /\ LockByte(Decoded(w).locks) = p[2]
<1>1. ASSUME w.kind = 3, p[1] \in {1, 2}
      PROVE  Decoded(w) \in Starts /\ RoleByte[Decoded(w).role] = p[1]
  <2>1. PICK r : r = Named(RoleByte, p[1])
    OBVIOUS
  <2>2. r \in DOMAIN RoleByte /\ RoleByte[r] = p[1]
    BY <1>1, <2>1, NamesKnown
  <2>3. Decoded(w) = [kind |-> "Start", role |-> r]
    BY <1>1, <2>1, KindsRead DEF Decoded
  <2> QED
    BY <2>2, <2>3 DEF Starts
<1>2. ASSUME w.kind = 6 PROVE Decoded(w) \in Cancels
  BY <1>2, KindsRead DEF Decoded, Cancels
<1>3. ASSUME w.kind = 7, p[1] \in LockBytes
      PROVE  Decoded(w) \in Completes /\ LockByte(Decoded(w).locks) = p[1]
  <2>1. PICK c : c = LockOf(p[1])
    OBVIOUS
  <2>2. c \in LockStatuses /\ LockByte(c) = p[1]
    BY <1>3, <2>1, NamesKnown
  <2>3. Decoded(w) = [kind |-> "Complete", locks |-> c]
    BY <1>3, <2>1, KindsRead DEF Decoded
  <2> QED
    BY <2>2, <2>3 DEF Completes
<1>4. ASSUME w.kind = 8, p[1] \in {1, 2, 3}, p[2] \in LockBytes
      PROVE  /\ Decoded(w) \in Failures
             /\ ClassByte[Decoded(w).class] = p[1] /\ LockByte(Decoded(w).locks) = p[2]
  <2>1. PICK c : c = LockOf(p[2])
    OBVIOUS
  <2>2. PICK r : r = Named(ClassByte, p[1])
    OBVIOUS
  <2>3. c \in LockStatuses /\ LockByte(c) = p[2]
    BY <1>4, <2>1, NamesKnown
  <2>4. r \in DOMAIN ClassByte /\ ClassByte[r] = p[1]
    BY <1>4, <2>2, NamesKnown
  <2>5. Decoded(w) = [kind |-> "Failed", class |-> r, locks |-> c]
    BY <1>4, <2>1, <2>2, KindsRead DEF Decoded
  <2> QED
    BY <2>3, <2>4, <2>5 DEF Failures
<1> QED
  BY <1>1, <1>2, <1>3, <1>4

----------------------------------------------------------------------------
\* A frame that carries a message: it is well formed, and decodes to the message.
Carries(m) ==
  /\ Payload(m) \in Seq(Octet) /\ HighBytesAreZero(Payload(m))
  /\ Len(Payload(m)) <= MaxPayload /\ Len(Payload(m)) \in PayloadLengths(KindOf[m.kind])
  /\ PayloadNames(KindOf[m.kind], Payload(m)) /\ Decoded(Encode(m)) = m

\* The same bytes do not spell two numbers.
LEMMA SpellsSame ==
  ASSUME NEW p, NEW i, NEW a \in TwoOctets, NEW b \in TwoOctets, Spells(p, i, a), Spells(p, i, b)
  PROVE  a = b
BY BytesOf DEF Spells

\* Kind and payload of a frame.
LEMMA EncodedFields ==
  ASSUME NEW m
  PROVE  Encode(m).kind = KindOf[m.kind] /\ Encode(m).payload = Payload(m)
BY DEF Encode

\* What is encoded is decoded as it was, one kind of message after the other: Hello,
LEMMA HelloCarries ==
  ASSUME NEW m \in Hellos
  PROVE  Carries(m)
<1>1. PICK p : p = Payload(m)
  OBVIOUS
<1>2. PICK w : w = Encode(m)
  OBVIOUS
<1>3. p \in Seq(Octet) /\ HelloBytes(p, m)
  BY <1>1, HelloSpelled
<1>4. Len(p) = 4
  BY <1>3 DEF HelloBytes
<1>5. m.kind = "Hello" /\ KindOf[m.kind] = 1
  BY DEF Hellos, KindOf
<1>6. w.kind = 1 /\ w.payload = p
  BY <1>1, <1>2, <1>5, EncodedFields
<1>7. PICK d : d = Decoded(w)
  OBVIOUS
<1>8. d \in Hellos /\ HelloBytes(p, d)
  BY <1>3, <1>4, <1>6, <1>7, HelloRead
<1>9. d.minimum = m.minimum /\ d.maximum = m.maximum
  BY <1>3, <1>8, SpellsSame DEF HelloBytes, Hellos
<1>10. d = m
  BY <1>8, <1>9 DEF Hellos
<1>11. HighBytesAreZero(p) /\ Len(p) <= MaxPayload
  BY <1>4, WireAssumption DEF HighBytesAreZero, MaxPayload
<1>12. Len(p) \in PayloadLengths(1) /\ PayloadNames(1, p)
  BY <1>4 DEF PayloadLengths, PayloadNames
<1> QED
  BY <1>1, <1>2, <1>3, <1>5, <1>7, <1>10, <1>11, <1>12 DEF Carries

\* Ready,
LEMMA ReadyCarries ==
  ASSUME NEW m \in Readies
  PROVE  Carries(m)
<1>1. PICK p : p = Payload(m)
  OBVIOUS
<1>2. PICK w : w = Encode(m)
  OBVIOUS
<1>3. p \in Seq(Octet) /\ ReadyBytes(p, m)
  BY <1>1, ReadySpelled
<1>4. Len(p) = 7 /\ p[5] = 0 /\ p[6] = 0 /\ p[7] = LockByte(m.locks)
  BY <1>3 DEF ReadyBytes
<1>5. m.kind = "Ready" /\ KindOf[m.kind] = 2
  BY DEF Readies, KindOf
<1>6. w.kind = 2 /\ w.payload = p
  BY <1>1, <1>2, <1>5, EncodedFields
<1>7. p[7] \in LockBytes
  BY <1>4, NamesKnown DEF Readies
<1>8. HighBytesAreZero(p) /\ Len(p) <= MaxPayload
  BY <1>4, WireAssumption DEF HighBytesAreZero, MaxPayload
<1>9. PICK d : d = Decoded(w)
  OBVIOUS
<1>10. d \in Readies /\ ReadyBytes(p, d)
  BY <1>3, <1>4, <1>6, <1>7, <1>8, <1>9, ReadyRead
<1>11. d.version = m.version /\ d.flags = m.flags
  BY <1>3, <1>10, SpellsSame DEF ReadyBytes, Readies
<1>12. d.locks = m.locks
  <2>1. LockByte(d.locks) = LockByte(m.locks) /\ d.locks \in LockStatuses /\ m.locks \in LockStatuses
    BY <1>4, <1>10 DEF ReadyBytes, Readies
  <2> QED
    BY <2>1, NamesKnown
<1>13. d = m
  BY <1>10, <1>11, <1>12 DEF Readies
<1>14. Len(p) \in PayloadLengths(2) /\ PayloadNames(2, p)
  BY <1>4, <1>7 DEF PayloadLengths, PayloadNames
<1> QED
  BY <1>1, <1>2, <1>3, <1>5, <1>8, <1>9, <1>13, <1>14 DEF Carries

\* Data and ResultData,
LEMMA ChunkCarries ==
  ASSUME NEW m \in Chunks, Len(m.bytes) <= MaxDataLength
  PROVE  Carries(m)
<1>1. PICK p : p = Payload(m)
  OBVIOUS
<1>2. PICK w : w = Encode(m)
  OBVIOUS
<1>3. p \in Seq(Octet) /\ ChunkBytesOf(p, m)
  BY <1>1, ChunkSpelled
<1>4. PICK n \in Nat : n = Len(m.bytes) /\ n <= MaxDataLength
  BY DEF Chunks
<1>5. Len(p) = 8 + n /\ ZerosAfterTwo(p)
  BY <1>3, <1>4 DEF ChunkBytesOf
<1>6. KindOf[m.kind] \in {4, 9} /\ m.kind \in {"Data", "ResultData"}
  BY DEF Chunks, KindOf
<1>7. w.kind = KindOf[m.kind] /\ w.payload = p
  BY <1>1, <1>2, EncodedFields
<1>8. Len(p) >= 8 /\ Len(p) <= MaxPayload /\ Len(p) \in 0..MaxPayload
  BY <1>4, <1>5, WireAssumption DEF MaxPayload
<1>9. HighBytesAreZero(p)
  BY <1>5 DEF HighBytesAreZero, ZerosAfterTwo
<1>10. PICK d : d = Decoded(w)
  OBVIOUS
<1>11. d \in Chunks /\ ChunkBytesOf(p, d) /\ KindOf[d.kind] = w.kind
  BY <1>3, <1>6, <1>7, <1>8, <1>9, <1>10, ChunkRead
<1>12. d.kind = m.kind
  BY <1>7, <1>11 DEF Chunks, KindOf
<1>13. d.sequence = m.sequence
  BY <1>3, <1>11, SpellsSame DEF ChunkBytesOf, Chunks
<1>14. d.bytes = m.bytes
  <2>1. PICK x \in Seq(Octet) : x = d.bytes
    BY <1>11 DEF Chunks
  <2>2. PICK y \in Seq(Octet) : y = m.bytes
    BY DEF Chunks
  <2>3. /\ Len(p) = 8 + Len(x) /\ \A i \in 1..Len(x) : p[8 + i] = x[i]
        /\ Len(p) = 8 + Len(y) /\ \A i \in 1..Len(y) : p[8 + i] = y[i]
    BY <1>3, <1>11, <2>1, <2>2 DEF ChunkBytesOf
  <2>4. Len(x) = Len(y)
    BY <2>3
  <2>5. \A i \in 1..Len(x) : x[i] = y[i]
    BY <2>3, <2>4
  <2> QED
    BY <2>1, <2>2, <2>4, <2>5, SameOctets
<1>15. d = m
  BY <1>11, <1>12, <1>13, <1>14 DEF Chunks
<1>16. Len(p) \in PayloadLengths(KindOf[m.kind]) /\ PayloadNames(KindOf[m.kind], p)
  BY <1>6, <1>8 DEF PayloadLengths, PayloadNames, ChunkLengths
<1> QED
  BY <1>1, <1>2, <1>3, <1>8, <1>9, <1>10, <1>15, <1>16 DEF Carries

\* End and ResultEnd,
LEMMA EndCarries ==
  ASSUME NEW m \in Endings
  PROVE  Carries(m)
<1>1. PICK p : p = Payload(m)
  OBVIOUS
<1>2. PICK w : w = Encode(m)
  OBVIOUS
<1>3. p \in Seq(Octet) /\ EndBytes(p, m)
  BY <1>1, EndSpelled
<1>4. Len(p) = 8 /\ ZerosAfterTwo(p)
  BY <1>3 DEF EndBytes
<1>5. KindOf[m.kind] \in {5, 10} /\ m.kind \in {"End", "ResultEnd"}
  BY DEF Endings, KindOf
<1>6. w.kind = KindOf[m.kind] /\ w.payload = p
  BY <1>1, <1>2, EncodedFields
<1>7. HighBytesAreZero(p) /\ Len(p) <= MaxPayload
  BY <1>4, WireAssumption DEF HighBytesAreZero, ZerosAfterTwo, MaxPayload
<1>8. PICK d : d = Decoded(w)
  OBVIOUS
<1>9. d \in Endings /\ EndBytes(p, d) /\ KindOf[d.kind] = w.kind
  BY <1>3, <1>4, <1>5, <1>6, <1>7, <1>8, EndRead
<1>10. d.kind = m.kind
  BY <1>6, <1>9 DEF Endings, KindOf
<1>11. d.chunks = m.chunks
  BY <1>3, <1>9, SpellsSame DEF EndBytes, Endings
<1>12. d = m
  BY <1>9, <1>10, <1>11 DEF Endings
<1>13. Len(p) \in PayloadLengths(KindOf[m.kind]) /\ PayloadNames(KindOf[m.kind], p)
  BY <1>4, <1>5 DEF PayloadLengths, PayloadNames
<1> QED
  BY <1>1, <1>2, <1>3, <1>7, <1>8, <1>12, <1>13 DEF Carries

\* The kinds without numbers.
LEMMA NamesSpelled ==
  ASSUME NEW m, NEW p, p = Payload(m)
  PROVE  /\ m \in Starts => /\ p \in Seq(Octet) /\ Len(p) = 1
                            /\ p[1] = RoleByte[m.role] /\ p[1] \in {1, 2}
         /\ m \in Cancels => p \in Seq(Octet) /\ Len(p) = 0
         /\ m \in Completes => /\ p \in Seq(Octet) /\ Len(p) = 1
                               /\ p[1] = LockByte(m.locks) /\ p[1] \in LockBytes
         /\ m \in Failures => /\ p \in Seq(Octet) /\ Len(p) = 2
                              /\ p[1] = ClassByte[m.class] /\ p[1] \in {1, 2, 3}
                              /\ p[2] = LockByte(m.locks) /\ p[2] \in LockBytes
<1>1. 1 \in Octet /\ 2 \in Octet /\ 3 \in Octet
  BY DEF Octet
<1>2. ASSUME m \in Starts
      PROVE  p \in Seq(Octet) /\ Len(p) = 1 /\ p[1] = RoleByte[m.role] /\ p[1] \in {1, 2}
  <2>1. m.kind = "Start" /\ m.role \in DOMAIN RoleByte
    BY <1>2 DEF Starts
  <2>2. RoleByte[m.role] \in {1, 2}
    BY <2>1, NamesKnown
  <2>3. p = <<RoleByte[m.role]>>
    BY <2>1 DEF Payload
  <2> QED
    BY <1>1, <2>2, <2>3
<1>3. ASSUME m \in Cancels PROVE p \in Seq(Octet) /\ Len(p) = 0
  BY <1>3 DEF Cancels, Payload
<1>4. ASSUME m \in Completes
      PROVE  p \in Seq(Octet) /\ Len(p) = 1 /\ p[1] = LockByte(m.locks) /\ p[1] \in LockBytes
  <2>1. m.kind = "Complete" /\ m.locks \in LockStatuses
    BY <1>4 DEF Completes
  <2>2. LockByte(m.locks) \in LockBytes
    BY <2>1, NamesKnown
  <2>3. p = <<LockByte(m.locks)>>
    BY <2>1 DEF Payload
  <2> QED
    BY <1>1, <2>2, <2>3 DEF LockBytes
<1>5. ASSUME m \in Failures
      PROVE  /\ p \in Seq(Octet) /\ Len(p) = 2 /\ p[1] = ClassByte[m.class] /\ p[1] \in {1, 2, 3}
             /\ p[2] = LockByte(m.locks) /\ p[2] \in LockBytes
  <2>1. m.kind = "Failed" /\ m.locks \in LockStatuses /\ m.class \in DOMAIN ClassByte
    BY <1>5 DEF Failures
  <2>2. LockByte(m.locks) \in LockBytes /\ ClassByte[m.class] \in {1, 2, 3}
    BY <2>1, NamesKnown
  <2>3. p = <<ClassByte[m.class], LockByte(m.locks)>>
    BY <2>1 DEF Payload
  <2> QED
    BY <1>1, <2>2, <2>3 DEF LockBytes
<1> QED
  BY <1>2, <1>3, <1>4, <1>5

\* and the kinds whose payload is two bytes at most, for which nothing is said of the high bytes,
LEMMA ShortCarries ==
  ASSUME NEW m, NEW p, p = Payload(m), p \in Seq(Octet), Len(p) <= 2,
         Len(p) \in PayloadLengths(KindOf[m.kind]), PayloadNames(KindOf[m.kind], p),
         Decoded(Encode(m)) = m
  PROVE  Carries(m)
BY WireAssumption DEF Carries, HighBytesAreZero, MaxPayload

\* that is Start, Cancel, Complete and Failed.
LEMMA NamesCarry ==
  ASSUME NEW m \in Starts \cup Cancels \cup Completes \cup Failures
  PROVE  Carries(m)
<1>1. PICK p : p = Payload(m)
  OBVIOUS
<1>2. PICK w : w = Encode(m)
  OBVIOUS
<1>3. PICK d : d = Decoded(w)
  OBVIOUS
<1>4. w.kind = KindOf[m.kind] /\ w.payload = p
  BY <1>1, <1>2, EncodedFields
<1>5. CASE m \in Starts
  <2>1. p \in Seq(Octet) /\ Len(p) = 1 /\ p[1] = RoleByte[m.role] /\ p[1] \in {1, 2}
    BY <1>1, <1>5, NamesSpelled
  <2>2. m.kind = "Start" /\ KindOf[m.kind] = 3
    BY <1>5 DEF Starts, KindOf
  <2>3. d \in Starts /\ RoleByte[d.role] = p[1]
    BY <1>3, <1>4, <2>1, <2>2, NamesRead
  <2>4. d.role = m.role
    BY <1>5, <2>1, <2>3, NamesKnown DEF Starts
  <2>5. d = m
    BY <1>5, <2>3, <2>4 DEF Starts
  <2>6. Len(p) \in PayloadLengths(3) /\ PayloadNames(3, p)
    BY <2>1 DEF PayloadLengths, PayloadNames
  <2>7. p \in Seq(Octet) /\ Len(p) <= 2 /\ Decoded(Encode(m)) = m
    BY <1>2, <1>3, <2>1, <2>5
  <2> QED
    BY <1>1, <2>2, <2>6, <2>7, ShortCarries
<1>6. CASE m \in Cancels
  <2>1. p \in Seq(Octet) /\ Len(p) = 0
    BY <1>1, <1>6, NamesSpelled
  <2>2. m.kind = "Cancel" /\ KindOf[m.kind] = 6
    BY <1>6 DEF Cancels, KindOf
  <2>3. d \in Cancels
    BY <1>3, <1>4, <2>1, <2>2, NamesRead
  <2>4. d = m
    BY <1>6, <2>3 DEF Cancels
  <2>5. Len(p) \in PayloadLengths(6) /\ PayloadNames(6, p)
    BY <2>1 DEF PayloadLengths, PayloadNames
  <2>6. p \in Seq(Octet) /\ Len(p) <= 2 /\ Decoded(Encode(m)) = m
    BY <1>2, <1>3, <2>1, <2>4
  <2> QED
    BY <1>1, <2>2, <2>5, <2>6, ShortCarries
<1>7. CASE m \in Completes
  <2>1. p \in Seq(Octet) /\ Len(p) = 1 /\ p[1] = LockByte(m.locks) /\ p[1] \in LockBytes
    BY <1>1, <1>7, NamesSpelled
  <2>2. m.kind = "Complete" /\ KindOf[m.kind] = 7
    BY <1>7 DEF Completes, KindOf
  <2>3. d \in Completes /\ LockByte(d.locks) = p[1]
    BY <1>3, <1>4, <2>1, <2>2, NamesRead
  <2>4. d.locks = m.locks
    BY <1>7, <2>1, <2>3, NamesKnown DEF Completes
  <2>5. d = m
    BY <1>7, <2>3, <2>4 DEF Completes
  <2>6. Len(p) \in PayloadLengths(7) /\ PayloadNames(7, p)
    BY <2>1 DEF PayloadLengths, PayloadNames
  <2>7. p \in Seq(Octet) /\ Len(p) <= 2 /\ Decoded(Encode(m)) = m
    BY <1>2, <1>3, <2>1, <2>5
  <2> QED
    BY <1>1, <2>2, <2>6, <2>7, ShortCarries
<1>8. CASE m \in Failures
  <2>1. /\ p \in Seq(Octet) /\ Len(p) = 2 /\ p[1] = ClassByte[m.class] /\ p[1] \in {1, 2, 3}
        /\ p[2] = LockByte(m.locks) /\ p[2] \in LockBytes
    BY <1>1, <1>8, NamesSpelled
  <2>2. m.kind = "Failed" /\ KindOf[m.kind] = 8
    BY <1>8 DEF Failures, KindOf
  <2>3. d \in Failures /\ ClassByte[d.class] = p[1] /\ LockByte(d.locks) = p[2]
    BY <1>3, <1>4, <2>1, <2>2, NamesRead
  <2>4. d.class = m.class
    BY <1>8, <2>1, <2>3, NamesKnown DEF Failures
  <2>5. d.locks = m.locks
    BY <1>8, <2>1, <2>3, NamesKnown DEF Failures
  <2>6. d = m
    BY <1>8, <2>3, <2>4, <2>5 DEF Failures
  <2>7. Len(p) \in PayloadLengths(8) /\ PayloadNames(8, p)
    BY <2>1 DEF PayloadLengths, PayloadNames
  <2>8. p \in Seq(Octet) /\ Len(p) <= 2 /\ Decoded(Encode(m)) = m
    BY <1>2, <1>3, <2>1, <2>6
  <2> QED
    BY <1>1, <2>2, <2>7, <2>8, ShortCarries
<1> QED
  BY <1>5, <1>6, <1>7, <1>8

\* Every message that is sent is carried.
LEMMA MessageCarried ==
  ASSUME NEW kind \in DOMAIN KindOf, NEW m \in Message(kind), Sendable(m)
  PROVE  Carries(m) /\ m.kind = kind
<1>1. FrameNumbers \subseteq TwoOctets /\ Payloads \subseteq Seq(Octet)
  BY WireAssumption
<1>2. kind \in {"Hello", "Ready", "Start", "Data", "End", "Cancel", "Complete", "Failed",
                "ResultData", "ResultEnd"}
  BY KindsNamed
<1>3. CASE kind = "Hello"
  <2>1. m \in Hellos
    BY <1>1, <1>3 DEF Message, Hellos
  <2> QED
    BY <1>3, <2>1, HelloCarries DEF Hellos
<1>4. CASE kind = "Ready"
  <2>1. m \in Readies
    BY <1>1, <1>4 DEF Message, Readies
  <2> QED
    BY <1>4, <2>1, ReadyCarries DEF Readies
<1>5. CASE kind = "Start"
  <2>1. m \in Starts
    BY <1>5 DEF Message, Starts
  <2> QED
    BY <1>5, <2>1, NamesCarry DEF Starts
<1>6. CASE kind \in {"Data", "ResultData"}
  <2>1. m \in [kind : {kind}, sequence : FrameNumbers, bytes : Payloads]
    BY <1>6 DEF Message
  <2>2. m \in Chunks /\ m.kind = kind
    BY <1>1, <1>6, <2>1 DEF Chunks
  <2>3. Len(m.bytes) <= MaxDataLength
    BY <1>6, <2>2 DEF Sendable
  <2> QED
    BY <2>2, <2>3, ChunkCarries
<1>7. CASE kind \in {"End", "ResultEnd"}
  <2>1. m \in [kind : {kind}, chunks : FrameNumbers]
    BY <1>7 DEF Message
  <2>2. m \in Endings /\ m.kind = kind
    BY <1>1, <1>7, <2>1 DEF Endings
  <2> QED
    BY <2>2, EndCarries
<1>8. CASE kind = "Cancel"
  <2>1. m \in Cancels
    BY <1>8 DEF Message, Cancels
  <2> QED
    BY <1>8, <2>1, NamesCarry DEF Cancels
<1>9. CASE kind = "Complete"
  <2>1. m \in Completes
    BY <1>9 DEF Message, Completes
  <2> QED
    BY <1>9, <2>1, NamesCarry DEF Completes
<1>10. CASE kind = "Failed"
  <2>1. m \in Failures
    BY <1>10 DEF Message, Failures
  <2> QED
    BY <1>10, <2>1, NamesCarry DEF Failures
<1> QED
  BY <1>2, <1>3, <1>4, <1>5, <1>6, <1>7, <1>8, <1>9, <1>10

----------------------------------------------------------------------------
\* A well formed frame is determined by its kind and its payload.
LEMMA FrameOf ==
  ASSUME NEW w, Shaped(w), Framed(w), NEW m, KindOf[m.kind] = w.kind, Payload(m) = w.payload
  PROVE  Encode(m) = w
<1>1. w = [f \in {"magic", "version", "kind", "reserved", "length", "payload"} |-> w[f]]
  BY DEF Shaped
<1>2. w = [magic |-> w.magic, version |-> w.version, kind |-> w.kind, reserved |-> w.reserved,
           length |-> w.length, payload |-> w.payload]
  BY <1>1
<1>3. /\ w.magic = "OSVWIPC" /\ w.version = Version /\ w.reserved = 0
      /\ w.length = Len(w.payload)
  BY DEF Framed
<1> QED
  BY <1>2, <1>3 DEF Encode

\* The bytes of a number decide it, and the bytes behind it decide the payload.
LEMMA SpelledSame ==
  ASSUME NEW p \in Seq(Octet), NEW q \in Seq(Octet), NEW i, NEW n, Spells(p, i, n), Spells(q, i, n)
  PROVE  p[i] = q[i] /\ p[i + 1] = q[i + 1]
BY DEF Spells

\* Payloads whose first eight bytes spell the same number have the same first eight bytes.
LEMMA EightSame ==
  ASSUME NEW p \in Seq(Octet), NEW q \in Seq(Octet), NEW n,
         Spells(p, 1, n), Spells(q, 1, n), ZerosAfterTwo(p), ZerosAfterTwo(q)
  PROVE  \A i \in 1..8 : p[i] = q[i]
<1>1. /\ p[1] = q[1] /\ p[2] = q[2] /\ p[3] = q[3] /\ p[4] = q[4]
      /\ p[5] = q[5] /\ p[6] = q[6] /\ p[7] = q[7] /\ p[8] = q[8]
  <2>1. 1 + 1 = 2
    OBVIOUS
  <2> QED
    BY <2>1 DEF Spells, ZerosAfterTwo
<1>2. \A i \in 1..8 : i \in {1, 2, 3, 4, 5, 6, 7, 8}
  OBVIOUS
<1> QED
  BY <1>1, <1>2

\* A frame that decodes is the encoding of what it decodes to.
LEMMA Canonical ==
  ASSUME NEW w, Shaped(w), Decodes(w)
  PROVE  Encode(Decoded(w)) = w
<1>1. PICK p : p = w.payload
  OBVIOUS
<1>2. p \in Seq(Octet) /\ HighBytesAreZero(p)
  BY <1>1 DEF Shaped, Decodes, Framed
<1>3. Framed(w) /\ Len(p) \in PayloadLengths(w.kind) /\ PayloadNames(w.kind, p)
  BY <1>1 DEF Decodes
<1>4. PICK m : m = Decoded(w)
  OBVIOUS
<1>5. PICK q : q = Payload(m)
  OBVIOUS
<1>6. SUFFICES KindOf[m.kind] = w.kind /\ q = p
  BY <1>1, <1>3, <1>4, <1>5, FrameOf
<1>7. w.kind \in {1, 2, 3, 4, 5, 6, 7, 8, 9, 10}
  BY <1>3 DEF PayloadLengths
<1>8. CASE w.kind = 1
  <2>1. Len(p) = 4
    BY <1>3, <1>8 DEF PayloadLengths
  <2>2. m \in Hellos /\ HelloBytes(p, m)
    BY <1>1, <1>2, <1>4, <1>8, <2>1, HelloRead
  <2>3. q \in Seq(Octet) /\ HelloBytes(q, m)
    BY <1>5, <2>2, HelloSpelled
  <2>4. /\ Spells(p, 1, m.minimum) /\ Spells(p, 3, m.maximum) /\ Len(q) = 4
        /\ Spells(q, 1, m.minimum) /\ Spells(q, 3, m.maximum)
    BY <2>2, <2>3 DEF HelloBytes
  <2>5. p[1] = q[1] /\ p[2] = q[2] /\ p[3] = q[3] /\ p[4] = q[4]
    <3>1. 1 + 1 = 2 /\ 3 + 1 = 4
      OBVIOUS
    <3> QED
      BY <2>4, <3>1 DEF Spells
  <2>6. \A i \in 1..4 : p[i] = q[i]
    <3>1. \A i \in 1..4 : i \in {1, 2, 3, 4}
      OBVIOUS
    <3> QED
      BY <2>5, <3>1
  <2>7. q = p
    BY <1>2, <2>1, <2>3, <2>4, <2>6, SameOctets
  <2> QED
    BY <1>8, <2>2, <2>7 DEF Hellos, KindOf
<1>9. CASE w.kind = 2
  <2>1. Len(p) = 7 /\ p[7] \in LockBytes
    BY <1>3, <1>9 DEF PayloadLengths, PayloadNames
  <2>2. m \in Readies /\ ReadyBytes(p, m)
    BY <1>1, <1>2, <1>4, <1>9, <2>1, ReadyRead
  <2>3. q \in Seq(Octet) /\ ReadyBytes(q, m)
    BY <1>5, <2>2, ReadySpelled
  <2>4. /\ Spells(p, 1, m.version) /\ Spells(p, 3, m.flags)
        /\ p[5] = 0 /\ p[6] = 0 /\ p[7] = LockByte(m.locks)
    BY <2>2 DEF ReadyBytes
  <2>5. /\ Len(q) = 7 /\ Spells(q, 1, m.version) /\ Spells(q, 3, m.flags)
        /\ q[5] = 0 /\ q[6] = 0 /\ q[7] = LockByte(m.locks)
    BY <2>3 DEF ReadyBytes
  <2>6. p[1] = q[1] /\ p[2] = q[2] /\ p[3] = q[3] /\ p[4] = q[4]
    <3>1. 1 + 1 = 2 /\ 3 + 1 = 4
      OBVIOUS
    <3> QED
      BY <2>4, <2>5, <3>1 DEF Spells
  <2>7. \A i \in 1..7 : p[i] = q[i]
    <3>1. \A i \in 1..7 : i \in {1, 2, 3, 4, 5, 6, 7}
      OBVIOUS
    <3> QED
      BY <2>4, <2>5, <2>6, <3>1
  <2>8. q = p
    BY <1>2, <2>1, <2>3, <2>5, <2>7, SameOctets
  <2> QED
    BY <1>9, <2>2, <2>8 DEF Readies, KindOf
<1>10. CASE w.kind \in {4, 9}
  <2>1. Len(p) >= 8
    BY <1>3, <1>10 DEF PayloadLengths, ChunkLengths
  <2>2. m \in Chunks /\ ChunkBytesOf(p, m) /\ KindOf[m.kind] = w.kind
    BY <1>1, <1>2, <1>4, <1>10, <2>1, ChunkRead
  <2>3. q \in Seq(Octet) /\ ChunkBytesOf(q, m)
    BY <1>5, <2>2, ChunkSpelled
  <2>4. PICK n \in Nat : n = Len(m.bytes)
    BY <2>2 DEF Chunks
  <2>5. /\ Len(p) = 8 + n /\ Spells(p, 1, m.sequence) /\ ZerosAfterTwo(p)
        /\ \A i \in 1..n : p[8 + i] = m.bytes[i]
    BY <2>2, <2>4 DEF ChunkBytesOf
  <2>6. /\ Len(q) = 8 + n /\ Spells(q, 1, m.sequence) /\ ZerosAfterTwo(q)
        /\ \A i \in 1..n : q[8 + i] = m.bytes[i]
    BY <2>3, <2>4 DEF ChunkBytesOf
  <2>7. \A i \in 1..8 : p[i] = q[i]
    BY <1>2, <2>3, <2>5, <2>6, EightSame
  <2>8. ASSUME NEW i \in 1..8 + n PROVE p[i] = q[i]
    <3>1. CASE i <= 8
      BY <2>7, <3>1
    <3>2. CASE i > 8
      <4>1. i - 8 \in 1..n /\ 8 + (i - 8) = i
        BY <3>2
      <4>2. p[8 + (i - 8)] = m.bytes[i - 8] /\ q[8 + (i - 8)] = m.bytes[i - 8]
        BY <2>5, <2>6, <4>1
      <4> QED
        BY <4>1, <4>2
    <3> QED
      BY <3>1, <3>2
  <2>9. q = p
    BY <1>2, <2>3, <2>5, <2>6, <2>8, SameOctets
  <2> QED
    BY <2>2, <2>9
<1>11. CASE w.kind \in {5, 10}
  <2>1. Len(p) = 8
    BY <1>3, <1>11 DEF PayloadLengths
  <2>2. m \in Endings /\ EndBytes(p, m) /\ KindOf[m.kind] = w.kind
    BY <1>1, <1>2, <1>4, <1>11, <2>1, EndRead
  <2>3. q \in Seq(Octet) /\ EndBytes(q, m)
    BY <1>5, <2>2, EndSpelled
  <2>4. \A i \in 1..8 : p[i] = q[i]
    BY <1>2, <2>2, <2>3, EightSame DEF EndBytes
  <2>5. Len(q) = 8
    BY <2>3 DEF EndBytes
  <2>6. q = p
    BY <1>2, <2>1, <2>3, <2>4, <2>5, SameOctets
  <2> QED
    BY <2>2, <2>6
<1>12. ASSUME w.kind \in {3, 6, 7, 8} PROVE KindOf[m.kind] = w.kind /\ q = p
  <2>1. KindOf["Start"] = 3 /\ KindOf["Cancel"] = 6 /\ KindOf["Complete"] = 7 /\ KindOf["Failed"] = 8
    BY DEF KindOf
  <2>2. CASE w.kind = 3
    <3>1. Len(p) = 1 /\ p[1] \in {1, 2}
      BY <1>3, <2>2 DEF PayloadLengths, PayloadNames
    <3>2. m \in Starts /\ RoleByte[m.role] = p[1]
      BY <1>1, <1>2, <1>4, <2>2, <3>1, NamesRead
    <3>3. q \in Seq(Octet) /\ Len(q) = 1 /\ q[1] = RoleByte[m.role]
      BY <1>5, <3>2, NamesSpelled
    <3>4. \A i \in 1..1 : p[i] = q[i]
      BY <3>2, <3>3
    <3>5. q = p
      BY <1>2, <3>1, <3>3, <3>4, SameOctets
    <3> QED
      BY <2>1, <2>2, <3>2, <3>5 DEF Starts
  <2>3. CASE w.kind = 6
    <3>1. Len(p) = 0
      BY <1>3, <2>3 DEF PayloadLengths
    <3>2. m \in Cancels
      BY <1>1, <1>2, <1>4, <2>3, NamesRead
    <3>3. q \in Seq(Octet) /\ Len(q) = 0
      BY <1>5, <3>2, NamesSpelled
    <3>4. q = p
      BY <1>2, <3>1, <3>3
    <3> QED
      BY <2>1, <2>3, <3>2, <3>4 DEF Cancels
  <2>4. CASE w.kind = 7
    <3>1. Len(p) = 1 /\ p[1] \in LockBytes
      BY <1>3, <2>4 DEF PayloadLengths, PayloadNames
    <3>2. m \in Completes /\ LockByte(m.locks) = p[1]
      BY <1>1, <1>2, <1>4, <2>4, <3>1, NamesRead
    <3>3. q \in Seq(Octet) /\ Len(q) = 1 /\ q[1] = LockByte(m.locks)
      BY <1>5, <3>2, NamesSpelled
    <3>4. \A i \in 1..1 : p[i] = q[i]
      BY <3>2, <3>3
    <3>5. q = p
      BY <1>2, <3>1, <3>3, <3>4, SameOctets
    <3> QED
      BY <2>1, <2>4, <3>2, <3>5 DEF Completes
  <2>5. CASE w.kind = 8
    <3>1. Len(p) = 2 /\ p[1] \in {1, 2, 3} /\ p[2] \in LockBytes
      BY <1>3, <2>5 DEF PayloadLengths, PayloadNames
    <3>2. m \in Failures /\ ClassByte[m.class] = p[1] /\ LockByte(m.locks) = p[2]
      BY <1>1, <1>2, <1>4, <2>5, <3>1, NamesRead
    <3>3. /\ q \in Seq(Octet) /\ Len(q) = 2
          /\ q[1] = ClassByte[m.class] /\ q[2] = LockByte(m.locks)
      BY <1>5, <3>2, NamesSpelled
    <3>4. \A i \in 1..2 : p[i] = q[i]
      <4>1. \A i \in 1..2 : i \in {1, 2}
        OBVIOUS
      <4> QED
        BY <3>2, <3>3, <4>1
    <3>5. q = p
      BY <1>2, <3>1, <3>3, <3>4, SameOctets
    <3> QED
      BY <2>1, <2>5, <3>2, <3>5 DEF Failures
  <2> QED
    BY <1>12, <2>2, <2>3, <2>4, <2>5
<1> QED
  BY <1>7, <1>8, <1>9, <1>10, <1>11, <1>12

----------------------------------------------------------------------------
\* The invariant of the frames: at first, and in every step.
LEMMA WireBegins == WireInit => WireInvariant
BY DEF WireInit, WireInvariant, WireIsCanonical, Undecoded

\* What is encoded is well shaped, and decodes.
LEMMA EncodedFits ==
  ASSUME NEW m, Carries(m), NEW w, w = Encode(m)
  PROVE  /\ Shaped(w) /\ HighBytesAreZero(w.payload) /\ w.length = Len(w.payload)
         /\ Decodes(w) /\ Decoded(w) = m
<1>1. PICK p : p = Payload(m)
  OBVIOUS
<1>2. w = [magic |-> "OSVWIPC", version |-> Version, kind |-> KindOf[m.kind], reserved |-> 0,
           length |-> Len(p), payload |-> p]
  BY <1>1 DEF Encode
<1>3. /\ p \in Seq(Octet) /\ HighBytesAreZero(p) /\ Len(p) <= MaxPayload
      /\ Len(p) \in PayloadLengths(KindOf[m.kind]) /\ PayloadNames(KindOf[m.kind], p)
      /\ Decoded(w) = m
  BY <1>1 DEF Carries
<1>4. Shaped(w)
  BY <1>2, <1>3 DEF Shaped
<1>5. Decodes(w)
  <2>1. Framed(w)
    BY <1>2, <1>3 DEF Framed
  <2> QED
    BY <1>2, <1>3, <2>1 DEF Decodes
<1> QED
  BY <1>2, <1>3, <1>4, <1>5

\* One damage leaves a frame in shape.
LEMMA DamagedShape ==
  ASSUME NEW kind \in DOMAIN KindOf, sent \in Message(kind), Sendable(sent), DamageFrame
  PROVE  Shaped(wire')
<1>1. Carries(sent) /\ sent.kind = kind
  BY MessageCarried
<1>2. wire = Encode(sent)
  BY DEF DamageFrame
<1>3. /\ Shaped(wire) /\ HighBytesAreZero(wire.payload) /\ wire.length = Len(wire.payload)
      /\ Decodes(wire)
  BY <1>1, <1>2, EncodedFits
<1>4. PICK p \in Seq(Octet) : p = wire.payload
  BY <1>3 DEF Shaped
<1>5. /\ DOMAIN wire = {"magic", "version", "kind", "reserved", "length", "payload"}
      /\ wire = [f \in DOMAIN wire |-> wire[f]]
  BY <1>3 DEF Shaped
<1>6. ASSUME NEW i \in 1..Len(wire.payload), NEW byte \in DamagedBytes,
             i \in {1, 2, 9} \/ (i = 7 /\ wire.kind = KindOf["Ready"]),
             wire' = [wire EXCEPT !.payload[i] = byte]
      PROVE  Shaped(wire')
  <2>1. byte \in Octet
    BY WireAssumption
  <2>2. PICK q : q = [p EXCEPT ![i] = byte]
    OBVIOUS
  <2>3. q \in Seq(Octet) /\ Len(q) = Len(p) /\ \A j \in 1..Len(p) : j # i => q[j] = p[j]
    BY <1>4, <1>6, <2>1, <2>2
  <2>4. HighBytesAreZero(p)
    BY <1>3, <1>4
  <2>5. i = 7 => Len(p) = 7
    <3>1. KindOf["Ready"] = 2
      BY DEF KindOf
    <3>2. i = 7 => wire.kind = 2
      BY <1>6, <3>1
    <3>3. Len(p) \in PayloadLengths(wire.kind)
      BY <1>3, <1>4 DEF Decodes
    <3> QED
      BY <3>2, <3>3 DEF PayloadLengths
  <2>6. i \in {1, 2, 7, 9} /\ Len(p) \in Nat
    BY <1>6
  <2>7. HighBytesAreZero(q)
    <3>1. ASSUME Len(q) >= 7 PROVE q[5] = 0 /\ q[6] = 0
      <4>1. p[5] = 0 /\ p[6] = 0 /\ 5 \in 1..Len(p) /\ 6 \in 1..Len(p)
        BY <2>3, <2>4, <2>6, <3>1 DEF HighBytesAreZero
      <4>2. i # 5 /\ i # 6
        BY <2>6
      <4> QED
        BY <2>3, <4>1, <4>2
    <3>2. ASSUME Len(q) >= 8 PROVE q[3] = 0 /\ q[4] = 0 /\ q[7] = 0 /\ q[8] = 0
      <4>1. p[3] = 0 /\ p[4] = 0 /\ p[7] = 0 /\ p[8] = 0
        BY <2>3, <2>4, <3>2 DEF HighBytesAreZero
      <4>2. 3 \in 1..Len(p) /\ 4 \in 1..Len(p) /\ 7 \in 1..Len(p) /\ 8 \in 1..Len(p)
        BY <2>3, <2>6, <3>2
      <4>3. i # 3 /\ i # 4 /\ i # 8
        BY <2>6
      <4>4. i # 7
        BY <2>3, <2>5, <3>2
      <4> QED
        BY <2>3, <4>1, <4>2, <4>3, <4>4
    <3> QED
      BY <3>1, <3>2 DEF HighBytesAreZero
  <2>8. wire' = [wire EXCEPT !.payload = q]
    BY <1>4, <1>6, <2>2
  <2> QED
    BY <1>5, <2>3, <2>7, <2>8 DEF Shaped
<1>7. ASSUME NEW byte,
             \/ wire' = [wire EXCEPT !.kind = byte] \/ wire' = [wire EXCEPT !.reserved = byte]
             \/ wire' = [wire EXCEPT !.length = byte] \/ wire' = [wire EXCEPT !.version = byte]
      PROVE  Shaped(wire')
  <2>1. wire'.payload = wire.payload /\ DOMAIN wire' = DOMAIN wire
    BY <1>5, <1>7
  <2>2. wire' = [f \in DOMAIN wire' |-> wire'[f]]
    BY <1>5, <1>7
  <2>3. HighBytesAreZero(wire'.payload)
    <3>1. PICK q : q = wire'.payload
      OBVIOUS
    <3>2. HighBytesAreZero(q)
      BY <1>3, <2>1, <3>1
    <3> QED
      BY <3>1, <3>2
  <2> QED
    BY <1>4, <1>5, <2>1, <2>2, <2>3 DEF Shaped
<1>8. ASSUME wire.payload # <<>>,
             wire' = [wire EXCEPT !.payload = SubSeq(@, 1, Len(@) - 1), !.length = @ - 1]
      PROVE  Shaped(wire')
  <2>1. PICK q : q = SubSeq(p, 1, Len(p) - 1)
    OBVIOUS
  <2>2. Len(p) \in Nat \ {0}
    BY <1>4, <1>8
  <2>3. q \in Seq(Octet) /\ Len(q) = Len(p) - 1 /\ \A j \in 1..Len(q) : q[j] = p[j]
    <3>1. PICK n \in Nat : n = Len(p) - 1
      BY <2>2
    <3>2. 1 \in Int /\ n \in Int /\ \A j \in 1..n : p[j] \in Octet
      BY <2>2, <3>1
    <3>3. /\ q \in Seq(Octet) /\ Len(q) = IF 1 <= n THEN n - 1 + 1 ELSE 0
          /\ \A j \in 1..n - 1 + 1 : q[j] = p[1 + j - 1]
      BY <2>1, <3>1, <3>2, SubSeqProperties
    <3>4. Len(q) = n
      <4>1. Len(q) = IF 1 <= n THEN n - 1 + 1 ELSE 0
        BY <3>3
      <4> QED
        BY <3>1, <4>1
    <3>5. ASSUME NEW j \in 1..n PROVE q[j] = p[j]
      <4>1. j \in 1..n - 1 + 1 /\ 1 + j - 1 = j
        BY <3>1
      <4> QED
        BY <3>3, <4>1
    <3> QED
      BY <3>1, <3>3, <3>4, <3>5
  <2>4. HighBytesAreZero(p)
    BY <1>3, <1>4
  <2>5. HighBytesAreZero(q)
    <3>1. ASSUME Len(q) >= 7 PROVE q[5] = 0 /\ q[6] = 0
      <4>1. p[5] = 0 /\ p[6] = 0 /\ 5 \in 1..Len(q) /\ 6 \in 1..Len(q)
        BY <2>2, <2>3, <2>4, <3>1 DEF HighBytesAreZero
      <4> QED
        BY <2>3, <4>1
    <3>2. ASSUME Len(q) >= 8 PROVE q[3] = 0 /\ q[4] = 0 /\ q[7] = 0 /\ q[8] = 0
      <4>1. p[3] = 0 /\ p[4] = 0 /\ p[7] = 0 /\ p[8] = 0
        BY <2>2, <2>3, <2>4, <3>2 DEF HighBytesAreZero
      <4>2. 3 \in 1..Len(q) /\ 4 \in 1..Len(q) /\ 7 \in 1..Len(q) /\ 8 \in 1..Len(q)
        BY <2>2, <2>3, <3>2
      <4> QED
        BY <2>3, <4>1, <4>2
    <3> QED
      BY <3>1, <3>2 DEF HighBytesAreZero
  <2>6. PICK n : n = wire.length - 1
    OBVIOUS
  <2>7. wire' = [[wire EXCEPT !.payload = q] EXCEPT !.length = n]
    BY <1>4, <1>8, <2>1, <2>6
  <2> QED
    BY <1>5, <2>3, <2>5, <2>7 DEF Shaped
<1>9. ASSUME wire' = [wire EXCEPT !.payload = Append(@, 0)]
      PROVE  Shaped(wire')
  <2>1. PICK q : q = Append(p, 0)
    OBVIOUS
  <2>2. q \in Seq(Octet) /\ Len(q) = Len(p) + 1
    <3>1. 0 \in Octet
      BY DEF Octet
    <3> QED
      BY <2>1, <3>1
  <2>3. wire' = [wire EXCEPT !.payload = q]
    BY <1>4, <1>9, <2>1
  <2>4. wire'.length # Len(wire'.payload)
    <3>1. wire'.length = Len(p) /\ wire'.payload = q /\ Len(p) \in Nat
      BY <1>3, <1>4, <1>5, <2>3
    <3> QED
      BY <2>2, <3>1
  <2> QED
    BY <1>5, <2>2, <2>3, <2>4 DEF Shaped
<1> QED
  BY <1>6, <1>7, <1>8, <1>9 DEF DamageFrame

\* Sending, damage on the way and decoding keep the invariant.
LEMMA WireStep ==
  ASSUME WireInvariant, [WireNext]_wireVars
  PROVE  WireInvariant'
<1>1. /\ received.done => sent # NotSent
      /\ sent = NotSent => wire = NoFrame
  BY DEF WireInvariant
<1>2. ASSUME sent # NotSent
      PROVE  \E kind \in DOMAIN KindOf : sent \in Message(kind) /\ Sendable(sent) /\ Shaped(wire)
  BY <1>2 DEF WireInvariant
<1>3. ASSUME NEW kind \in DOMAIN KindOf, NEW m \in Message(kind), Send(m), sent = NotSent
      PROVE  WireInvariant'
  <2>1. sent' = m /\ wire' = Encode(m) /\ received' = received /\ Sendable(m) /\ ~received.done
    BY <1>1, <1>3 DEF Send
  <2>2. Carries(m) /\ m.kind = kind
    BY <2>1, MessageCarried
  <2>3. Shaped(wire')
    BY <2>1, <2>2, EncodedFits
  <2>4. sent' # NotSent
    <3>1. m.kind # "none"
      BY <2>2, KindsNamed
    <3> QED
      BY <2>1, <3>1 DEF NotSent
  <2> QED
    BY <2>1, <2>3, <2>4 DEF WireInvariant, WireIsCanonical
<1>4. CASE DamageFrame
  <2>1. wire # NoFrame /\ received = Undecoded /\ sent' = sent /\ received' = received
    BY <1>4 DEF DamageFrame
  <2>2. sent # NotSent
    BY <1>1, <2>1
  <2>3. PICK kind \in DOMAIN KindOf : sent \in Message(kind) /\ Sendable(sent)
    BY <1>2, <2>2
  <2>4. Shaped(wire')
    BY <1>4, <2>3, DamagedShape
  <2>5. ~received'.done
    BY <2>1 DEF Undecoded
  <2> QED
    BY <2>1, <2>2, <2>3, <2>4, <2>5 DEF WireInvariant, WireIsCanonical
<1>5. CASE Receive
  <2>1. wire # NoFrame /\ sent' = sent /\ wire' = wire
    BY <1>5 DEF Receive
  <2>2. sent # NotSent
    BY <1>1, <2>1
  <2>3. PICK kind \in DOMAIN KindOf : sent \in Message(kind) /\ Sendable(sent) /\ Shaped(wire)
    BY <1>2, <2>2
  <2>4. WireIsCanonical'
    <3>1. CASE Decodes(wire)
      <4>1. received' = [done |-> TRUE, ok |-> TRUE, message |-> Decoded(wire)]
        BY <1>5, <3>1 DEF Receive
      <4>2. Encode(Decoded(wire)) = wire
        BY <2>3, <3>1, Canonical
      <4>3. wire = Encode(sent) => Decoded(wire) = sent
        BY <2>3, MessageCarried, EncodedFits
      <4>4. received'.ok = TRUE /\ received'.message = Decoded(wire)
        BY <4>1
      <4>5. Encode(received'.message) = wire'
        BY <2>1, <4>2, <4>4
      <4> QED
        BY <2>1, <4>3, <4>4, <4>5 DEF WireIsCanonical
    <3>2. CASE ~Decodes(wire)
      <4>1. received' = [done |-> TRUE, ok |-> FALSE]
        BY <1>5, <3>2 DEF Receive
      <4>2. wire # Encode(sent)
        BY <2>3, <3>2, MessageCarried, EncodedFits
      <4> QED
        BY <2>1, <4>1, <4>2 DEF WireIsCanonical
    <3> QED
      BY <3>1, <3>2
  <2> QED
    BY <2>1, <2>2, <2>3, <2>4 DEF WireInvariant
<1>6. CASE UNCHANGED wireVars
  BY <1>6 DEF WireInvariant, WireIsCanonical, wireVars
<1> QED
  BY <1>3, <1>4, <1>5, <1>6 DEF WireNext

----------------------------------------------------------------------------
\* ObjectFile: chunks, counted and measured.

\* The chunks of an object: how many there are, and which bytes are in which of them.
LEMMA ChunksCover ==
  ASSUME NEW length \in Nat, NEW size \in Nat \ {0}
  PROVE  /\ ChunkCount(length, size) \in Nat
         /\ length <= ChunkCount(length, size) * size
         /\ \A i \in Nat : i < ChunkCount(length, size) <=> i * size < length
<1>1. PICK a \in Nat : a = length + size - 1
  OBVIOUS
<1>2. PICK n \in Nat : n = a \div size /\ n * size <= a /\ a < n * size + size
  BY Quotients
<1>3. PICK x \in Nat : x = n * size
  BY <1>2
<1>4. length <= x /\ x <= length + size - 1
  BY <1>1, <1>2, <1>3
<1>5. ASSUME NEW i \in Nat, i < n PROVE i * size < length
  <2>1. PICK y \in Nat : y = i * size
    OBVIOUS
  <2>2. (i + 1) * size = i * size + size
    OBVIOUS
  <2>3. (i + 1) * size <= n * size
    <3>1. i + 1 \in Nat /\ i + 1 <= n
      BY <1>5
    <3> QED
      BY <3>1, Products
  <2>4. y + size <= x
    BY <1>3, <2>1, <2>2, <2>3
  <2> QED
    BY <1>4, <2>1, <2>4
<1>6. ASSUME NEW i \in Nat, i * size < length PROVE i < n
  <2>1. SUFFICES ASSUME n <= i PROVE FALSE
    OBVIOUS
  <2>2. n * size <= i * size
    BY <2>1, Products
  <2>3. PICK y \in Nat : y = i * size
    OBVIOUS
  <2> QED
    BY <1>3, <1>4, <1>6, <2>2, <2>3
<1>7. ChunkCount(length, size) = n
  BY <1>1, <1>2 DEF ChunkCount
<1> QED
  BY <1>2, <1>3, <1>4, <1>5, <1>6, <1>7

\* The length of a chunk, and where it ends in the source.
LEMMA ChunkMeasured ==
  ASSUME NEW length \in Nat, NEW size \in Nat \ {0}, NEW i \in Nat, i < ChunkCount(length, size),
         NEW k, k = ChunkLength(length, size, i)
  PROVE  /\ k \in 1..size /\ i * size + k <= length
         /\ i + 1 < ChunkCount(length, size) => k = size
         /\ i + 1 = ChunkCount(length, size) => i * size + k = length
<1>1. PICK x \in Nat : x = i * size /\ x < length
  BY ChunksCover
<1>2. k = IF length - x < size THEN length - x ELSE size
  BY <1>1 DEF ChunkLength, Lesser
<1>3. k \in 1..size /\ x + k <= length
  BY <1>1, <1>2
<1>4. PICK y \in Nat : y = (i + 1) * size /\ y = x + size
  <2>1. (i + 1) * size = i * size + size /\ (i + 1) * size \in Nat
    OBVIOUS
  <2> QED
    BY <1>1, <2>1
<1>5. i + 1 < ChunkCount(length, size) => y < length
  BY <1>4, ChunksCover
<1>6. i + 1 = ChunkCount(length, size) => length <= y
  BY <1>4, ChunksCover
<1>7. i + 1 < ChunkCount(length, size) => k = size
  BY <1>1, <1>2, <1>4, <1>5
<1>8. i + 1 = ChunkCount(length, size) => x + k = length
  BY <1>1, <1>2, <1>4, <1>6
<1> QED
  BY <1>1, <1>3, <1>7, <1>8

\* The chunk that a position is in, and the place in it.
IsPlace(position, i, within, length, size) ==
  /\ i \in Nat /\ i < ChunkCount(length, size) /\ position = i * size + within
  /\ within \in Nat /\ within < ChunkLength(length, size, i)

\* The chunk that read computes for a position is a chunk of the object, and holds the position.
LEMMA PositionInChunk ==
  ASSUME NEW length \in Nat, NEW size \in Nat \ {0}, NEW position \in Nat, position < length,
         NEW i, i = position \div size, NEW within, within = position % size
  PROVE  IsPlace(position, i, within, length, size)
<1>1. i \in Nat /\ i * size <= position /\ position < i * size + size
  BY Quotients
<1>2. PICK x \in Nat : x = i * size
  BY <1>1
<1>3. position = i * size + within /\ within \in Nat
  BY <1>1
<1>4. i < ChunkCount(length, size)
  <2>1. x < length
    BY <1>1, <1>2
  <2>2. i * size < length
    BY <1>2, <2>1
  <2> QED
    BY <1>1, <2>2, ChunksCover
<1>5. within < ChunkLength(length, size, i)
  <2>1. within < size /\ within < length - x
    BY <1>1, <1>2, <1>3
  <2>2. ChunkLength(length, size, i) = IF length - x < size THEN length - x ELSE size
    BY <1>2 DEF ChunkLength, Lesser
  <2> QED
    BY <1>2, <2>1, <2>2
<1> QED
  BY <1>1, <1>3, <1>4, <1>5 DEF IsPlace

\* Sequences one behind the other, as the library joins them.
Joins(f, c, n) ==
  /\ Ext!FlattenSeq(c) = f[n] /\ f[1] = c[1]
  /\ \A i \in 2..n : f[i] = f[i - 1] \o c[i]

\* The library's FlattenSeq joins the sequences from the first to the last.
LEMMA FlattenUnfolds ==
  ASSUME NEW n \in Nat \ {0}, NEW c, DOMAIN c = 1..n, Len(c) = n
  PROVE  \E f : Joins(f, c, n)
<1> DEFINE Unfolds(f, m) == f = [i \in 1..m |-> IF i = 1 THEN c[i] ELSE f[i - 1] \o c[i]]
           S == {m \in Nat : \E f : Unfolds(f, m)}
<1>1. 0 \in S
  <2>1. Unfolds(<<>>, 0)
    OBVIOUS
  <2> QED
    BY <2>1
<1>2. ASSUME NEW m \in S PROVE m + 1 \in S
  <2>1. PICK f : Unfolds(f, m)
    OBVIOUS
  <2> DEFINE g == [i \in 1..m + 1 |-> IF i <= m THEN f[i] ELSE IF i = 1 THEN c[i] ELSE f[i - 1] \o c[i]]
  <2>2. ASSUME NEW i \in 1..m + 1 PROVE g[i] = IF i = 1 THEN c[i] ELSE g[i - 1] \o c[i]
    <3>1. CASE i <= m
      <4>1. i \in 1..m
        BY <3>1
      <4>2. f[i] = IF i = 1 THEN c[i] ELSE f[i - 1] \o c[i]
        BY <2>1, <4>1
      <4>3. g[i] = f[i]
        BY <3>1
      <4>4. i # 1 => g[i - 1] = f[i - 1]
        BY <3>1
      <4> QED
        BY <4>2, <4>3, <4>4
    <3>2. CASE i > m
      <4>1. g[i] = IF i = 1 THEN c[i] ELSE f[i - 1] \o c[i]
        BY <3>2
      <4>2. i # 1 => g[i - 1] = f[i - 1]
        BY <3>2
      <4> QED
        BY <4>1, <4>2
    <3> QED
      BY <3>1, <3>2
  <2>3. Unfolds(g, m + 1)
    <3> HIDE DEF g
    <3>1. g = [i \in 1..m + 1 |-> g[i]]
      BY DEF g
    <3> QED
      BY <2>2, <3>1
  <2> HIDE DEF g, Unfolds
  <2>4. \E h : Unfolds(h, m + 1)
    BY <2>3
  <2>5. m + 1 \in Nat
    OBVIOUS
  <2> QED
    BY <2>4, <2>5
<1>3. S = Nat
  <2> HIDE DEF S
  <2>1. S \in SUBSET Nat
    BY DEF S
  <2> QED
    BY <1>1, <1>2, <2>1, NatSets
<1>4. \E f : Unfolds(f, n)
  BY <1>3
<1>5. PICK f : f = (CHOOSE g : Unfolds(g, n))
  OBVIOUS
<1>6. Unfolds(f, n)
  BY <1>4, <1>5
<1>7. Ext!FlattenSeq(c) = f[n]
  BY <1>5 DEF Ext!FlattenSeq
<1>8. f[1] = c[1]
  BY <1>6
<1>9. ASSUME NEW i \in 2..n PROVE f[i] = f[i - 1] \o c[i]
  <2>1. i \in 1..n /\ i # 1
    OBVIOUS
  <2>2. f[i] = IF i = 1 THEN c[i] ELSE f[i - 1] \o c[i]
    BY <1>6, <2>1
  <2> QED
    BY <2>1, <2>2
<1>10. Joins(f, c, n)
  BY <1>7, <1>8, <1>9 DEF Joins
<1> QED
  BY <1>10

----------------------------------------------------------------------------
\* What the writer makes of a source.

\* The plan of an object: its chunks, sealed one by one.
SealedChunks(o, length, size) ==
  [i \in 1..ChunkCount(length, size) |-> SealedChunk(o, length, size, i - 1)]

\* A chunk of a plan that the bounds allow, and its tag.
LEMMA ChunkMade ==
  ASSUME NEW o \in StoredObjects, NEW length \in 0..MaxLength, NEW size \in ChunkSizes,
         NEW i \in Nat, i < ChunkCount(length, size),
         NEW k, k = ChunkLength(length, size, i),
         NEW data, data = ChunkBytes(o, length, size, i),
         NEW chunk, chunk = SealedChunk(o, length, size, i)
  PROVE  /\ data \in Seq(Cell) /\ Len(data) = k
         /\ \A j \in 1..k : data[j] = Byte(o, i * size + j)
         /\ chunk \in Seq(Cell) /\ Len(chunk) = k + 1
         /\ \A j \in 1..k : chunk[j] = data[j]
         /\ chunk[k + 1] = Tag(o, SealedHeader(o, length, size), i, data)
<1>1. length \in Nat /\ length <= MaxLength /\ size \in Nat \ {0} /\ MaxLength \in Nat
  BY ObjectFileAssumption
<1>2. k \in Nat /\ k >= 1 /\ i * size + k <= length
  BY <1>1, ChunkMeasured
<1>3. PICK x \in Nat : x = i * size
  BY <1>1
<1>4. data = [j \in 1..k |-> Byte(o, x + j)]
  BY <1>3 DEF ChunkBytes
<1>5. \A j \in 1..k : Byte(o, x + j) \in Cell
  <2>1. SUFFICES ASSUME NEW j \in 1..k PROVE Byte(o, x + j) \in Cell
    OBVIOUS
  <2>2. x + j \in 1..MaxLength
    BY <1>1, <1>2, <1>3
  <2> QED
    BY <2>2 DEF Cell
<1>6. data \in Seq(Cell) /\ Len(data) = k /\ \A j \in 1..k : data[j] = Byte(o, x + j)
  BY <1>2, <1>4, <1>5
<1>7. PICK tag : tag = Tag(o, SealedHeader(o, length, size), i, data)
  OBVIOUS
<1>8. tag \in Cell
  <2>1. i \in 0..length
    <3>1. i <= x
      <4>1. size >= 1 /\ size \in Nat /\ 1 \in Nat
        BY <1>1
      <4>2. 1 * i <= size * i
        BY <4>1, Products
      <4>3. size * i = i * size
        BY <1>1
      <4> QED
        BY <1>3, <4>2, <4>3
    <3> QED
      BY <1>1, <1>2, <1>3, <3>1
  <2>2. tag \in Tags(o, length, size)
    BY <1>7, <2>1 DEF Tags
  <2> QED
    BY <2>2 DEF Cell
<1>9. chunk = Append(data, tag)
  BY <1>7 DEF SealedChunk
<1>10. /\ chunk \in Seq(Cell) /\ Len(chunk) = k + 1
       /\ \A j \in 1..k : chunk[j] = data[j]
       /\ chunk[k + 1] = tag
  BY <1>6, <1>8, <1>9
<1> QED
  BY <1>3, <1>6, <1>7, <1>10

\* A sequence that holds the first m chunks of an object, each at its place.
HoldsChunks(p, m, o, length, size) ==
  /\ p \in Seq(Cell)
  /\ Len(p) = (m - 1) * (size + 1) + ChunkLength(length, size, m - 1) + 1
  /\ \A i \in 0..m - 1 :
       /\ i * (size + 1) + ChunkLength(length, size, i) + 1 <= Len(p)
       /\ \A j \in 1..ChunkLength(length, size, i) + 1 :
            p[i * (size + 1) + j] = SealedChunk(o, length, size, i)[j]

\* The first chunk, and one more.
LEMMA FirstChunk ==
  ASSUME NEW o \in StoredObjects, NEW length \in 0..MaxLength, NEW size \in ChunkSizes,
         0 < ChunkCount(length, size)
  PROVE  HoldsChunks(SealedChunk(o, length, size, 0), 1, o, length, size)
<1>1. PICK p : p = SealedChunk(o, length, size, 0)
  OBVIOUS
<1>2. PICK k : k = ChunkLength(length, size, 0)
  OBVIOUS
<1>3. PICK d : d = ChunkBytes(o, length, size, 0)
  OBVIOUS
<1>4. length \in Nat /\ size \in Nat \ {0}
  BY ObjectFileAssumption
<1>5. k \in Nat
  BY <1>2, <1>4, ChunkMeasured
<1>6. p \in Seq(Cell) /\ Len(p) = k + 1
  <2>1. 0 \in Nat
    OBVIOUS
  <2> QED
    BY <1>1, <1>2, <1>3, <2>1, ChunkMade
<1>7. 0 * (size + 1) = 0 /\ 1 - 1 = 0
  BY <1>4
<1>8. \A i \in 0..0 : i = 0
  OBVIOUS
<1>9. Len(p) = (1 - 1) * (size + 1) + ChunkLength(length, size, 1 - 1) + 1
  BY <1>2, <1>5, <1>6, <1>7
<1>10. ASSUME NEW i \in 0..1 - 1
       PROVE  /\ i * (size + 1) + ChunkLength(length, size, i) + 1 <= Len(p)
              /\ \A j \in 1..ChunkLength(length, size, i) + 1 :
                   p[i * (size + 1) + j] = SealedChunk(o, length, size, i)[j]
  <2>1. i = 0
    OBVIOUS
  <2>2. i * (size + 1) + ChunkLength(length, size, i) + 1 <= Len(p)
    BY <1>2, <1>5, <1>6, <1>7, <2>1
  <2>3. ASSUME NEW j \in 1..k + 1 PROVE p[i * (size + 1) + j] = SealedChunk(o, length, size, i)[j]
    <3>1. i * (size + 1) + j = j
      BY <1>5, <1>7, <2>1
    <3> QED
      BY <1>1, <2>1, <3>1
  <2> QED
    BY <1>2, <2>1, <2>2, <2>3
<1> QED
  BY <1>1, <1>6, <1>9, <1>10 DEF HoldsChunks

\* A file that holds the first chunks, and the next chunk behind it.
LEMMA OneChunkMore ==
  ASSUME NEW o \in StoredObjects, NEW length \in 0..MaxLength, NEW size \in ChunkSizes,
         NEW m \in Nat \ {0}, m < ChunkCount(length, size),
         NEW p, HoldsChunks(p, m, o, length, size),
         NEW q, q = p \o SealedChunk(o, length, size, m)
  PROVE  HoldsChunks(q, m + 1, o, length, size)
<1>1. PICK c : c = SealedChunk(o, length, size, m)
  OBVIOUS
<1>2. PICK k : k = ChunkLength(length, size, m)
  OBVIOUS
<1>3. PICK d : d = ChunkBytes(o, length, size, m)
  OBVIOUS
<1>4. length \in Nat /\ size \in Nat \ {0} /\ m \in Nat
  BY ObjectFileAssumption
<1>5. k \in Nat
  BY <1>2, <1>4, ChunkMeasured
<1>6. c \in Seq(Cell) /\ Len(c) = k + 1
  BY <1>1, <1>2, <1>3, <1>4, ChunkMade
<1>7. PICK u \in Nat : u = size + 1
  BY <1>4
<1>8. PICK x \in Nat : x = m * u
  BY <1>4
<1>9. Len(p) = x
  <2>1. m - 1 \in Nat /\ m - 1 < ChunkCount(length, size) /\ (m - 1) + 1 < ChunkCount(length, size)
    <3>1. ChunkCount(length, size) \in Nat
      BY <1>4, ChunksCover
    <3> QED
      BY <3>1
  <2>2. ChunkLength(length, size, m - 1) = size
    BY <1>4, <2>1, ChunkMeasured
  <2>3. Len(p) = (m - 1) * u + size + 1
    BY <1>7, <2>2 DEF HoldsChunks
  <2>4. (m - 1) * u + u = m * u
    BY <1>4, <1>7
  <2>5. PICK y \in Nat : y = (m - 1) * u
    BY <2>1
  <2> QED
    BY <1>4, <1>7, <1>8, <2>3, <2>4, <2>5
<1>10. Follow(Cell, q, p, c)
  BY <1>1, <1>6, Joined DEF HoldsChunks
<1>11. /\ q \in Seq(Cell) /\ Len(q) = x + k + 1
       /\ \A j \in 1..x : q[j] = p[j]
       /\ \A j \in 1..k + 1 : q[x + j] = c[j]
  BY <1>5, <1>6, <1>9, <1>10 DEF Follow
<1>12. Len(q) = ((m + 1) - 1) * (size + 1) + ChunkLength(length, size, (m + 1) - 1) + 1
  <2>1. (m + 1) - 1 = m
    OBVIOUS
  <2> QED
    BY <1>2, <1>7, <1>8, <1>11, <2>1
<1>13. ASSUME NEW i \in 0..(m + 1) - 1
       PROVE  /\ i * (size + 1) + ChunkLength(length, size, i) + 1 <= Len(q)
              /\ \A j \in 1..ChunkLength(length, size, i) + 1 :
                   q[i * (size + 1) + j] = SealedChunk(o, length, size, i)[j]
  <2>1. CASE i = m
    <3>1. i * (size + 1) = x
      BY <1>7, <1>8, <2>1
    <3>2. ChunkLength(length, size, i) = k /\ SealedChunk(o, length, size, i) = c
      BY <1>1, <1>2, <2>1
    <3>3. x + k + 1 <= Len(q) /\ \A j \in 1..k + 1 : q[x + j] = c[j]
      BY <1>5, <1>11
    <3> QED
      BY <3>1, <3>2, <3>3
  <2>2. CASE i # m
    <3>1. i \in 0..m - 1 /\ i \in Nat
      BY <2>2
    <3>2. PICK l : l = ChunkLength(length, size, i)
      OBVIOUS
    <3>3. l \in Nat
      <4>1. i < ChunkCount(length, size)
        <5>1. ChunkCount(length, size) \in Nat
          BY <1>4, ChunksCover
        <5> QED
          BY <3>1, <5>1
      <4> QED
        BY <1>4, <3>1, <3>2, <4>1, ChunkMeasured
    <3>4. PICK y \in Nat : y = i * u
      BY <3>1
    <3>5. /\ y + l + 1 <= x
          /\ \A j \in 1..l + 1 : p[y + j] = SealedChunk(o, length, size, i)[j]
      BY <1>7, <1>9, <3>1, <3>2, <3>4 DEF HoldsChunks
    <3>6. ASSUME NEW j \in 1..l + 1 PROVE q[y + j] = SealedChunk(o, length, size, i)[j]
      <4>1. y + j \in 1..x
        BY <3>3, <3>5
      <4> QED
        BY <1>11, <3>5, <4>1
    <3>7. y + l + 1 <= Len(q)
      BY <1>5, <1>11, <3>3, <3>5
    <3> QED
      BY <1>7, <3>2, <3>4, <3>6, <3>7
  <2> QED
    BY <2>1, <2>2
<1> QED
  BY <1>11, <1>12, <1>13 DEF HoldsChunks

\* The chunks of an object, joined.
LEMMA ChunksJoined ==
  ASSUME NEW o \in StoredObjects, NEW length \in 0..MaxLength, NEW size \in ChunkSizes,
         NEW n, n = ChunkCount(length, size), n # 0,
         NEW p, p = Ext!FlattenSeq([i \in 1..n |-> SealedChunk(o, length, size, i - 1)])
  PROVE  HoldsChunks(p, n, o, length, size) /\ Len(p) = length + n
<1>1. length \in Nat /\ size \in Nat \ {0} /\ n \in Nat \ {0}
  BY ObjectFileAssumption, ChunksCover
<1>2. PICK c : c = [i \in 1..n |-> SealedChunk(o, length, size, i - 1)]
  OBVIOUS
<1>3. DOMAIN c = 1..n /\ Len(c) = n /\ \A i \in 1..n : c[i] = SealedChunk(o, length, size, i - 1)
  BY <1>1, <1>2
<1>4. PICK f : /\ p = f[n] /\ f[1] = c[1]
               /\ \A i \in 2..n : f[i] = f[i - 1] \o c[i]
  <2>1. PICK f : Joins(f, c, n)
    BY <1>1, <1>3, FlattenUnfolds
  <2>2. p = Ext!FlattenSeq(c)
    BY <1>2
  <2> QED
    BY <2>1, <2>2 DEF Joins
<1>5. f[1] = SealedChunk(o, length, size, 0)
  <2>1. 1 \in 1..n /\ 1 - 1 = 0
    BY <1>1
  <2> QED
    BY <1>3, <1>4, <2>1
<1>6. ASSUME NEW m \in 1..n - 1 PROVE f[m + 1] = f[m] \o SealedChunk(o, length, size, m)
  <2>1. m + 1 \in 2..n /\ m + 1 \in 1..n /\ (m + 1) - 1 = m
    BY <1>1
  <2>2. f[m + 1] = f[(m + 1) - 1] \o c[m + 1]
    BY <1>4, <2>1
  <2>3. c[m + 1] = SealedChunk(o, length, size, (m + 1) - 1)
    BY <1>3, <2>1
  <2> QED
    BY <2>1, <2>2, <2>3
<1> DEFINE S == {m \in Nat : m \in 1..n => HoldsChunks(f[m], m, o, length, size)}
<1>7. 0 \in S
  OBVIOUS
<1>8. ASSUME NEW m \in S PROVE m + 1 \in S
  <2>1. m \in Nat /\ (m \in 1..n => HoldsChunks(f[m], m, o, length, size))
    OBVIOUS
  <2>2. SUFFICES ASSUME m + 1 \in 1..n PROVE HoldsChunks(f[m + 1], m + 1, o, length, size)
    BY <2>1
  <2>3. CASE m = 0
    <3>1. m + 1 = 1 /\ 0 < ChunkCount(length, size)
      BY <1>1, <2>3
    <3> QED
      BY <1>5, <3>1, FirstChunk
  <2>4. CASE m # 0
    <3>1. m \in Nat \ {0} /\ m \in 1..n /\ m \in 1..n - 1 /\ m < ChunkCount(length, size)
      BY <1>1, <2>1, <2>2, <2>4
    <3>2. HoldsChunks(f[m], m, o, length, size)
      BY <2>1, <3>1
    <3>3. f[m + 1] = f[m] \o SealedChunk(o, length, size, m)
      BY <1>6, <3>1
    <3> QED
      BY <3>1, <3>2, <3>3, OneChunkMore
  <2> QED
    BY <2>3, <2>4
<1>9. S = Nat
  <2> HIDE DEF S
  <2>1. S \in SUBSET Nat
    BY DEF S
  <2> QED
    BY <1>7, <1>8, <2>1, NatSets
<1>10. HoldsChunks(p, n, o, length, size)
  <2>1. n \in S /\ n \in 1..n
    BY <1>1, <1>9
  <2> QED
    BY <1>4, <2>1
<1>11. Len(p) = length + n
  <2>1. PICK k : k = ChunkLength(length, size, n - 1)
    OBVIOUS
  <2>2. n - 1 \in Nat /\ n - 1 < n /\ (n - 1) + 1 = n
    BY <1>1
  <2>3. k \in Nat /\ (n - 1) * size + k = length
    BY <1>1, <2>1, <2>2, ChunkMeasured
  <2>4. Len(p) = (n - 1) * (size + 1) + k + 1
    BY <1>10, <2>1 DEF HoldsChunks
  <2>5. (n - 1) * (size + 1) = (n - 1) * size + (n - 1)
    BY <1>1, <2>2
  <2>6. PICK x \in Nat : x = (n - 1) * size
    BY <1>1, <2>2
  <2>7. PICK y \in Nat : y = n - 1 /\ n = y + 1
    BY <1>1
  <2>8. Len(p) = (x + y) + k + 1 /\ x + k = length
    BY <2>3, <2>4, <2>5, <2>6, <2>7
  <2>9. k \in Nat /\ x \in Nat
    BY <2>3, <2>6
  <2>10. (x + y) + k + 1 = (x + k) + (y + 1)
    BY <2>7, <2>9
  <2> QED
    BY <2>7, <2>8, <2>10
<1> QED
  BY <1>10, <1>11

\* The whole file of an object: its length, its preamble and header, and where each cell of
\* a chunk stands in it.
LEMMA EncryptedHolds ==
  ASSUME NEW o \in StoredObjects, NEW length \in 0..MaxLength, NEW size \in ChunkSizes,
         NEW file, file = Encrypted(o, length, size)
  PROVE  /\ FileHolds(file) /\ Len(file) = PhysicalLength(length, size) /\ Len(file) >= 2
         /\ file[1] = Preamble(o) /\ file[2] = SealedHeader(o, length, size)
         /\ \A i \in Nat : i < ChunkCount(length, size) =>
              /\ ChunkOffset(size, i) + ChunkLength(length, size, i) + 1 <= Len(file)
              /\ \A j \in 1..ChunkLength(length, size, i) + 1 :
                   file[ChunkOffset(size, i) + j] = SealedChunk(o, length, size, i)[j]
<1>1. length \in Nat /\ size \in Nat \ {0}
  BY ObjectFileAssumption
<1>2. PICK n \in Nat : n = ChunkCount(length, size)
  BY <1>1, ChunksCover
<1>3. PICK h : h = <<Preamble(o), SealedHeader(o, length, size)>>
  OBVIOUS
<1>4. PICK p : p = Ext!FlattenSeq([i \in 1..n |-> SealedChunk(o, length, size, i - 1)])
  OBVIOUS
<1>5. file = h \o p
  BY <1>2, <1>3, <1>4 DEF Encrypted
<1>6. /\ h \in Seq(Cell) /\ Len(h) = 2
      /\ h[1] = Preamble(o) /\ h[2] = SealedHeader(o, length, size)
  <2>1. Preamble(o) \in Cell /\ SealedHeader(o, length, size) \in Cell
    BY DEF Cell, Headers
  <2> QED
    BY <1>3, <2>1
<1>7. p \in Seq(Cell) /\ Len(p) = length + n
  <2>1. CASE n # 0
    BY <1>2, <1>4, <2>1, ChunksJoined DEF HoldsChunks
  <2>2. CASE n = 0
    <3>1. length <= 0 * size /\ 0 * size = 0
      <4>1. length <= n * size
        BY <1>1, <1>2, ChunksCover
      <4> QED
        BY <1>1, <2>2, <4>1
    <3>2. length = 0
      BY <1>1, <3>1
    <3>3. p = <<>>
      <4>1. PICK c : c = [i \in 1..n |-> SealedChunk(o, length, size, i - 1)]
        OBVIOUS
      <4>2. 1..n = {}
        BY <2>2
      <4>3. c = <<>> /\ Len(c) = 0
        BY <4>1, <4>2
      <4> QED
        BY <1>4, <4>1, <4>3 DEF Ext!FlattenSeq
    <3> QED
      BY <2>2, <3>2, <3>3
  <2> QED
    BY <2>1, <2>2
<1>8. Follow(Cell, file, h, p)
  BY <1>5, <1>6, <1>7, Joined
<1>9. /\ file \in Seq(Cell) /\ Len(file) = 2 + length + n
      /\ \A j \in 1..2 : file[j] = h[j]
      /\ \A j \in 1..length + n : file[2 + j] = p[j]
  BY <1>1, <1>6, <1>7, <1>8 DEF Follow
<1>10. file[1] = Preamble(o) /\ file[2] = SealedHeader(o, length, size)
  <2>1. 1 \in 1..2 /\ 2 \in 1..2
    OBVIOUS
  <2> QED
    BY <1>6, <1>9, <2>1
<1>11. FileHolds(file)
  BY <1>9, <1>10 DEF FileHolds, HeaderCells, Headers
<1>12. Len(file) = PhysicalLength(length, size) /\ Len(file) >= 2
  BY <1>1, <1>2, <1>9 DEF PhysicalLength, HeaderCells, TagCells
<1>13. ASSUME NEW i \in Nat, i < n
       PROVE  /\ ChunkOffset(size, i) + ChunkLength(length, size, i) + 1 <= Len(file)
              /\ \A j \in 1..ChunkLength(length, size, i) + 1 :
                   file[ChunkOffset(size, i) + j] = SealedChunk(o, length, size, i)[j]
  <2>1. PICK k \in Nat : k = ChunkLength(length, size, i)
    BY <1>1, <1>2, <1>13, ChunkMeasured
  <2>2. PICK x \in Nat : x = i * (size + 1)
    BY <1>1
  <2>3. ChunkOffset(size, i) = x + 2
    BY <2>2 DEF ChunkOffset, TagCells, HeaderCells
  <2>4. HoldsChunks(p, n, o, length, size)
    BY <1>2, <1>4, <1>13, ChunksJoined
  <2>5. i \in 0..n - 1
    BY <1>13
  <2>6. /\ x + k + 1 <= length + n
        /\ \A j \in 1..k + 1 : p[x + j] = SealedChunk(o, length, size, i)[j]
    BY <1>7, <2>1, <2>2, <2>4, <2>5 DEF HoldsChunks
  <2>7. ASSUME NEW j \in 1..k + 1 PROVE file[x + 2 + j] = SealedChunk(o, length, size, i)[j]
    <3>1. x + j \in 1..length + n /\ x + 2 + j = 2 + (x + j)
      BY <1>1, <2>6
    <3> QED
      BY <1>9, <2>6, <3>1
  <2>8. x + 2 + k + 1 <= Len(file)
    BY <1>1, <1>9, <2>6
  <2> QED
    BY <2>1, <2>3, <2>7, <2>8
<1> QED
  BY <1>2, <1>10, <1>11, <1>12, <1>13

----------------------------------------------------------------------------
\* What the reader makes of a file.

\* A tag that is in a file was made by the writer, of the bytes that it speaks of.
LEMMA TagsTell ==
  ASSUME NEW c \in Cell, NEW o, NEW length, NEW size, NEW i, NEW d,
         c = Tag(o, SealedHeader(o, length, size), i, d)
  PROVE  d = ChunkBytes(o, length, size, i)
<1>1. /\ "key" \in DOMAIN c /\ c.key = o /\ c.header = SealedHeader(o, length, size)
      /\ c.index = i /\ c.bytes = d
  BY DEF Tag
<1>2. c \in UNION {Tags(q, l, s) : q \in StoredObjects, l \in 0..MaxLength, s \in ChunkSizes}
  <2>1. c # Rubbish
    BY <1>1 DEF Rubbish
  <2>2. c \notin {Preamble(q) : q \in StoredObjects}
    BY <1>1 DEF Preamble
  <2>3. c \notin Headers
    <3>1. SUFFICES ASSUME c \in Headers PROVE FALSE
      OBVIOUS
    <3>2. PICK q \in StoredObjects, l \in 0..MaxLength, s \in ChunkSizes : c = SealedHeader(q, l, s)
      BY <3>1 DEF Headers
    <3>3. DOMAIN c = {"header", "length", "size"}
      BY <3>2 DEF SealedHeader
    <3> QED
      BY <1>1, <3>3
  <2>4. c \notin {Byte(q, at) : q \in StoredObjects, at \in 1..MaxLength}
    BY <1>1 DEF Byte
  <2> QED
    BY <2>1, <2>2, <2>3, <2>4 DEF Cell
<1>3. PICK q \in StoredObjects, l \in 0..MaxLength, s \in ChunkSizes : c \in Tags(q, l, s)
  BY <1>2
<1>4. PICK x \in 0..l : c = Tag(q, SealedHeader(q, l, s), x, ChunkBytes(q, l, s, x))
  BY <1>3 DEF Tags
<1>5. /\ c.key = q /\ c.header = SealedHeader(q, l, s) /\ c.index = x
      /\ c.bytes = ChunkBytes(q, l, s, x)
  BY <1>4 DEF Tag
<1>6. q = o /\ x = i /\ SealedHeader(q, l, s) = SealedHeader(o, length, size)
  BY <1>1, <1>5
<1>7. l = length /\ s = size
  BY <1>6 DEF SealedHeader
<1> QED
  BY <1>1, <1>5, <1>6, <1>7

\* A chunk that loads is the one that was asked for.
LEMMA LoadsTell ==
  ASSUME NEW o \in StoredObjects, NEW length \in 0..MaxLength, NEW size \in ChunkSizes,
         ReaderHolds(reader, o, length, size), FileHolds(files[o]),
         NEW i \in Nat, i < ChunkCount(length, size), Loads(i)
  PROVE  Loaded(i) = ChunkBytes(o, length, size, i)
<1>1. length \in Nat /\ size \in Nat \ {0}
  BY ObjectFileAssumption
<1>2. reader.object = o /\ reader.header = SealedHeader(o, length, size)
  BY DEF ReaderHolds
<1>3. reader.header.length = length /\ reader.header.size = size
  BY <1>2 DEF SealedHeader
<1>4. PICK k \in Nat : k = ChunkLength(length, size, i)
  BY <1>1, ChunkMeasured
<1>5. PICK first \in Nat : first = ChunkOffset(size, i)
  BY <1>1 DEF ChunkOffset, TagCells, HeaderCells
<1>6. PICK file : file = files[o]
  OBVIOUS
<1>7. /\ first + k + 1 <= Len(file)
      /\ file[first + k + 1] =
           Tag(o, SealedHeader(o, length, size), i, SubSeq(file, first + 1, first + k))
  BY <1>2, <1>3, <1>4, <1>5, <1>6 DEF Loads, TagCells
<1>8. file[first + k + 1] \in Cell
  <2>1. file \in Seq(Cell)
    BY <1>6 DEF FileHolds
  <2>2. first + k + 1 \in 1..Len(file)
    BY <1>7, <2>1
  <2> QED
    BY <2>1, <2>2
<1>9. SubSeq(file, first + 1, first + k) = ChunkBytes(o, length, size, i)
  <2>1. PICK d : d = SubSeq(file, first + 1, first + k)
    OBVIOUS
  <2>2. PICK c \in Cell : c = file[first + k + 1]
    BY <1>8
  <2>3. c = Tag(o, SealedHeader(o, length, size), i, d)
    BY <1>7, <2>1, <2>2
  <2>4. d = ChunkBytes(o, length, size, i)
    BY <2>3, TagsTell
  <2> QED
    BY <2>1, <2>4
<1>10. Loaded(i) = SubSeq(file, first + 1, first + k)
  BY <1>2, <1>3, <1>4, <1>5, <1>6 DEF Loaded
<1> QED
  BY <1>9, <1>10

\* In a file that nothing has damaged, every chunk loads.
LEMMA IntactLoads ==
  ASSUME NEW o \in StoredObjects, NEW length \in 0..MaxLength, NEW size \in ChunkSizes,
         ReaderHolds(reader, o, length, size), files[o] = Encrypted(o, length, size),
         NEW i \in Nat, i < ChunkCount(length, size)
  PROVE  Loads(i)
<1>1. length \in Nat /\ size \in Nat \ {0}
  BY ObjectFileAssumption
<1>2. reader.object = o /\ reader.header = SealedHeader(o, length, size)
  BY DEF ReaderHolds
<1>3. reader.header.length = length /\ reader.header.size = size
  BY <1>2 DEF SealedHeader
<1>4. PICK k \in Nat : k = ChunkLength(length, size, i)
  BY <1>1, ChunkMeasured
<1>5. PICK first \in Nat : first = ChunkOffset(size, i)
  BY <1>1 DEF ChunkOffset, TagCells, HeaderCells
<1>6. PICK file : file = files[o]
  OBVIOUS
<1>7. PICK c : c = SealedChunk(o, length, size, i)
  OBVIOUS
<1>8. PICK d : d = ChunkBytes(o, length, size, i)
  OBVIOUS
<1>9. /\ file \in Seq(Cell) /\ first + k + 1 <= Len(file)
      /\ \A j \in 1..k + 1 : file[first + j] = c[j]
  BY <1>4, <1>5, <1>6, <1>7, EncryptedHolds DEF FileHolds
<1>10. /\ d \in Seq(Cell) /\ Len(d) = k /\ \A j \in 1..k : c[j] = d[j]
       /\ c[k + 1] = Tag(o, SealedHeader(o, length, size), i, d)
  BY <1>4, <1>7, <1>8, ChunkMade
<1>11. PICK s : s = SubSeq(file, first + 1, first + k)
  OBVIOUS
<1>12. s = d
  <2>1. \A j \in first + 1..first + k : file[j] \in Cell
    BY <1>9
  <2>2. first + 1 \in Int /\ first + k \in Int
    BY <1>4, <1>5
  <2>3. /\ s \in Seq(Cell)
        /\ Len(s) = IF first + 1 <= first + k THEN first + k - (first + 1) + 1 ELSE 0
        /\ \A j \in 1..first + k - (first + 1) + 1 : s[j] = file[first + 1 + j - 1]
    BY <1>11, <2>1, <2>2, SubSeqProperties
  <2>4. Len(s) = k
    <3>1. Len(s) = IF first + 1 <= first + k THEN first + k - (first + 1) + 1 ELSE 0
      BY <2>3
    <3> QED
      BY <1>4, <1>5, <3>1
  <2>5. ASSUME NEW j \in 1..k PROVE s[j] = d[j]
    <3>1. /\ j \in 1..first + k - (first + 1) + 1 /\ first + 1 + j - 1 = first + j
          /\ j \in 1..k + 1
      BY <1>4, <1>5
    <3>2. s[j] = file[first + j] /\ file[first + j] = c[j]
      BY <1>9, <2>3, <3>1
    <3> QED
      BY <1>10, <3>2
  <2> QED
    BY <1>10, <2>3, <2>4, <2>5, SeqEqual
<1>13. file[first + k + 1] = Tag(o, SealedHeader(o, length, size), i, d)
  <2>1. k + 1 \in 1..k + 1 /\ first + (k + 1) = first + k + 1
    BY <1>4, <1>5
  <2> QED
    BY <1>9, <1>10, <2>1
<1> QED
  BY <1>2, <1>3, <1>4, <1>5, <1>6, <1>9, <1>11, <1>12, <1>13 DEF Loads, TagCells

\* A reader whose cache is emptied.
LEMMA Emptied ==
  ASSUME NEW r, NEW o, NEW h,
         r = [open |-> TRUE, object |-> o, header |-> h,
              position |-> r.position, cached |-> r.cached, cache |-> r.cache]
  PROVE  [r EXCEPT !.cached = NotCached, !.cache = <<>>] =
           [open |-> TRUE, object |-> o, header |-> h,
            position |-> r.position, cached |-> NotCached, cache |-> <<>>]
<1>1. PICK p, x, y : p = r.position /\ x = r.cached /\ y = r.cache
  OBVIOUS
<1>2. r = [open |-> TRUE, object |-> o, header |-> h, position |-> p, cached |-> x, cache |-> y]
  BY <1>1
<1>3. PICK q : q = [r EXCEPT !.cached = NotCached]
  OBVIOUS
<1>4. q = [open |-> TRUE, object |-> o, header |-> h, position |-> p, cached |-> NotCached, cache |-> y]
  BY <1>2, <1>3
<1>5. PICK e : e = <<>>
  OBVIOUS
<1>6. PICK z : z = [q EXCEPT !.cache = e]
  OBVIOUS
<1>7. z = [open |-> TRUE, object |-> o, header |-> h, position |-> p, cached |-> NotCached, cache |-> e]
  BY <1>4, <1>6
<1>8. z = [r EXCEPT !.cached = NotCached, !.cache = <<>>]
  BY <1>3, <1>5, <1>6
<1> QED
  BY <1>1, <1>5, <1>7, <1>8

\* The reader after it has looked for a chunk.
LEMMA AfterLoading ==
  ASSUME NEW o \in StoredObjects, NEW length \in 0..MaxLength, NEW size \in ChunkSizes,
         ReaderHolds(reader, o, length, size), FileHolds(files[o]),
         NEW i \in Nat, i < ChunkCount(length, size), NEW after, after = AfterLoad(i)
  PROVE  /\ ReaderHolds(after, o, length, size) /\ after.position = reader.position
         /\ after.cached = i => after.cache = ChunkBytes(o, length, size, i)
         /\ files[o] = Encrypted(o, length, size) => after.cached = i
<1>1. reader = [open |-> TRUE, object |-> o, header |-> SealedHeader(o, length, size),
                position |-> reader.position, cached |-> reader.cached, cache |-> reader.cache]
  BY DEF ReaderHolds
<1>2. /\ reader.position \in 0..length /\ reader.cached \in NotCached..ChunkCount(length, size) - 1
      /\ reader.cached # NotCached => reader.cache = ChunkBytes(o, length, size, reader.cached)
  BY DEF ReaderHolds
<1>3. PICK n \in Nat : n = ChunkCount(length, size)
  BY ObjectFileAssumption, ChunksCover
<1>4. i # NotCached /\ i \in NotCached..n - 1 /\ NotCached \in NotCached..n - 1
  BY <1>3 DEF NotCached
<1>5. CASE reader.cached = i
  <2>1. after = reader
    BY <1>5 DEF AfterLoad, Cached
  <2> QED
    BY <1>2, <1>4, <1>5, <2>1
<1>6. CASE reader.cached # i /\ Loads(i)
  <2>1. after = [reader EXCEPT !.cached = i, !.cache = Loaded(i)]
    BY <1>6 DEF AfterLoad, Cached
  <2>2. Loaded(i) = ChunkBytes(o, length, size, i)
    BY <1>6, LoadsTell
  <2>3. after = [open |-> TRUE, object |-> o, header |-> SealedHeader(o, length, size),
                 position |-> reader.position, cached |-> i,
                 cache |-> ChunkBytes(o, length, size, i)]
    <3>1. PICK h, p, x, y : h = SealedHeader(o, length, size) /\ p = reader.position
                            /\ x = reader.cached /\ y = reader.cache
      OBVIOUS
    <3>2. reader = [open |-> TRUE, object |-> o, header |-> h, position |-> p, cached |-> x, cache |-> y]
      BY <1>1, <3>1
    <3>3. PICK d : d = ChunkBytes(o, length, size, i)
      OBVIOUS
    <3>4. after = [open |-> TRUE, object |-> o, header |-> h, position |-> p, cached |-> i, cache |-> d]
      BY <2>1, <2>2, <3>2, <3>3
    <3> QED
      BY <3>1, <3>3, <3>4
  <2> QED
    BY <1>2, <1>3, <1>4, <2>3 DEF ReaderHolds
<1>7. CASE reader.cached # i /\ ~Loads(i)
  <2>1. after = [reader EXCEPT !.cached = NotCached, !.cache = <<>>]
    BY <1>7 DEF AfterLoad, Cached, DropCached
  <2>2. after = [open |-> TRUE, object |-> o, header |-> SealedHeader(o, length, size),
                 position |-> reader.position, cached |-> NotCached, cache |-> <<>>]
    BY <1>1, <2>1, Emptied
  <2>3. files[o] # Encrypted(o, length, size)
    BY <1>7, IntactLoads
  <2> QED
    BY <1>2, <1>3, <1>4, <2>2, <2>3 DEF ReaderHolds
<1> QED
  BY <1>5, <1>6, <1>7

----------------------------------------------------------------------------
\* Steps of the writer, the reader and whatever damages the files.

\* There is no file and no reader at first.
LEMMA ObjectBegins == ObjectInit => ObjectInvariant
<1> SUFFICES ASSUME ObjectInit PROVE ObjectInvariant
  OBVIOUS
<1>1. reader.open = FALSE /\ answer.call = "none"
  BY DEF ObjectInit, NoReader, NoAnswer
<1>2. ReleasesOnlyTheSource /\ IntactReadsBack
  BY <1>1 DEF ReleasesOnlyTheSource, IntactReadsBack
<1>3. FileHolds(<<>>)
  BY DEF FileHolds, HeaderCells
<1>4. \A o \in StoredObjects : files[o] = <<>> /\ FileHolds(files[o])
  BY <1>3 DEF ObjectInit
<1>5. DOMAIN files = StoredObjects /\ given \in [StoredObjects -> 0..MaxLength] /\ damages \in 0..MaxDamage
  BY ObjectFileAssumption DEF ObjectInit
<1> QED
  BY <1>2, <1>4, <1>5 DEF ObjectInvariant, ObjectInit

\* The fields of an open reader.
LEMMA ReaderTells ==
  ASSUME NEW r, NEW o, NEW length, NEW size, ReaderHolds(r, o, length, size)
  PROVE  /\ r.open /\ r.object = o /\ r.header = SealedHeader(o, length, size)
         /\ r.header.length = length /\ r.header.size = size
<1>1. r.open /\ r.object = o /\ r.header = SealedHeader(o, length, size)
  BY DEF ReaderHolds
<1> QED
  BY <1>1 DEF SealedHeader

\* What is said of the reader, whether there is one or not.
ReaderIsGood ==
  reader = NoReader \/
    \E o \in StoredObjects, length \in 0..MaxLength, size \in ChunkSizes :
      ReaderHolds(reader, o, length, size) /\ (damages = 0 => IsIntact(o, length, size))

\* What is said of the files.
FilesAreGood ==
  /\ DOMAIN files = StoredObjects /\ \A o \in StoredObjects : FileHolds(files[o])
  /\ given \in [StoredObjects -> 0..MaxLength] /\ damages \in 0..MaxDamage
  /\ damages = 0 => \A o \in StoredObjects :
       files[o] = <<>> \/ \E size \in ChunkSizes : IsIntact(o, given[o], size)

\* The invariant, in its parts.
LEMMA ObjectInTwo ==
  ObjectInvariant <=> ReleasesOnlyTheSource /\ IntactReadsBack /\ FilesAreGood /\ ReaderIsGood
BY DEF ObjectInvariant, FilesAreGood, ReaderIsGood

\* A reader over a file that nothing has damaged has the length of its source.
LEMMA LengthAgrees ==
  ASSUME ReaderIsGood, damages = 0, reader.open
  PROVE  reader.header.length = given[reader.object]
<1>1. reader # NoReader
  BY DEF NoReader
<1>2. PICK o \in StoredObjects, length \in 0..MaxLength, size \in ChunkSizes :
        ReaderHolds(reader, o, length, size) /\ IsIntact(o, length, size)
  BY <1>1 DEF ReaderIsGood
<1>3. reader.object = o /\ reader.header.length = length
  BY <1>2, ReaderTells
<1> QED
  BY <1>2, <1>3 DEF IsIntact

\* Writing an object: the reader, if there is one, reads another file or a damaged one.
LEMMA WriteKeeps ==
  ASSUME ObjectInvariant, NEW o \in StoredObjects, NEW length \in 0..MaxLength,
         NEW planned \in 0..MaxLength, NEW size \in ChunkSizes,
         WriteObject(o, length, planned, size)
  PROVE  ObjectInvariant'
<1>1. /\ FilesAreGood /\ ReaderIsGood /\ files[o] = <<>>
      /\ reader' = reader /\ damages' = damages
  BY ObjectInTwo DEF WriteObject
<1>2. CASE ~SourceFits(length, planned)
  <2>1. files' = files /\ given' = given /\ answer' = [call |-> "write", ok |-> FALSE]
    BY <1>2 DEF WriteObject
  <2>2. answer'.call = "write"
    BY <2>1
  <2>3. FilesAreGood' /\ ReaderIsGood'
    BY <1>1, <2>1 DEF FilesAreGood, ReaderIsGood, IsIntact
  <2>4. ReleasesOnlyTheSource' /\ IntactReadsBack'
    BY <1>1, <2>1, <2>2, LengthAgrees DEF ReleasesOnlyTheSource, IntactReadsBack
  <2> QED
    BY <2>3, <2>4 DEF ObjectInvariant, FilesAreGood, ReaderIsGood
<1>3. CASE SourceFits(length, planned)
  <2>1. PICK file : file = Encrypted(o, length, size)
    OBVIOUS
  <2>2. /\ files' = [files EXCEPT ![o] = file] /\ given' = [given EXCEPT ![o] = length]
        /\ answer' = NoAnswer
    BY <1>3, <2>1 DEF WriteObject, SourceFits
  <2>3. FileHolds(file) /\ file # <<>>
    <3>1. FileHolds(file) /\ Len(file) >= 2
      BY <2>1, EncryptedHolds
    <3>2. Len(<<>>) = 0
      OBVIOUS
    <3> QED
      BY <3>1, <3>2
  <2>4. /\ DOMAIN files' = StoredObjects /\ files'[o] = file /\ given'[o] = length
        /\ \A q \in StoredObjects \ {o} : files'[q] = files[q] /\ given'[q] = given[q]
        /\ given' \in [StoredObjects -> 0..MaxLength]
    BY <1>1, <2>2 DEF FilesAreGood
  <2>5. FilesAreGood'
    <3>1. \A q \in StoredObjects : FileHolds(files'[q])
      BY <1>1, <2>3, <2>4 DEF FilesAreGood
    <3>2. damages' \in 0..MaxDamage
      BY <1>1 DEF FilesAreGood
    <3>3. ASSUME damages' = 0, NEW q \in StoredObjects
          PROVE  files'[q] = <<>> \/ \E s \in ChunkSizes : given'[q] = given'[q]
                                       /\ files'[q] = Encrypted(q, given'[q], s)
      <4>1. CASE q = o
        BY <2>1, <2>4, <4>1
      <4>2. CASE q # o
        BY <1>1, <2>4, <3>3, <4>2 DEF FilesAreGood, IsIntact
      <4> QED
        BY <4>1, <4>2
    <3> QED
      BY <2>4, <3>1, <3>2, <3>3 DEF FilesAreGood, IsIntact
  <2>6. ReaderIsGood' /\ (damages' = 0 /\ reader'.open => reader'.header.length = given'[reader'.object])
    <3>1. CASE reader = NoReader
      BY <1>1, <3>1 DEF ReaderIsGood, NoReader
    <3>2. CASE reader # NoReader
      <4>1. PICK q \in StoredObjects, l \in 0..MaxLength, s \in ChunkSizes :
              ReaderHolds(reader, q, l, s) /\ (damages = 0 => IsIntact(q, l, s))
        BY <1>1, <3>2 DEF ReaderIsGood
      <4>2. damages = 0 => q # o
        <5>1. SUFFICES ASSUME damages = 0, q = o PROVE FALSE
          OBVIOUS
        <5>2. files[q] = Encrypted(q, l, s)
          BY <4>1, <5>1 DEF IsIntact
        <5>3. Len(files[q]) >= 2
          BY <5>2, EncryptedHolds
        <5> QED
          BY <1>1, <5>1, <5>3
      <4>3. damages' = 0 => given'[q] = l /\ files'[q] = Encrypted(q, l, s)
        BY <1>1, <2>4, <4>1, <4>2 DEF IsIntact
      <4>4. ReaderHolds(reader', q, l, s)
        BY <1>1, <4>1
      <4>5. ReaderIsGood'
        BY <4>3, <4>4 DEF ReaderIsGood, IsIntact
      <4>6. reader'.object = q /\ reader'.header.length = l
        BY <4>4, ReaderTells
      <4> QED
        BY <4>3, <4>5, <4>6
    <3> QED
      BY <3>1, <3>2
  <2>7. answer'.call = "none"
    BY <2>2 DEF NoAnswer
  <2>8. ReleasesOnlyTheSource' /\ IntactReadsBack'
    BY <2>6, <2>7 DEF ReleasesOnlyTheSource, IntactReadsBack
  <2> QED
    BY <2>5, <2>6, <2>8 DEF ObjectInvariant, FilesAreGood, ReaderIsGood
<1> QED
  BY <1>2, <1>3

\* Opening: a header that fits was sealed, and an undamaged file has one that fits.
LEMMA OpenKeeps ==
  ASSUME ObjectInvariant, NEW o \in StoredObjects, OpenReader(o)
  PROVE  ObjectInvariant'
<1>1. /\ FilesAreGood /\ files[o] # <<>>
      /\ files' = files /\ given' = given /\ damages' = damages
  BY ObjectInTwo DEF OpenReader
<1>2. FilesAreGood'
  BY <1>1 DEF FilesAreGood, IsIntact
<1>3. answer'.call = "open" /\ answer'.ok = HeaderFits(o)
  BY DEF OpenReader
<1>4. ASSUME damages = 0
      PROVE  \E size \in ChunkSizes : IsIntact(o, given[o], size) /\ HeaderFits(o)
                                        /\ HeaderOf(o) = SealedHeader(o, given[o], size)
  <2>1. PICK size \in ChunkSizes : IsIntact(o, given[o], size)
    BY <1>1, <1>4 DEF FilesAreGood
  <2>2. PICK length \in 0..MaxLength : length = given[o]
    BY <1>1 DEF FilesAreGood
  <2>3. files[o] = Encrypted(o, length, size)
    BY <2>1, <2>2 DEF IsIntact
  <2>4. /\ Len(files[o]) = PhysicalLength(length, size) /\ Len(files[o]) >= 2
        /\ files[o][1] = Preamble(o) /\ files[o][2] = SealedHeader(o, length, size)
    BY <2>3, EncryptedHolds
  <2>5. HeaderOf(o) = SealedHeader(o, length, size)
    BY <2>4 DEF HeaderOf, HeaderCells
  <2>6. /\ "header" \in DOMAIN HeaderOf(o) /\ HeaderOf(o).header = o
        /\ HeaderOf(o).length = length /\ HeaderOf(o).size = size
    BY <2>5 DEF SealedHeader
  <2>7. HeaderOf(o) # Rubbish
    BY <2>6 DEF Rubbish
  <2> QED
    BY <2>1, <2>2, <2>4, <2>5, <2>6, <2>7 DEF HeaderFits
<1>5. CASE ~HeaderFits(o)
  <2>1. reader' = NoReader
    BY <1>5 DEF OpenReader
  <2>2. ReaderIsGood' /\ reader'.open = FALSE
    BY <2>1 DEF ReaderIsGood, NoReader
  <2>3. ReleasesOnlyTheSource'
    BY <1>3 DEF ReleasesOnlyTheSource
  <2>4. damages' # 0
    BY <1>1, <1>4, <1>5
  <2>5. IntactReadsBack'
    BY <2>4 DEF IntactReadsBack
  <2> QED
    BY <1>2, <2>2, <2>3, <2>5 DEF ObjectInvariant, FilesAreGood, ReaderIsGood
<1>6. CASE HeaderFits(o)
  <2>1. PICK h : h = HeaderOf(o)
    OBVIOUS
  <2>2. h # Rubbish /\ h.header = o
    BY <1>6, <2>1 DEF HeaderFits
  <2>3. Len(files[o]) >= HeaderCells /\ h = files[o][HeaderCells]
    BY <2>1, <2>2 DEF HeaderOf
  <2>4. h \in Headers
    BY <1>1, <2>2, <2>3 DEF FilesAreGood, FileHolds
  <2>5. PICK q \in StoredObjects, length \in 0..MaxLength, size \in ChunkSizes :
          h = SealedHeader(q, length, size)
    BY <2>4 DEF Headers
  <2>6. q = o
    BY <2>2, <2>5 DEF SealedHeader
  <2>7. reader' = [open |-> TRUE, object |-> o, header |-> h, position |-> 0,
                   cached |-> NotCached, cache |-> <<>>]
    BY <1>6, <2>1 DEF OpenReader
  <2>8. ReaderHolds(reader', o, length, size)
    <3>1. reader'.position = 0 /\ reader'.cached = NotCached /\ reader'.cache = <<>>
      BY <2>7
    <3>2. 0 \in 0..length
      OBVIOUS
    <3>3. NotCached \in NotCached..ChunkCount(length, size) - 1
      <4>1. PICK n \in Nat : n = ChunkCount(length, size)
        BY ObjectFileAssumption, ChunksCover
      <4> QED
        BY <4>1 DEF NotCached
    <3> QED
      BY <2>5, <2>6, <2>7, <3>1, <3>2, <3>3 DEF ReaderHolds
  <2>9. damages = 0 => IsIntact(o, length, size)
    <3>1. SUFFICES ASSUME damages = 0 PROVE IsIntact(o, length, size)
      OBVIOUS
    <3>2. PICK s \in ChunkSizes : IsIntact(o, given[o], s) /\ h = SealedHeader(o, given[o], s)
      BY <1>4, <2>1, <3>1
    <3>3. given[o] = length /\ s = size
      BY <2>5, <3>2 DEF SealedHeader
    <3> QED
      BY <3>2, <3>3
  <2>10. damages' = 0 => given'[o] = length /\ files'[o] = Encrypted(o, length, size)
    BY <1>1, <2>9 DEF IsIntact
  <2>11. ReaderIsGood'
    BY <2>8, <2>10 DEF ReaderIsGood, IsIntact
  <2>12. reader'.object = o /\ reader'.header.length = length
    BY <2>8, ReaderTells
  <2>13. ReleasesOnlyTheSource' /\ IntactReadsBack'
    BY <1>3, <1>6, <2>10, <2>12 DEF ReleasesOnlyTheSource, IntactReadsBack
  <2> QED
    BY <1>2, <2>11, <2>13 DEF ObjectInvariant, FilesAreGood, ReaderIsGood
<1> QED
  BY <1>5, <1>6

\* A step that leaves the files alone, and the reader with the header that it has.
LEMMA ReaderKept ==
  ASSUME FilesAreGood, NEW o \in StoredObjects, NEW length \in 0..MaxLength,
         NEW size \in ChunkSizes, damages = 0 => IsIntact(o, length, size),
         UNCHANGED <<files, given, damages>>, ReaderHolds(reader', o, length, size)
  PROVE  FilesAreGood' /\ ReaderIsGood' /\ (damages' = 0 => reader'.header.length = given'[reader'.object])
<1>1. damages' = 0 => given'[o] = length /\ files'[o] = Encrypted(o, length, size)
  BY DEF IsIntact
<1>2. FilesAreGood'
  BY DEF FilesAreGood, IsIntact
<1>3. ReaderIsGood'
  BY <1>1 DEF ReaderIsGood, IsIntact
<1>4. reader'.object = o /\ reader'.header.length = length
  BY ReaderTells
<1> QED
  BY <1>1, <1>2, <1>3, <1>4

\* Seeking leaves header and cache as they were.
LEMMA SeekKeeps ==
  ASSUME ObjectInvariant, NEW target \in NotCached..MaxLength + 1, SeekTo(target)
  PROVE  ObjectInvariant'
<1>1. /\ FilesAreGood /\ ReaderIsGood /\ reader # NoReader
      /\ files' = files /\ given' = given /\ damages' = damages
  BY ObjectInTwo DEF SeekTo, NoReader
<1>2. PICK o \in StoredObjects, length \in 0..MaxLength, size \in ChunkSizes :
        ReaderHolds(reader, o, length, size) /\ (damages = 0 => IsIntact(o, length, size))
  BY <1>1 DEF ReaderIsGood
<1>3. reader.header.length = length
  BY <1>2, ReaderTells
<1>4. ReaderHolds(reader', o, length, size) /\ answer'.call \in {"none", "seek"}
  <2>1. CASE target \notin 0..length
    <3>1. reader' = reader /\ answer' = [call |-> "seek", ok |-> FALSE]
      BY <1>3, <2>1 DEF SeekTo
    <3>2. answer'.call = "seek"
      BY <3>1
    <3> QED
      BY <1>2, <3>1, <3>2
  <2>2. CASE target \in 0..length
    <3>1. reader' = [reader EXCEPT !.position = target] /\ answer' = NoAnswer
      BY <1>3, <2>2 DEF SeekTo
    <3>2. answer'.call = "none"
      BY <3>1 DEF NoAnswer
    <3>3. PICK h, x, y : h = SealedHeader(o, length, size) /\ x = reader.cached /\ y = reader.cache
      OBVIOUS
    <3>4. PICK p : p = reader.position
      OBVIOUS
    <3>5. reader = [open |-> TRUE, object |-> o, header |-> h, position |-> p, cached |-> x, cache |-> y]
      BY <1>2, <3>3, <3>4 DEF ReaderHolds
    <3>6. reader' = [open |-> TRUE, object |-> o, header |-> h, position |-> target, cached |-> x, cache |-> y]
      BY <3>1, <3>5
    <3>7. reader'.position = target /\ reader'.cached = x /\ reader'.cache = y
      BY <3>6
    <3>8. /\ x \in NotCached..ChunkCount(length, size) - 1
          /\ x # NotCached => y = ChunkBytes(o, length, size, x)
      BY <1>2, <3>3 DEF ReaderHolds
    <3>9. ReaderHolds(reader', o, length, size)
      BY <2>2, <3>3, <3>6, <3>7, <3>8 DEF ReaderHolds
    <3> QED
      BY <3>2, <3>9
  <2> QED
    BY <2>1, <2>2
<1>5. FilesAreGood' /\ ReaderIsGood' /\ (damages' = 0 => reader'.header.length = given'[reader'.object])
  BY <1>1, <1>2, <1>4, ReaderKept
<1>6. ReleasesOnlyTheSource' /\ IntactReadsBack'
  BY <1>4, <1>5 DEF ReleasesOnlyTheSource, IntactReadsBack
<1> QED
  BY <1>5, <1>6 DEF ObjectInvariant, FilesAreGood, ReaderIsGood

\* Closing leaves no reader.
LEMMA CloseKeeps ==
  ASSUME ObjectInvariant, CloseReader
  PROVE  ObjectInvariant'
<1>1. /\ FilesAreGood /\ reader' = NoReader /\ answer' = NoAnswer
      /\ files' = files /\ given' = given /\ damages' = damages
  BY ObjectInTwo DEF CloseReader
<1>2. FilesAreGood' /\ ReaderIsGood'
  BY <1>1 DEF FilesAreGood, IsIntact, ReaderIsGood
<1>3. answer'.call = "none" /\ reader'.open = FALSE
  BY <1>1 DEF NoAnswer, NoReader
<1>4. ReleasesOnlyTheSource' /\ IntactReadsBack'
  BY <1>3 DEF ReleasesOnlyTheSource, IntactReadsBack
<1> QED
  BY <1>2, <1>4 DEF ObjectInvariant, FilesAreGood, ReaderIsGood

\* Verifying empties the cache, and an undamaged file verifies.
LEMMA VerifyKeeps ==
  ASSUME ObjectInvariant, VerifyAll
  PROVE  ObjectInvariant'
<1>1. /\ FilesAreGood /\ ReaderIsGood /\ reader # NoReader
      /\ files' = files /\ given' = given /\ damages' = damages
  BY ObjectInTwo DEF VerifyAll, NoReader
<1>2. PICK o \in StoredObjects, length \in 0..MaxLength, size \in ChunkSizes :
        ReaderHolds(reader, o, length, size) /\ (damages = 0 => IsIntact(o, length, size))
  BY <1>1 DEF ReaderIsGood
<1>3. reader.header.length = length /\ reader.header.size = size
  BY <1>2, ReaderTells
<1>4. PICK n \in Nat : n = ChunkCount(length, size)
  BY ObjectFileAssumption, ChunksCover
<1>5. ReaderHolds(reader', o, length, size)
  <2>1. PICK h, p : h = SealedHeader(o, length, size) /\ p = reader.position
    OBVIOUS
  <2>2. reader = [open |-> TRUE, object |-> o, header |-> h, position |-> reader.position,
                  cached |-> reader.cached, cache |-> reader.cache]
    BY <1>2, <2>1 DEF ReaderHolds
  <2>3. reader' = [reader EXCEPT !.cached = NotCached, !.cache = <<>>]
    BY DEF VerifyAll
  <2>4. reader' = [open |-> TRUE, object |-> o, header |-> h, position |-> p,
                   cached |-> NotCached, cache |-> <<>>]
    <3>1. PICK r, x, y : r = reader /\ x = reader.cached /\ y = reader.cache
      OBVIOUS
    <3>2. r = [open |-> TRUE, object |-> o, header |-> h, position |-> p, cached |-> x, cache |-> y]
      BY <2>1, <2>2, <3>1
    <3>3. PICK z : z = [r EXCEPT !.cached = NotCached, !.cache = <<>>]
      OBVIOUS
    <3>4. z = [open |-> TRUE, object |-> o, header |-> h, position |-> p,
               cached |-> NotCached, cache |-> <<>>]
      BY <3>2, <3>3
    <3>5. reader' = z
      BY <2>3, <3>1, <3>3
    <3> QED
      BY <3>4, <3>5
  <2>5. reader'.position = p /\ reader'.cached = NotCached /\ reader'.cache = <<>>
    BY <2>4
  <2>6. p \in 0..length /\ NotCached \in NotCached..n - 1
    BY <1>2, <1>4, <2>1 DEF ReaderHolds, NotCached
  <2> QED
    BY <1>4, <2>1, <2>4, <2>5, <2>6 DEF ReaderHolds
<1>6. FilesAreGood' /\ ReaderIsGood' /\ (damages' = 0 => reader'.header.length = given'[reader'.object])
  BY <1>1, <1>2, <1>5, ReaderKept
<1>7. answer'.call = "verify" /\ answer'.ok = \A i \in 0..n - 1 : (i = 0 /\ Cached(0)) \/ Loads(i)
  <2>1. answer' = [call |-> "verify", ok |-> \A i \in 0..n - 1 : (i = 0 /\ Cached(0)) \/ Loads(i)]
    BY <1>3, <1>4 DEF VerifyAll
  <2> QED
    BY <2>1
<1>8. damages' = 0 => answer'.ok
  <2>1. SUFFICES ASSUME damages = 0, NEW i \in 0..n - 1 PROVE Loads(i)
    BY <1>1, <1>7
  <2>2. i \in Nat /\ i < n
    BY <1>4
  <2> QED
    BY <1>2, <1>4, <2>1, <2>2, IntactLoads DEF IsIntact
<1>9. ReleasesOnlyTheSource' /\ IntactReadsBack'
  BY <1>6, <1>7, <1>8 DEF ReleasesOnlyTheSource, IntactReadsBack
<1> QED
  BY <1>6, <1>9 DEF ObjectInvariant, FilesAreGood, ReaderIsGood

\* Bytes of a source, from a place in it on.
AreFrom(d, o, x) == \A j \in 1..Len(d) : d[j] = Byte(o, x + j)

\* What is taken out of a chunk of the source is what the source holds at the position.
IsTaken(b, count, o, at, within, k) ==
  count \in Nat /\ within + count <= k /\ b \in Seq(Cell) /\ Len(b) = count /\ AreFrom(b, o, at)

\* Bytes that are taken from a chunk at a place within are the bytes of the source from there on.
LEMMA TakenOf ==
  ASSUME NEW o, NEW k \in Nat, NEW x \in Nat, NEW within \in Nat, within < k,
         NEW wanted \in Nat, wanted # 0,
         NEW d \in Seq(Cell), Len(d) = k, AreFrom(d, o, x), NEW at, at = x + within,
         NEW count, count = Lesser(k - within, wanted),
         NEW b, b = SubSeq(d, within + 1, within + count)
  PROVE  IsTaken(b, count, o, at, within, k)
<1>1. count \in Nat /\ count # 0 /\ within + count <= k
  BY DEF Lesser
<1>2. PICK m \in Int : m = within + 1
  OBVIOUS
<1>3. PICK n \in Int : n = within + count
  BY <1>1
<1>4. m <= n /\ n - m + 1 = count
  BY <1>1, <1>2, <1>3
<1>5. \A j \in m..n : d[j] \in Cell
  <2>1. SUFFICES ASSUME NEW j \in m..n PROVE d[j] \in Cell
    OBVIOUS
  <2>2. j \in 1..k
    BY <1>1, <1>2, <1>3, <2>1
  <2> QED
    BY <2>2, ElementOfSeq
<1>6. PICK s : s = SubSeq(d, m, n)
  OBVIOUS
<1>7. /\ s \in Seq(Cell) /\ Len(s) = IF m <= n THEN n - m + 1 ELSE 0
      /\ \A j \in 1..n - m + 1 : s[j] = d[m + j - 1]
  BY <1>5, <1>6, SubSeqProperties
<1>8. b = s /\ Len(b) = count
  <2>1. Len(s) = IF m <= n THEN n - m + 1 ELSE 0
    BY <1>7
  <2> QED
    BY <1>2, <1>3, <1>4, <1>6, <2>1
<1>9. ASSUME NEW j \in 1..count PROVE b[j] = Byte(o, x + within + j)
  <2>1. j \in 1..n - m + 1 /\ m + j - 1 = within + j /\ within + j \in 1..k
    BY <1>1, <1>2, <1>3, <1>4, <1>9
  <2>2. b[j] = d[within + j]
    BY <1>7, <1>8, <2>1
  <2>3. d[within + j] = Byte(o, x + (within + j)) /\ x + (within + j) = x + within + j
    BY <1>1, <1>9, <2>1 DEF AreFrom
  <2> QED
    BY <2>2, <2>3
<1> QED
  BY <1>1, <1>7, <1>8, <1>9 DEF AreFrom, IsTaken

\* Reading releases bytes of the chunk that the position is in, and of no other.
LEMMA ReadKeeps ==
  ASSUME ObjectInvariant, NEW wanted \in 0..MaxLength, Read(wanted)
  PROVE  ObjectInvariant'
<1>1. /\ FilesAreGood /\ ReaderIsGood /\ reader # NoReader
      /\ files' = files /\ given' = given /\ damages' = damages
  BY ObjectInTwo DEF Read, NoReader
<1>2. PICK o \in StoredObjects, length \in 0..MaxLength, size \in ChunkSizes :
        ReaderHolds(reader, o, length, size) /\ (damages = 0 => IsIntact(o, length, size))
  BY <1>1 DEF ReaderIsGood
<1>3. reader.object = o /\ reader.header.length = length /\ reader.header.size = size
  BY <1>2, ReaderTells
<1>4. length \in Nat /\ size \in Nat \ {0} /\ wanted \in Nat
  BY ObjectFileAssumption
<1>5. PICK position \in 0..length : position = reader.position
  BY <1>2 DEF ReaderHolds
<1>6. CASE wanted = 0 \/ position = length
  <2>1. reader' = reader /\ answer' = [call |-> "read", ok |-> TRUE, at |-> position, bytes |-> <<>>]
    BY <1>3, <1>5, <1>6 DEF Read
  <2>2. answer'.call = "read" /\ answer'.ok /\ answer'.at = position /\ answer'.bytes = <<>>
    BY <2>1
  <2>3. FilesAreGood' /\ ReaderIsGood' /\ (damages' = 0 => reader'.header.length = given'[reader'.object])
    BY <1>1, <1>2, <2>1, ReaderKept
  <2>4. ReleasesOnlyTheSource'
    <3>1. DOMAIN answer'.bytes = {}
      BY <2>2
    <3> QED
      BY <3>1 DEF ReleasesOnlyTheSource
  <2>5. reader'.position = answer'.at + Len(answer'.bytes)
    <3>1. Len(answer'.bytes) = 0 /\ reader'.position = position
      BY <1>5, <2>1, <2>2
    <3> QED
      BY <1>4, <2>2, <3>1
  <2>6. IntactReadsBack'
    BY <2>2, <2>3, <2>5 DEF IntactReadsBack
  <2> QED
    BY <2>3, <2>4, <2>6 DEF ObjectInvariant, FilesAreGood, ReaderIsGood
<1>7. CASE wanted # 0 /\ position # length
  <2>1. PICK i, within : i = position \div size /\ within = position % size
    OBVIOUS
  <2>2. PICK after : after = AfterLoad(i)
    OBVIOUS
  <2>3. PICK count : count = Lesser(Len(after.cache) - within, wanted)
    OBVIOUS
  <2>4. PICK b : b = SubSeq(after.cache, within + 1, within + count)
    OBVIOUS
  <2>5. IF after.cached = i
        THEN /\ reader' = [after EXCEPT !.position = @ + count]
             /\ answer' = [call |-> "read", ok |-> TRUE, at |-> position, bytes |-> b]
        ELSE reader' = after /\ answer' = [call |-> "read", ok |-> FALSE]
    BY <1>3, <1>5, <1>7, <2>1, <2>2, <2>3, <2>4 DEF Read
  <2>6. /\ i \in Nat /\ i < ChunkCount(length, size) /\ position = i * size + within
        /\ within \in Nat /\ within < ChunkLength(length, size, i)
    <3>1. position \in Nat /\ position < length
      BY <1>4, <1>5, <1>7
    <3>2. IsPlace(position, i, within, length, size)
      BY <1>4, <2>1, <3>1, PositionInChunk
    <3> QED
      BY <3>2 DEF IsPlace
  <2>7. /\ ReaderHolds(after, o, length, size) /\ after.position = position
        /\ after.cached = i => after.cache = ChunkBytes(o, length, size, i)
        /\ files[o] = Encrypted(o, length, size) => after.cached = i
    BY <1>1, <1>2, <1>5, <2>2, <2>6, AfterLoading DEF FilesAreGood
  <2>8. CASE after.cached # i
    <3>1. reader' = after /\ answer' = [call |-> "read", ok |-> FALSE]
      BY <2>5, <2>8
    <3>2. answer'.call = "read" /\ answer'.ok = FALSE
      BY <3>1
    <3>3. damages' # 0
      BY <1>1, <1>2, <2>7, <2>8 DEF IsIntact
    <3>4. FilesAreGood' /\ ReaderIsGood'
      BY <1>1, <1>2, <2>7, <3>1, ReaderKept
    <3>5. ReleasesOnlyTheSource' /\ IntactReadsBack'
      BY <3>2, <3>3 DEF ReleasesOnlyTheSource, IntactReadsBack
    <3> QED
      BY <3>4, <3>5 DEF ObjectInvariant, FilesAreGood, ReaderIsGood
  <2>9. CASE after.cached = i
    <3>1. reader' = [after EXCEPT !.position = @ + count]
      BY <2>5, <2>9
    <3>2. answer' = [call |-> "read", ok |-> TRUE, at |-> position, bytes |-> b]
      BY <2>5, <2>9
    <3>3. answer'.call = "read" /\ answer'.ok /\ answer'.at = position /\ answer'.bytes = b
      BY <3>2
    <3>4. PICK k \in Nat : k = ChunkLength(length, size, i) /\ within < k
      BY <1>4, <2>6, ChunkMeasured
    <3>5. PICK x \in Nat : x = i * size /\ x + k <= length /\ position = x + within
      BY <1>4, <2>6, <3>4, ChunkMeasured
    <3>6. PICK d : d = after.cache
      OBVIOUS
    <3>7. d \in Seq(Cell) /\ Len(d) = k /\ AreFrom(d, o, x)
      <4>1. d = ChunkBytes(o, length, size, i)
        BY <2>7, <2>9, <3>6
      <4>2. PICK c : c = SealedChunk(o, length, size, i)
        OBVIOUS
      <4>3. d \in Seq(Cell) /\ Len(d) = k /\ \A j \in 1..k : d[j] = Byte(o, i * size + j)
        BY <2>6, <3>4, <4>1, <4>2, ChunkMade
      <4> QED
        BY <3>5, <4>3 DEF AreFrom
    <3>8. count = Lesser(k - within, wanted) /\ b = SubSeq(d, within + 1, within + count)
      BY <2>3, <2>4, <3>6, <3>7
    <3>9. /\ count \in Nat /\ within + count <= k /\ b \in Seq(Cell) /\ Len(b) = count
          /\ AreFrom(b, o, position)
      <4>1. IsTaken(b, count, o, position, within, k)
        BY <1>4, <1>7, <2>6, <3>4, <3>5, <3>7, <3>8, TakenOf
      <4> QED
        BY <4>1 DEF IsTaken
    <3>10. position + count \in 0..length
      BY <1>4, <2>6, <3>4, <3>5, <3>9
    <3>11. ReaderHolds(reader', o, length, size) /\ reader'.position = position + count
      <4>1. PICK h, y : h = SealedHeader(o, length, size) /\ y = after.cached
        OBVIOUS
      <4>2. after = [open |-> TRUE, object |-> o, header |-> h, position |-> position,
                     cached |-> y, cache |-> d]
        BY <2>7, <3>6, <4>1 DEF ReaderHolds
      <4>3. PICK p : p = position + count
        OBVIOUS
      <4>4. reader' = [open |-> TRUE, object |-> o, header |-> h, position |-> p,
                       cached |-> y, cache |-> d]
        BY <3>1, <4>2, <4>3
      <4>5. reader'.position = p /\ reader'.cached = y /\ reader'.cache = d
        BY <4>4
      <4>6. /\ y \in NotCached..ChunkCount(length, size) - 1
            /\ y # NotCached => d = ChunkBytes(o, length, size, y)
        BY <2>7, <3>6, <4>1 DEF ReaderHolds
      <4>7. p \in 0..length
        BY <3>10, <4>3
      <4> QED
        BY <4>1, <4>3, <4>4, <4>5, <4>6, <4>7 DEF ReaderHolds
    <3>12. FilesAreGood' /\ ReaderIsGood' /\ (damages' = 0 => reader'.header.length = given'[reader'.object])
      BY <1>1, <1>2, <3>11, ReaderKept
    <3>13. ReleasesOnlyTheSource'
      <4>1. reader'.object = o
        BY <3>11, ReaderTells
      <4>2. DOMAIN b = 1..Len(b)
        BY <3>9
      <4>3. \A j \in DOMAIN b : b[j] = Byte(o, position + j)
        BY <3>5, <3>9, <4>2 DEF AreFrom
      <4> QED
        BY <3>3, <4>1, <4>3 DEF ReleasesOnlyTheSource
    <3>14. IntactReadsBack'
      BY <3>3, <3>9, <3>11, <3>12 DEF IntactReadsBack
    <3> QED
      BY <3>12, <3>13, <3>14 DEF ObjectInvariant, FilesAreGood, ReaderIsGood
  <2> QED
    BY <2>8, <2>9
<1> QED
  BY <1>6, <1>7

\* A file in which some cells are written over with rubbish or with others of its cells, the
\* two in front only with rubbish, is such a file again.
LEMMA CellsMoved ==
  ASSUME NEW file, FileHolds(file), NEW g, g = [k \in 1..Len(file) |-> g[k]],
         \A k \in 1..Len(file) : g[k] = Rubbish \/ \E m \in 1..Len(file) : g[k] = file[m],
         HeaderCells \in 1..Len(file) => g[HeaderCells] \in {Rubbish, file[HeaderCells]}
  PROVE  FileHolds(g)
<1>1. file \in Seq(Cell) /\ Len(file) \in Nat
  BY DEF FileHolds
<1>2. Rubbish \in Cell
  BY DEF Cell
<1>3. \A m \in 1..Len(file) : file[m] \in Cell
  BY <1>1, ElementOfSeq
<1>4. \A k \in 1..Len(file) : g[k] \in Cell
  BY <1>2, <1>3
<1>5. PICK n \in Nat : n = Len(file)
  BY <1>1
<1>6. PICK s : s = [k \in 1..n |-> g[k]]
  OBVIOUS
<1>7. s \in Seq(Cell) /\ Len(s) = n /\ \A k \in 1..n : s[k] = g[k]
  BY <1>4, <1>5, <1>6
<1>8. FileHolds(s)
  <2>1. ASSUME n >= 2 PROVE s[2] \in Headers \cup {Rubbish}
    <3>1. 2 \in 1..n
      BY <1>5, <2>1
    <3>2. g[2] \in {Rubbish, file[2]}
      BY <1>5, <3>1 DEF HeaderCells
    <3>3. file[2] \in Headers \cup {Rubbish}
      BY <1>5, <2>1 DEF FileHolds, HeaderCells
    <3> QED
      BY <1>7, <3>1, <3>2, <3>3
  <2> QED
    BY <1>7, <2>1 DEF FileHolds, HeaderCells
<1> QED
  BY <1>5, <1>6, <1>8

\* A cell that is overwritten.
LEMMA CellLost ==
  ASSUME NEW file, FileHolds(file), NEW i \in DOMAIN file
  PROVE  FileHolds([file EXCEPT ![i] = Rubbish])
<1>1. file \in Seq(Cell) /\ Len(file) \in Nat
  BY DEF FileHolds
<1>2. PICK n \in Nat : n = Len(file) /\ DOMAIN file = 1..n
  BY <1>1
<1>3. PICK x : x = Rubbish
  OBVIOUS
<1>4. PICK g : g = [file EXCEPT ![i] = x]
  OBVIOUS
<1>5. /\ g = [k \in 1..n |-> g[k]] /\ g[i] = x
      /\ \A k \in 1..n : k # i => g[k] = file[k]
  BY <1>1, <1>2, <1>4
<1>6. \A k \in 1..n : g[k] = Rubbish \/ \E m \in 1..n : g[k] = file[m]
  BY <1>3, <1>5
<1>7. HeaderCells \in 1..n => g[HeaderCells] \in {Rubbish, file[HeaderCells]}
  BY <1>3, <1>5
<1>8. FileHolds(g)
  BY <1>2, <1>5, <1>6, <1>7, CellsMoved
<1> QED
  BY <1>3, <1>4, <1>8

\* Two chunks that change places: the header is in front of both.
LEMMA ChunksMoved ==
  ASSUME NEW file, FileHolds(file), NEW size \in ChunkSizes, NEW i \in Nat, NEW j \in Nat, i < j,
         ChunkOffset(size, j + 1) <= Len(file)
  PROVE  FileHolds(ChunksSwapped(file, size, i, j))
<1>1. file \in Seq(Cell) /\ Len(file) \in Nat
  BY DEF FileHolds
<1>2. PICK n \in Nat : n = Len(file) /\ DOMAIN file = 1..n
  BY <1>1
<1>3. PICK w \in Nat : w = size + 1 /\ w >= 1
  BY ObjectFileAssumption
<1>4. PICK x \in Nat : x = ChunkOffset(size, i) /\ x = i * w + 2
  BY <1>3 DEF ChunkOffset, TagCells, HeaderCells
<1>5. PICK y \in Nat : y = ChunkOffset(size, j) /\ y = j * w + 2
  BY <1>3 DEF ChunkOffset, TagCells, HeaderCells
<1>6. y + w <= n
  <2>1. ChunkOffset(size, j + 1) = (j + 1) * w + 2
    BY <1>3 DEF ChunkOffset, TagCells, HeaderCells
  <2>2. (j + 1) * w = j * w + w
    BY <1>3
  <2>3. PICK z \in Nat : z = j * w
    BY <1>3
  <2> QED
    BY <1>2, <1>3, <1>5, <2>1, <2>2, <2>3
<1>7. x <= y /\ x >= 2 /\ y >= 2
  <2>1. i * w <= j * w
    BY <1>3, Products
  <2>2. PICK z \in Nat : z = i * w
    BY <1>3
  <2>3. PICK v \in Nat : v = j * w
    BY <1>3
  <2> QED
    BY <1>4, <1>5, <2>1, <2>2, <2>3
<1>8. PICK g : g = ChunksSwapped(file, size, i, j)
  OBVIOUS
<1>9. g = [k \in 1..n |-> IF k - x \in 1..w THEN file[(k - x) + y]
                          ELSE IF k - y \in 1..w THEN file[(k - y) + x] ELSE file[k]]
  BY <1>2, <1>3, <1>4, <1>5, <1>8 DEF ChunksSwapped, TagCells
<1>10. g = [k \in 1..n |-> g[k]]
  BY <1>9
<1>11. ASSUME NEW k \in 1..n PROVE \E m \in 1..n : g[k] = file[m]
  <2>1. CASE k - x \in 1..w
    <3>1. (k - x) + y \in 1..n
      BY <1>6, <1>7, <2>1
    <3> QED
      BY <1>9, <2>1, <3>1
  <2>2. CASE k - x \notin 1..w /\ k - y \in 1..w
    <3>1. (k - y) + x \in 1..n
      BY <1>6, <1>7, <2>2
    <3> QED
      BY <1>9, <2>2, <3>1
  <2>3. CASE k - x \notin 1..w /\ k - y \notin 1..w
    BY <1>9, <2>3
  <2> QED
    BY <2>1, <2>2, <2>3
<1>12. 2 \in 1..n => g[2] = file[2]
  <2>1. 2 - x \notin 1..w /\ 2 - y \notin 1..w
    BY <1>7
  <2> QED
    BY <1>9, <2>1
<1>13. FileHolds(g)
  BY <1>2, <1>10, <1>11, <1>12, CellsMoved DEF HeaderCells
<1> QED
  BY <1>8, <1>13

\* A file that is cut by a cell.
LEMMA FileCut ==
  ASSUME NEW file, FileHolds(file), file # <<>>
  PROVE  FileHolds(Ext!Front(file))
<1>1. file \in Seq(Cell) /\ Len(file) \in Nat
  BY DEF FileHolds
<1>2. PICK n \in Nat : n = Len(file) - 1 /\ Len(file) = n + 1
  <2>1. Len(file) # 0
    BY <1>1
  <2> QED
    BY <1>1, <2>1
<1>3. PICK g : g = SubSeq(file, 1, n)
  OBVIOUS
<1>4. g = Ext!Front(file)
  BY <1>2, <1>3 DEF Ext!Front
<1>5. \A k \in 1..n : file[k] \in Cell
  <2>1. SUFFICES ASSUME NEW k \in 1..n PROVE file[k] \in Cell
    OBVIOUS
  <2>2. k \in 1..Len(file)
    BY <1>2, <2>1
  <2> QED
    BY <1>1, <2>2, ElementOfSeq
<1>6. g \in Seq(Cell) /\ Len(g) = n /\ \A k \in 1..n : g[k] = file[k]
  <2>1. 1 \in Int /\ n \in Int
    BY <1>2
  <2>2. /\ g \in Seq(Cell) /\ Len(g) = IF 1 <= n THEN n - 1 + 1 ELSE 0
        /\ \A k \in 1..n - 1 + 1 : g[k] = file[1 + k - 1]
    BY <1>3, <1>5, <2>1, SubSeqProperties
  <2>3. Len(g) = n
    <3>1. Len(g) = IF 1 <= n THEN n - 1 + 1 ELSE 0
      BY <2>2
    <3> QED
      BY <1>2, <3>1
  <2>4. ASSUME NEW k \in 1..n PROVE g[k] = file[k]
    <3>1. k \in 1..n - 1 + 1 /\ 1 + k - 1 = k
      BY <1>2
    <3> QED
      BY <2>2, <3>1
  <2> QED
    BY <2>2, <2>3, <2>4
<1>7. FileHolds(g)
  <2>1. ASSUME n >= 2 PROVE g[2] \in Headers \cup {Rubbish}
    <3>1. 2 \in 1..n /\ Len(file) >= 2
      BY <1>2, <2>1
    <3> QED
      BY <1>6, <3>1 DEF FileHolds, HeaderCells
  <2> QED
    BY <1>6, <2>1 DEF FileHolds, HeaderCells
<1> QED
  BY <1>4, <1>7

\* A file that grows by a cell of rubbish.
LEMMA FileGrown ==
  ASSUME NEW file, FileHolds(file)
  PROVE  FileHolds(Append(file, Rubbish))
<1>1. file \in Seq(Cell) /\ Len(file) \in Nat
  BY DEF FileHolds
<1>2. Rubbish \in Cell
  BY DEF Cell
<1>3. PICK n \in Nat : n = Len(file)
  BY <1>1
<1>4. PICK x : x = Rubbish
  OBVIOUS
<1>5. PICK g : g = Append(file, x)
  OBVIOUS
<1>6. /\ g \in Seq(Cell) /\ Len(g) = n + 1 /\ g[n + 1] = x
      /\ \A k \in 1..n : g[k] = file[k]
  BY <1>1, <1>2, <1>3, <1>4, <1>5, AppendProperties
<1>7. ASSUME n + 1 >= 2 PROVE g[2] \in Headers \cup {Rubbish}
  <2>1. CASE n = 1
    <3>1. n + 1 = 2
      BY <2>1
    <3> QED
      BY <1>4, <1>6, <3>1
  <2>2. CASE n >= 2
    <3>1. 2 \in 1..n
      BY <1>3, <2>2
    <3> QED
      BY <1>3, <1>6, <2>2, <3>1 DEF FileHolds, HeaderCells
  <2> QED
    BY <1>3, <1>7, <2>1, <2>2
<1>8. FileHolds(g)
  BY <1>6, <1>7 DEF FileHolds, HeaderCells
<1> QED
  BY <1>4, <1>5, <1>8

\* No damage from outside makes a tag or a header that was not sealed.
LEMMA DamageKeeps ==
  ASSUME ObjectInvariant, NEW o \in StoredObjects, Damage(o)
  PROVE  ObjectInvariant'
<1>1. /\ ReleasesOnlyTheSource /\ FilesAreGood /\ ReaderIsGood /\ files[o] # <<>>
      /\ damages < MaxDamage /\ damages' = damages + 1
      /\ given' = given /\ reader' = reader /\ answer' = answer
  BY ObjectInTwo DEF Damage
<1>2. damages' \in 0..MaxDamage /\ damages' # 0
  BY <1>1, ObjectFileAssumption DEF FilesAreGood
<1>3. DOMAIN files = StoredObjects /\ \A q \in StoredObjects : FileHolds(files[q])
  BY <1>1 DEF FilesAreGood
<1>4. PICK file : file = files[o] /\ FileHolds(file) /\ file # <<>>
  BY <1>1, <1>3
<1>5. ASSUME NEW g, FileHolds(g), files' = [files EXCEPT ![o] = g]
      PROVE  DOMAIN files' = StoredObjects /\ \A q \in StoredObjects : FileHolds(files'[q])
  BY <1>3, <1>5
<1>6. DOMAIN files' = StoredObjects /\ \A q \in StoredObjects : FileHolds(files'[q])
  <2>1. CASE \E i \in DOMAIN files[o] : files' = [files EXCEPT ![o] = [@ EXCEPT ![i] = Rubbish]]
    <3>1. PICK i \in DOMAIN file : files' = [files EXCEPT ![o] = [files[o] EXCEPT ![i] = Rubbish]]
      BY <1>4, <2>1
    <3>2. PICK g : g = [file EXCEPT ![i] = Rubbish]
      OBVIOUS
    <3>3. FileHolds(g)
      BY <1>4, <3>1, <3>2, CellLost
    <3>4. files' = [files EXCEPT ![o] = g]
      BY <1>4, <3>1, <3>2
    <3> QED
      BY <1>5, <3>3, <3>4
  <2>2. CASE \E size \in ChunkSizes, i, j \in 0..MaxLength :
               /\ i < j /\ ChunkOffset(size, j + 1) <= Len(files[o])
               /\ files' = [files EXCEPT ![o] = ChunksSwapped(@, size, i, j)]
    <3>1. PICK size \in ChunkSizes, i \in 0..MaxLength, j \in 0..MaxLength :
            /\ i < j /\ ChunkOffset(size, j + 1) <= Len(files[o])
            /\ files' = [files EXCEPT ![o] = ChunksSwapped(files[o], size, i, j)]
      BY <2>2
    <3>2. PICK g : g = ChunksSwapped(file, size, i, j)
      OBVIOUS
    <3>3. i \in Nat /\ j \in Nat
      BY ObjectFileAssumption
    <3>4. FileHolds(g)
      BY <1>4, <3>1, <3>2, <3>3, ChunksMoved
    <3>5. files' = [files EXCEPT ![o] = g]
      BY <1>4, <3>1, <3>2
    <3> QED
      BY <1>5, <3>4, <3>5
  <2>3. CASE files' = [files EXCEPT ![o] = Ext!Front(@)]
    <3>1. PICK g : g = Ext!Front(file)
      OBVIOUS
    <3>2. FileHolds(g)
      BY <1>4, <3>1, FileCut
    <3>3. files' = [files EXCEPT ![o] = g]
      BY <1>4, <2>3, <3>1
    <3> QED
      BY <1>5, <3>2, <3>3
  <2>4. CASE files' = [files EXCEPT ![o] = Append(@, Rubbish)]
    <3>1. PICK g : g = Append(file, Rubbish)
      OBVIOUS
    <3>2. FileHolds(g)
      BY <1>4, <3>1, FileGrown
    <3>3. files' = [files EXCEPT ![o] = g]
      BY <1>4, <2>4, <3>1
    <3> QED
      BY <1>5, <3>2, <3>3
  <2>5. CASE \E p \in StoredObjects : files' = [files EXCEPT ![o] = files[p], ![p] = files[o]]
    <3>1. PICK p \in StoredObjects : files' = [files EXCEPT ![o] = files[p], ![p] = files[o]]
      BY <2>5
    <3> QED
      BY <1>3, <3>1
  <2> QED
    BY <2>1, <2>2, <2>3, <2>4, <2>5 DEF Damage
<1>7. FilesAreGood'
  BY <1>1, <1>2, <1>6 DEF FilesAreGood
<1>8. ReaderIsGood' /\ ReleasesOnlyTheSource' /\ IntactReadsBack'
  BY <1>1, <1>2 DEF ReaderIsGood, ReleasesOnlyTheSource, IntactReadsBack
<1> QED
  BY <1>7, <1>8 DEF ObjectInvariant, FilesAreGood, ReaderIsGood

\* Every step of the object's file keeps the invariant.
LEMMA ObjectStep == ObjectInvariant /\ [ObjectNext]_objectVars => ObjectInvariant'
<1> SUFFICES ASSUME ObjectInvariant, [ObjectNext]_objectVars PROVE ObjectInvariant'
  OBVIOUS
<1>1. CASE UNCHANGED objectVars
  BY <1>1 DEF ObjectInvariant, ReleasesOnlyTheSource, IntactReadsBack, IsIntact, objectVars
<1>2. CASE ObjectNext
  BY <1>2, WriteKeeps, OpenKeeps, DamageKeeps, ReadKeeps, SeekKeeps, VerifyKeeps, CloseKeeps
  DEF ObjectNext
<1> QED
  BY <1>1, <1>2

----------------------------------------------------------------------------
\* Bytes read back as what was written, or not at all: what a reader of an object releases is
\* what the source held there, and an undamaged object reads back whole; a header unlocks with
\* the credentials that it was wrapped for and no others; and a frame that a worker accepts is
\* the one spelling of what was sent (ObjectFile, HeaderFormat, WireFormat).
THEOREM BytesHold == PartsSpec => []BytesReadBack
<1> DEFINE Inv == ObjectInvariant /\ FormatInvariant /\ WireInvariant
<1>1. PartsInit => Inv
  BY ObjectBegins, FormatBegins, WireBegins DEF PartsInit
<1>2. Inv /\ [PartsNext]_partVars => Inv'
  <2> SUFFICES ASSUME Inv, [PartsNext]_partVars PROVE Inv'
    OBVIOUS
  <2>1. ObjectInvariant'
    BY StepOfAPart, ObjectStep
  <2>2. FormatInvariant'
    BY StepOfAPart, FormatStep
  <2>3. WireInvariant'
    BY StepOfAPart, WireStep
  <2> QED
    BY <2>1, <2>2, <2>3
<1>3. Inv => BytesReadBack
  BY DEF ObjectInvariant, FormatInvariant, WireInvariant, BytesReadBack
<1> QED
  BY <1>1, <1>2, <1>3, PTL DEF PartsSpec
=============================================================================
