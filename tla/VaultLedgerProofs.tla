------------------------- MODULE VaultLedgerProofs -------------------------
(***************************************************************************)
(* Proofs about VaultLedger, for every width, set of identities and number *)
(* of registrations, native and in wasm: types and authenticated debits    *)
(* whatever callers do, and, as long as no vault is named as both ends of  *)
(* a transfer and the deposits fit the width together, that the vault      *)
(* implements BlindLedger and that every transfer conserves the total.     *)
(***************************************************************************)
EXTENDS VaultLedger, SumProofs, SequenceTheorems, WellFoundedInduction, TLAPS

-----------------------------------------------------------------------------
(* Lookups.                                                                *)

LEMMA EntryOfSeq ==
  ASSUME NEW S, NEW entries \in Seq(S), NEW i \in DOMAIN entries
  PROVE  entries[i] \in S
<1>1. DOMAIN entries = 1..Len(entries)
  OBVIOUS
<1>2. i \in 1..Len(entries)
  BY <1>1
<1>3. QED
  BY <1>2, ElementOfSeq

(* A lookup finds the first entry of the ID, if there is one.              *)
LEMMA FirstIsLeast ==
  ASSUME NEW S, NEW entries \in Seq(S), NEW id, Positions(entries, id) # {}
  PROVE  /\ First(entries, id) \in Positions(entries, id)
         /\ \A x \in Positions(entries, id) : First(entries, id) <= x
<1> DEFINE P == Positions(entries, id)
<1>1. P \subseteq Nat
  <2>1. DOMAIN entries = 1..Len(entries) /\ Len(entries) \in Nat
    OBVIOUS
  <2>2. QED
    BY <2>1 DEF Positions
<1>2. PICK n \in P : \A m \in P : n <= m
  <2>1. PICK n \in P : \A m \in P : ~(<<m, n>> \in OpToRel(<, Nat))
    BY <1>1, WFMin, NatLessThanWellFounded
  <2>2. \A m \in P : ~(m < n)
    BY <1>1, <2>1 DEF OpToRel
  <2>3. QED
    BY <1>1, <2>2
<1>3. QED
  BY <1>2 DEF First, Min

LEMMA FirstIsThere ==
  ASSUME NEW S, NEW entries \in Seq(S), NEW id, Positions(entries, id) # {}
  PROVE  /\ First(entries, id) \in DOMAIN entries
         /\ entries[First(entries, id)].id = id
BY FirstIsLeast DEF Positions

(* What is stored is a state.                                              *)
LEMMA StoredType ==
  ASSUME TypeOK
  PROVE  Stored \in VaultState
<1>1. EmptyVaultState \in VaultState
  BY DEF EmptyVaultState, VaultState
<1>2. QED
  BY <1>1 DEF TypeOK, Stored

(* A transfer that succeeds leaves a ledger with the same entries.         *)
LEMMA MovedType ==
  ASSUME NEW balances \in Seq([id : VaultId, ct : Ciphertext]),
         NEW si \in DOMAIN balances, NEW ri \in DOMAIN balances,
         NEW amount \in 0..(Modulus - 1),
         balances[si].ct # Malformed, balances[ri].ct # Malformed
  PROVE  Moved(balances, si, ri, amount) \in Seq([id : VaultId, ct : Ciphertext])
<1> DEFINE deduction == Deduction(balances[si].ct, amount)
           s == (balances[si].ct - deduction) % Modulus
           r == (balances[ri].ct + deduction) % Modulus
           once == [balances EXCEPT ![si].ct = s]
<1>1. /\ balances[si].ct \in Int /\ balances[ri].ct \in Int
      /\ balances[si] \in [id : VaultId, ct : Ciphertext]
      /\ balances[ri] \in [id : VaultId, ct : Ciphertext]
  <2>1. /\ balances[si] \in [id : VaultId, ct : Ciphertext]
        /\ balances[ri] \in [id : VaultId, ct : Ciphertext]
    BY EntryOfSeq
  <2>2. balances[si].ct \in Ciphertext /\ balances[ri].ct \in Ciphertext
    BY <2>1
  <2>3. Modulus \in Int
    BY LedgerAssumption
  <2>4. QED
    BY <2>1, <2>2, <2>3 DEF Ciphertext
<1>2. deduction \in Int
  BY <1>1 DEF Deduction
<1>3. s \in Ciphertext /\ r \in Ciphertext
  <2>1. \A x \in Int : x % Modulus \in 0..(Modulus - 1)
    <3>1. Modulus \in Int /\ Modulus > 0
      BY LedgerAssumption
    <3>2. QED
      BY <3>1
  <2>2. balances[si].ct - deduction \in Int /\ balances[ri].ct + deduction \in Int
    BY <1>1, <1>2
  <2>3. s \in 0..(Modulus - 1) /\ r \in 0..(Modulus - 1)
    BY <2>1, <2>2
  <2>4. QED
    BY <2>3 DEF Ciphertext
<1>4. once \in Seq([id : VaultId, ct : Ciphertext]) /\ ri \in DOMAIN once
  <2>1. [balances[si] EXCEPT !.ct = s] \in [id : VaultId, ct : Ciphertext]
    BY <1>1, <1>3
  <2>2. once = [balances EXCEPT ![si] = [balances[si] EXCEPT !.ct = s]]
    OBVIOUS
  <2>3. QED
    BY <2>1, <2>2
<1>5. once[ri] \in [id : VaultId, ct : Ciphertext]
  BY <1>4, EntryOfSeq
<1>6. [once EXCEPT ![ri].ct = r] \in Seq([id : VaultId, ct : Ciphertext])
  <2>1. [once[ri] EXCEPT !.ct = r] \in [id : VaultId, ct : Ciphertext]
    BY <1>3, <1>5
  <2>2. [once EXCEPT ![ri].ct = r] = [once EXCEPT ![ri] = [once[ri] EXCEPT !.ct = r]]
    OBVIOUS
  <2>3. QED
    BY <1>4, <2>1, <2>2
<1>7. QED
  BY <1>6 DEF Moved

-----------------------------------------------------------------------------
(* The invariant: whatever state is held, exported or kept has bound       *)
(* derived IDs only, each to the projection it is derived from.            *)

Derived(s) ==
  s # NoState =>
    \A i \in DOMAIN s.identity_projections :
      s.identity_projections[i].id =
        DeriveVaultId(s.identity_projections[i].projection)

Inv ==
  /\ TypeOK
  /\ Derived(state) /\ Derived(export_buffer) /\ Derived(snapshot)
  /\ DebitsAreOwn

LEMMA InvInit == Init => Inv
  BY DEF Init, Inv, TypeOK, Derived, DebitsAreOwn

LEMMA InitVaultKeeps ==
  ASSUME Inv, NEW valid \in BOOLEAN, InitVault(valid)
  PROVE  Inv'
  BY LedgerAssumption DEF Inv, TypeOK, Derived, DebitsAreOwn, InitVault

LEMMA RegisterKeeps ==
  ASSUME Inv, NEW id \in VaultId, NEW ct \in Deposits,
         RegisterVaultCiphertext(id, ct)
  PROVE  Inv' /\ state' \in VaultState
<1>1. Stored \in VaultState
  BY StoredType DEF Inv
<1>2. ct \in Ciphertext
  BY LedgerAssumption DEF Ciphertext
<1>3. Append(Stored.balances, [id |-> id, ct |-> ct])
        \in Seq([id : VaultId, ct : Ciphertext])
  BY <1>1, <1>2 DEF VaultState
<1>4. /\ state' \in VaultState
      /\ state'.identity_projections = Stored.identity_projections
  BY <1>1, <1>3 DEF RegisterVaultCiphertext, VaultState
<1>5. Derived(state)'
  BY <1>4 DEF Inv, Derived, Stored, EmptyVaultState
<1>6. QED
  BY <1>4, <1>5 DEF RegisterVaultCiphertext, Inv, TypeOK, Derived, DebitsAreOwn

LEMMA RegisterWithIdentityKeeps ==
  ASSUME Inv, NEW p \in Projections, NEW ct \in Deposits,
         RegisterVaultWithIdentity(p, ct)
  PROVE  Inv' /\ state' \in VaultState
<1> DEFINE id == DeriveVaultId(p)
           bindings == Append(Stored.identity_projections,
                              [id |-> id, projection |-> p])
<1>1. Stored \in VaultState
  BY StoredType DEF Inv
<1>2. ct \in Ciphertext /\ id \in VaultId
  BY LedgerAssumption DEF Ciphertext, VaultId
<1>3. Append(Stored.balances, [id |-> id, ct |-> ct])
        \in Seq([id : VaultId, ct : Ciphertext])
  BY <1>1, <1>2 DEF VaultState
<1>4. bindings \in Seq([id : VaultId, projection : Projections])
  BY <1>1, <1>2 DEF VaultState
<1>5. state' \in VaultState /\ state'.identity_projections = bindings
  BY <1>3, <1>4 DEF RegisterVaultWithIdentity, VaultState
<1>6. \A i \in DOMAIN bindings : bindings[i].id = DeriveVaultId(bindings[i].projection)
  <2>1. \A i \in DOMAIN Stored.identity_projections :
          Stored.identity_projections[i].id =
            DeriveVaultId(Stored.identity_projections[i].projection)
    BY DEF Inv, Derived, Stored, EmptyVaultState
  <2>2. Stored.identity_projections \in Seq([id : VaultId, projection : Projections])
    BY <1>1 DEF VaultState
  <2>3. QED
    BY <2>1, <2>2
<1>7. Derived(state)'
  BY <1>5, <1>6 DEF Derived
<1>8. QED
  BY <1>5, <1>7 DEF RegisterVaultWithIdentity, Inv, TypeOK, Derived, DebitsAreOwn

-----------------------------------------------------------------------------
(* A transfer leaves the bindings alone, and debits in somebody's name only*)
(* the vault that is derived from it.                                      *)
LEMMA TransferKeeps ==
  ASSUME Inv, NEW sender \in VaultId, NEW receiver \in VaultId,
         NEW ct \in Transferred, NEW by,
         by = Anyone \/ (by \in Projections /\ sender = DeriveVaultId(by)),
         HomomorphicTransfer(sender, receiver, ct, by)
  PROVE  Inv'
<1>1. PICK host_ok \in BOOLEAN :
        LET balances == Stored.balances
            code == TransferCode(sender, receiver, ct, host_ok)
        IN  /\ state' = IF code # "ERR_OK" THEN state ELSE
                        [state EXCEPT !.balances =
                           Moved(balances, First(balances, sender),
                                 First(balances, receiver), ct)]
            /\ debits' = IF code # "ERR_OK" \/ by = Anyone THEN debits
                         ELSE debits \cup {[vault |-> sender, by |-> by]}
            /\ UNCHANGED <<server_key, export_buffer, snapshot>>
  BY DEF HomomorphicTransfer
<1> DEFINE balances == Stored.balances
           si == First(balances, sender)
           ri == First(balances, receiver)
           code == TransferCode(sender, receiver, ct, host_ok)
<1>2. balances \in Seq([id : VaultId, ct : Ciphertext])
  BY StoredType DEF Inv, VaultState
<1>3. ASSUME code = "ERR_OK"
      PROVE  /\ state \in VaultState /\ state # NoState
             /\ Moved(balances, si, ri, ct) \in Seq([id : VaultId, ct : Ciphertext])
  <2>1. /\ Positions(balances, sender) # {}
        /\ Positions(balances, receiver) # {}
        /\ Malformed \notin {ct, balances[si].ct, balances[ri].ct}
    BY <1>3 DEF TransferCode
  <2>2. si \in DOMAIN balances /\ ri \in DOMAIN balances
    BY <1>2, <2>1, FirstIsThere
  <2>3. ct \in 0..(Modulus - 1)
    BY <2>1, LedgerAssumption
  <2>4. state # NoState
    BY <2>1 DEF Stored, EmptyVaultState, Positions
  <2>5. QED
    BY <1>2, <2>1, <2>2, <2>3, <2>4, MovedType DEF Inv, TypeOK
<1>4. /\ state' \in VaultState \cup {NoState}
      /\ Derived(state)'
  <2>1. CASE code # "ERR_OK"
    BY <1>1, <2>1 DEF Inv, TypeOK, Derived
  <2>2. CASE code = "ERR_OK"
    <3>1. state' = [state EXCEPT !.balances = Moved(balances, si, ri, ct)]
      BY <1>1, <2>2
    <3>2. /\ state' \in VaultState
          /\ state'.identity_projections = state.identity_projections
      BY <1>3, <2>2, <3>1 DEF VaultState
    <3>3. QED
      BY <1>3, <2>2, <3>2 DEF Inv, Derived
  <2>3. QED
    BY <2>1, <2>2
<1>5. /\ debits' \subseteq [vault : VaultId, by : Projections]
      /\ DebitsAreOwn'
  BY <1>1 DEF Inv, TypeOK, DebitsAreOwn
<1>6. QED
  BY <1>1, <1>4, <1>5 DEF Inv, TypeOK, Derived

(* Who is authenticated is the identity that the sender is derived from.   *)
LEMMA AuthenticatedIsOwner ==
  ASSUME Inv, NEW sender, NEW presented, NEW prover,
         Authenticated(sender, presented, prover)
  PROVE  sender = DeriveVaultId(prover)
<1> DEFINE bindings == Stored.identity_projections
<1>1. bindings \in Seq([id : VaultId, projection : Projections])
  BY StoredType DEF Inv, VaultState
<1>2. /\ First(bindings, sender) \in DOMAIN bindings
      /\ bindings[First(bindings, sender)].id = sender
  BY <1>1, FirstIsThere DEF Authenticated
<1>3. \A i \in DOMAIN bindings : bindings[i].id = DeriveVaultId(bindings[i].projection)
  BY DEF Inv, Derived, Stored, EmptyVaultState
<1>4. QED
  BY <1>2, <1>3 DEF Authenticated

-----------------------------------------------------------------------------
LEMMA InvStep == Inv /\ [Next]_vars => Inv'
<1> SUFFICES ASSUME Inv, [Next]_vars PROVE Inv'
  OBVIOUS
<1>1. ASSUME NEW valid \in BOOLEAN, InitVault(valid) PROVE Inv'
  BY <1>1, InitVaultKeeps
<1>2. ASSUME NEW id \in VaultId, NEW ct \in Deposits,
             RegisterVaultCiphertext(id, ct)
      PROVE  Inv'
  BY <1>2, RegisterKeeps
<1>3. ASSUME NEW p \in Projections, NEW ct \in Deposits,
             RegisterVaultWithIdentity(p, ct)
      PROVE  Inv'
  BY <1>3, RegisterWithIdentityKeeps
<1>4. CASE UNCHANGED vars
  BY <1>4 DEF Inv, TypeOK, Derived, DebitsAreOwn, vars
<1>5. CASE Transfer
  <2>1. PICK sender \in VaultId, receiver \in VaultId, ct \in Transferred :
          \/ HomomorphicTransfer(sender, receiver, ct, Anyone)
          \/ \E presented \in Projections, prover \in Projections :
               TransferAuthenticated(sender, receiver, ct, presented, prover)
    BY <1>5 DEF Transfer
  <2>2. CASE HomomorphicTransfer(sender, receiver, ct, Anyone)
    BY <2>2, TransferKeeps
  <2>3. ASSUME NEW presented \in Projections, NEW prover \in Projections,
               TransferAuthenticated(sender, receiver, ct, presented, prover)
        PROVE  Inv'
    <3>1. CASE Authenticated(sender, presented, prover)
      <4>1. sender = DeriveVaultId(prover)
        BY <3>1, AuthenticatedIsOwner
      <4>2. QED
        BY <2>3, <3>1, <4>1, TransferKeeps DEF TransferAuthenticated
    <3>2. CASE ~Authenticated(sender, presented, prover)
      BY <1>4, <2>3, <3>2 DEF TransferAuthenticated
    <3>3. QED
      BY <3>1, <3>2
  <2>4. QED
    BY <2>1, <2>2, <2>3
<1>6. CASE ExportVaultStateLen
  BY <1>6 DEF ExportVaultStateLen, Inv, TypeOK, Derived, DebitsAreOwn
<1>7. CASE Persist
  BY <1>7 DEF Persist, Inv, TypeOK, Derived, DebitsAreOwn
<1>8. ASSUME NEW bytes \in {snapshot, Foreign}, ImportVaultState(bytes)
      PROVE  Inv'
  BY <1>8 DEF ImportVaultState, Inv, TypeOK, Derived, DebitsAreOwn
<1>9. CASE Restart
  BY <1>9 DEF Restart, Inv, TypeOK, Derived, DebitsAreOwn
<1>10. QED
  BY <1>1, <1>2, <1>3, <1>4, <1>5, <1>6, <1>7, <1>8, <1>9 DEF Next

LEMMA AlwaysInv == Spec => []Inv
  BY InvInit, InvStep, PTL DEF Spec

(* The types of the variables (VaultLedger): TypeOK.                       *)
THEOREM TypeCorrect == Spec => []TypeOK
<1>1. Inv => TypeOK
  BY DEF Inv
<1>2. QED
  BY <1>1, AlwaysInv, PTL

(* An authenticated transfer debits a vault only under its own identity's  *)
(* proof, through registrations of the same ID, imports and restarts       *)
(* (vault.rs homomorphic_transfer_authenticated): DebitsAreOwn.            *)
THEOREM OwnersDebit == Spec => []DebitsAreOwn
<1>1. Inv => DebitsAreOwn
  BY DEF Inv
<1>2. QED
  BY <1>1, AlwaysInv, PTL

-----------------------------------------------------------------------------
(* What shows of a ledger: the first entry of each ID, and what those that *)
(* are usable are worth together.                                          *)

Entry == [id : VaultId, ct : Ciphertext]

Shown(balances) ==
  [id \in {balances[i].id : i \in DOMAIN balances} |->
     balances[First(balances, id)].ct]

Usable(held) == {id \in DOMAIN held : held[id] # Malformed}

Worth(held) == SumOf(held, Usable(held))

LEMMA VisibleIs ==
  ASSUME NEW s
  PROVE  Visible(s) = Shown(IF s = NoState THEN <<>> ELSE s.balances)
<1>1. CASE s = NoState
  <2>1. DOMAIN <<>> = {}
    OBVIOUS
  <2>2. {(<<>>)[i].id : i \in DOMAIN <<>>} = {}
    BY <2>1
  <2>3. QED
    BY <1>1, <2>2 DEF Visible, Shown
<1>2. CASE s # NoState
  BY <1>2 DEF Visible, Shown
<1>3. QED
  BY <1>1, <1>2

LEMMA TotalIs == ASSUME NEW s PROVE Total(s) = Worth(Visible(s))
<1> DEFINE held == Visible(s)
           usable == {id \in DOMAIN held : held[id] # Malformed}
<1>1. Total(s) = (CHOOSE it : it = [x \in SUBSET usable |->
                    IF x = {} THEN 0 ELSE held[Pick(x)] + it[x \ {Pick(x)}]])[usable]
  BY DEF Total, MapThenSumSet, MapThenFoldSet, Pick
<1>2. QED
  BY <1>1 DEF Worth, Usable, SumOf, IsSum

(* The entries of a ledger, and what shows of them.                        *)
LEMMA ShownType ==
  ASSUME NEW balances \in Seq(Entry)
  PROVE  /\ DOMAIN balances = 1..Len(balances) /\ Len(balances) \in Nat
         /\ \A i \in DOMAIN balances : balances[i] \in Entry
         /\ DOMAIN Shown(balances) \subseteq VaultId
         /\ \A id : id \in DOMAIN Shown(balances) <=> Positions(balances, id) # {}
         /\ \A id \in DOMAIN Shown(balances) :
              /\ First(balances, id) \in DOMAIN balances
              /\ balances[First(balances, id)].id = id
              /\ Shown(balances)[id] = balances[First(balances, id)].ct
              /\ Shown(balances)[id] \in Ciphertext
         /\ IsFiniteSet(DOMAIN Shown(balances))
<1> DEFINE Ids == {balances[i].id : i \in DOMAIN balances}
<1>1. DOMAIN balances = 1..Len(balances) /\ Len(balances) \in Nat
  OBVIOUS
<1>2. \A i \in DOMAIN balances : balances[i] \in Entry
  BY EntryOfSeq
<1>3. DOMAIN Shown(balances) = Ids
  BY DEF Shown
<1>4. Ids \subseteq VaultId
  BY <1>2 DEF Entry
<1>5. \A id : id \in Ids <=> Positions(balances, id) # {}
  BY DEF Positions
<1>6. ASSUME NEW id \in Ids
      PROVE  /\ First(balances, id) \in DOMAIN balances
             /\ balances[First(balances, id)].id = id
             /\ Shown(balances)[id] = balances[First(balances, id)].ct
             /\ Shown(balances)[id] \in Ciphertext
  <2>1. First(balances, id) \in DOMAIN balances /\ balances[First(balances, id)].id = id
    BY <1>5, <1>6, FirstIsThere
  <2>2. Shown(balances)[id] = balances[First(balances, id)].ct
    BY <1>6 DEF Shown
  <2>3. balances[First(balances, id)] \in Entry
    BY <1>2, <2>1
  <2>4. QED
    BY <2>1, <2>2, <2>3 DEF Entry
<1>7. IsFiniteSet(Ids)
  <2>1. IsFiniteSet(DOMAIN balances)
    BY <1>1, FS_Interval
  <2> DEFINE D == DOMAIN balances
             IdAt(i) == balances[i].id
  <2>2. IsFiniteSet({IdAt(i) : i \in D})
    <3>1. [i \in D |-> IdAt(i)] \in Surjection(D, {IdAt(i) : i \in D})
      BY DEF Surjection
    <3>2. QED
      BY <2>1, <3>1, FS_Surjection
  <2>3. QED
    BY <2>2
<1> HIDE DEF Ids
<1>8. QED
  BY <1>1, <1>2, <1>3, <1>4, <1>5, <1>6, <1>7

(* What is worth something is a number.                                    *)
LEMMA WorthType ==
  ASSUME NEW balances \in Seq(Entry)
  PROVE  LET held == Shown(balances)
         IN  /\ Usable(held) \subseteq DOMAIN held /\ IsFiniteSet(Usable(held))
             /\ \A id \in Usable(held) : held[id] \in 0..(Modulus - 1) /\ held[id] \in Nat
             /\ Worth(held) \in Nat
<1> DEFINE held == Shown(balances)
<1>1. Usable(held) \subseteq DOMAIN held
  BY DEF Usable
<1>2. IsFiniteSet(DOMAIN held) /\ \A id \in DOMAIN held : held[id] \in Ciphertext
  BY ShownType
<1>3. IsFiniteSet(Usable(held))
  BY <1>1, <1>2, FS_Subset
<1>4. \A x \in 0..(Modulus - 1) : x \in Nat
  BY LedgerAssumption
<1>5. \A id \in Usable(held) : held[id] \in 0..(Modulus - 1) /\ held[id] \in Nat
  BY <1>1, <1>2, <1>4 DEF Usable, Ciphertext
<1> HIDE DEF held
<1>6. Worth(held) \in Nat
  BY <1>3, <1>5, SumType DEF Worth
<1>7. QED
  BY <1>1, <1>3, <1>5, <1>6 DEF held

LEMMA LeastIsMin ==
  ASSUME NEW S, S \subseteq Nat, NEW m \in S, \A x \in S : m <= x
  PROVE  Min(S) = m
<1>1. Min(S) \in S /\ \A x \in S : Min(S) <= x
  BY DEF Min
<1>2. Min(S) <= m /\ m <= Min(S) /\ Min(S) \in Nat /\ m \in Nat
  BY <1>1
<1>3. QED
  BY <1>2

-----------------------------------------------------------------------------
(* Registrations.                                                          *)

(* The first entry of an ID shows its amount, a later one does not.        *)
Adds(held, e, next) ==
  /\ DOMAIN next = DOMAIN held \cup {e.id}
  /\ \A id \in DOMAIN held : next[id] = held[id]
  /\ e.id \notin DOMAIN held => next[e.id] = e.ct
  /\ e.id \in DOMAIN held => next = held

LEMMA ShownAppended ==
  ASSUME NEW balances \in Seq(Entry), NEW e \in Entry,
         NEW more, more = Append(balances, e)
  PROVE  /\ more \in Seq(Entry) /\ Len(more) = Len(balances) + 1
         /\ Adds(Shown(balances), e, Shown(more))
<1> DEFINE n == Len(balances) + 1
           Ids == DOMAIN Shown(balances)
<1>1. /\ DOMAIN balances = 1..Len(balances) /\ DOMAIN more = 1..n /\ Len(more) = n
      /\ Len(balances) \in Nat /\ more \in Seq(Entry)
      /\ \A i \in DOMAIN balances : more[i] = balances[i]
      /\ more[n] = e
  BY AppendProperties, LenProperties
<1>2. /\ DOMAIN more = DOMAIN balances \cup {n} /\ n \notin DOMAIN balances
      /\ n \in Nat /\ \A i \in DOMAIN balances : i \in Nat /\ i < n
  BY <1>1
<1>3. DOMAIN Shown(more) = Ids \cup {e.id}
  <2>1. \A id : id \in DOMAIN Shown(more) <=> \E i \in DOMAIN more : more[i].id = id
    BY DEF Shown
  <2>2. \A id : id \in Ids <=> \E i \in DOMAIN balances : balances[i].id = id
    BY DEF Shown
  <2>3. \A id : id \in DOMAIN Shown(more) <=> id \in Ids \/ id = e.id
    <3>1. ASSUME NEW id, id \in DOMAIN Shown(more) PROVE id \in Ids \/ id = e.id
      BY <1>1, <1>2, <2>1, <2>2, <3>1
    <3>2. ASSUME NEW id \in Ids PROVE id \in DOMAIN Shown(more)
      BY <1>1, <1>2, <2>1, <2>2, <3>2
    <3>3. e.id \in DOMAIN Shown(more)
      BY <1>1, <1>2, <2>1
    <3>4. QED
      BY <3>1, <3>2, <3>3
  <2> HIDE DEF Ids
  <2>4. QED
    BY <2>3
<1>4. \A id : Positions(more, id)
                = Positions(balances, id) \cup (IF id = e.id THEN {n} ELSE {})
  BY <1>1, <1>2 DEF Positions
<1>5. \A id : id \in Ids <=> Positions(balances, id) # {}
  BY ShownType
<1>6. ASSUME NEW id \in Ids PROVE Shown(more)[id] = Shown(balances)[id]
  <2> DEFINE m == First(balances, id)
  <2>1. m \in Positions(balances, id) /\ m \in DOMAIN balances
    BY <1>5, <1>6, FirstIsThere DEF Positions
  <2>2. \A x \in Positions(balances, id) : m <= x
    BY <1>2, <2>1, FirstIsLeast
  <2>3. First(more, id) = m
    <3>1. /\ Positions(more, id) \subseteq Nat /\ m \in Positions(more, id)
          /\ \A x \in Positions(more, id) : m <= x
      BY <1>1, <1>2, <1>4, <2>1, <2>2 DEF Positions
    <3> HIDE DEF m
    <3>2. QED
      BY <3>1, LeastIsMin DEF First
  <2>4. id \in DOMAIN Shown(more)
    BY <1>3
  <2>5. Shown(more)[id] = more[m].ct /\ Shown(balances)[id] = balances[m].ct
    BY <2>3, <2>4, <1>6 DEF Shown
  <2>6. QED
    BY <1>1, <2>1, <2>5
<1>7. ASSUME e.id \notin Ids PROVE Shown(more)[e.id] = e.ct
  <2>1. Positions(more, e.id) = {n}
    BY <1>4, <1>5, <1>7
  <2>2. First(more, e.id) = n
    <3> DEFINE P == Positions(more, e.id)
    <3>1. P \subseteq Nat /\ n \in P /\ \A x \in P : n <= x
      BY <1>2, <2>1
    <3> HIDE DEF n, P
    <3>2. Min(P) = n
      BY <3>1, LeastIsMin
    <3>3. QED
      BY <3>2 DEF First, P
  <2>3. e.id \in DOMAIN Shown(more)
    BY <1>3
  <2>4. Shown(more)[e.id] = more[First(more, e.id)].ct
    BY <2>3 DEF Shown
  <2>5. QED
    BY <1>1, <2>2, <2>4
<1>8. /\ \E D : Shown(balances) = [id \in D |-> Shown(balances)[id]]
      /\ \E D : Shown(more) = [id \in D |-> Shown(more)[id]]
  BY DEF Shown
<1>9. QED
  <2>1. ASSUME e.id \in Ids PROVE Shown(more) = Shown(balances)
    <3>1. Ids \cup {e.id} = Ids
      BY <2>1
    <3> HIDE DEF Ids
    <3>2. /\ Shown(balances) = [id \in Ids |-> Shown(balances)[id]]
          /\ Shown(more) = [id \in Ids |-> Shown(more)[id]]
      BY <1>3, <1>8, <3>1 DEF Ids
    <3>3. QED
      BY <1>6, <3>2
  <2>2. QED
    BY <1>1, <1>3, <1>6, <1>7, <2>1 DEF Adds

(* A registration adds its deposit to the total, or nothing.               *)
LEMMA WorthAppended ==
  ASSUME NEW balances \in Seq(Entry), NEW e \in Entry, NEW D \in Nat,
         e.ct # Malformed => e.ct <= D, NEW more, more = Append(balances, e)
  PROVE  Worth(Shown(more)) <= Worth(Shown(balances)) + D
<1> DEFINE held == Shown(balances)
           next == Shown(more)
<1>0. more \in Seq(Entry) /\ Adds(held, e, next)
  BY ShownAppended
<1>1. /\ IsFiniteSet(Usable(held)) /\ \A id \in Usable(held) : held[id] \in Nat
      /\ Worth(held) \in Nat /\ Usable(held) \subseteq DOMAIN held
      /\ \A id \in Usable(next) : next[id] \in Nat
  BY <1>0, WorthType
<1>2. CASE e.id \in DOMAIN held
  <2>1. next = held
    BY <1>0, <1>2 DEF Adds
  <2> HIDE DEF next, held
  <2>2. QED
    BY <1>1, <2>1 DEF next, held
<1>3. CASE e.id \notin DOMAIN held
  <2> HIDE DEF next, held
  <2>2. /\ \A id \in DOMAIN held : next[id] = held[id]
        /\ DOMAIN next = DOMAIN held \cup {e.id}
        /\ next[e.id] = e.ct
    BY <1>0, <1>3 DEF Adds
  <2>4. SumOf(next, Usable(held)) = Worth(held)
    BY <1>1, <2>2, SumSame DEF Worth
  <2>5. CASE e.ct = Malformed
    <3>1. Usable(next) = Usable(held)
      BY <1>3, <2>2, <2>5 DEF Usable
    <3>2. Worth(next) = Worth(held)
      BY <2>4, <3>1 DEF Worth
    <3>3. QED
      BY <1>1, <3>2 DEF next, held
  <2>6. CASE e.ct # Malformed
    <3>1. Usable(next) = Usable(held) \cup {e.id} /\ e.id \notin Usable(held)
      BY <1>3, <2>2, <2>6 DEF Usable
    <3>2. \A id \in Usable(held) \cup {e.id} : next[id] \in Nat
      BY <1>1, <3>1
    <3>3. Worth(next) = SumOf(next, Usable(held)) + next[e.id]
      <4>1. SumOf(next, Usable(held) \cup {e.id}) = SumOf(next, Usable(held)) + next[e.id]
        BY <1>1, <3>1, <3>2, SumAdd
      <4>2. QED
        BY <3>1, <4>1 DEF Worth
    <3>4. next[e.id] \in Nat /\ next[e.id] <= D
      BY <2>2, <2>6, <3>2
    <3>5. Worth(next) <= Worth(held) + D
      BY <1>1, <2>4, <3>3, <3>4
    <3>6. QED
      BY <3>5 DEF next, held
  <2>7. QED
    BY <2>5, <2>6
<1>4. QED
  BY <1>2, <1>3

-----------------------------------------------------------------------------
(* Transfers.                                                              *)

(* Two accounts hold no more than all of them.                             *)
LEMMA TwoAccounts ==
  ASSUME NEW S, IsFiniteSet(S), NEW v, \A x \in S : v[x] \in Nat,
         NEW y \in S, NEW z \in S, y # z
  PROVE  /\ SumOf(v, (S \ {y}) \ {z}) \in Nat
         /\ SumOf(v, S) = v[y] + (v[z] + SumOf(v, (S \ {y}) \ {z}))
         /\ v[y] + v[z] <= SumOf(v, S)
<1> DEFINE rest == SumOf(v, (S \ {y}) \ {z})
<1>1. IsFiniteSet(S \ {y}) /\ z \in S \ {y}
  BY Without
<1>2. IsFiniteSet((S \ {y}) \ {z})
  BY <1>1, Without
<1>3. SumOf(v, S) = v[y] + SumOf(v, S \ {y})
  BY SumRemove
<1>4. SumOf(v, S \ {y}) = v[z] + rest
  BY <1>1, SumRemove
<1>5. rest \in Nat
  BY <1>2, SumType
<1> HIDE DEF rest
<1>6. v[y] + v[z] <= v[y] + (v[z] + rest)
  BY <1>5
<1>7. QED
  BY <1>3, <1>4, <1>5, <1>6 DEF rest

(* The amount leaves one entry and arrives in another.                     *)
MovesEntries(balances, si, ri, amount, moved) ==
  /\ DOMAIN moved = DOMAIN balances /\ Len(moved) = Len(balances)
  /\ \A i \in DOMAIN balances : moved[i].id = balances[i].id
  /\ \A i \in DOMAIN balances \ {si, ri} : moved[i] = balances[i]
  /\ moved[si].ct = balances[si].ct - amount
  /\ moved[ri].ct = balances[ri].ct + amount
  /\ moved \in Seq(Entry)

(* What a transfer between two entries does when their sum fits the width: *)
(* neither the subtraction nor the addition wraps.                         *)
LEMMA MovedEntries ==
  ASSUME NEW balances \in Seq(Entry),
         NEW si \in DOMAIN balances, NEW ri \in DOMAIN balances, si # ri,
         NEW amount \in 0..(Modulus - 1),
         NEW s \in 0..(Modulus - 1), NEW r \in 0..(Modulus - 1),
         s = balances[si].ct, r = balances[ri].ct, s + r < Modulus,
         NEW deduction, deduction = Deduction(s, amount),
         NEW moved, moved = Moved(balances, si, ri, amount)
  PROVE  /\ deduction \in 0..(Modulus - 1) /\ deduction <= s
         /\ MovesEntries(balances, si, ri, deduction, moved)
<1>1. \A i \in DOMAIN balances : balances[i] \in Entry
  BY ShownType
<1>2. moved \in Seq(Entry)
  BY MovedType, LedgerAssumption DEF Entry
<1>3. Modulus \in Nat /\ Modulus > 0
  BY LedgerAssumption
<1>4. deduction \in 0..(Modulus - 1) /\ deduction <= s
  BY <1>3 DEF Deduction
<1>5. s - deduction \in 0..(Modulus - 1) /\ r + deduction \in 0..(Modulus - 1)
  BY <1>3, <1>4
<1>6. \A x \in 0..(Modulus - 1) : x % Modulus = x
  BY <1>3
<1>7. moved = [[balances EXCEPT ![si].ct = s - deduction] EXCEPT ![ri].ct = r + deduction]
  BY <1>5, <1>6 DEF Moved
<1> DEFINE once == [balances EXCEPT ![si].ct = s - deduction]
<1>8. /\ DOMAIN once = DOMAIN balances
      /\ \A i \in DOMAIN balances \ {si} : once[i] = balances[i]
      /\ once[si] = [balances[si] EXCEPT !.ct = s - deduction]
  OBVIOUS
<1>9. /\ DOMAIN moved = DOMAIN balances
      /\ \A i \in DOMAIN balances \ {ri} : moved[i] = once[i]
      /\ moved[ri] = [once[ri] EXCEPT !.ct = r + deduction]
  BY <1>7, <1>8
<1>10. once[si].ct = s - deduction /\ once[si].id = balances[si].id
  BY <1>1, <1>8 DEF Entry
<1>11. moved[ri].ct = r + deduction /\ moved[ri].id = balances[ri].id
  BY <1>1, <1>8, <1>9 DEF Entry
<1>12. moved[si].ct = s - deduction /\ moved[si].id = balances[si].id
  BY <1>9, <1>10
<1>13. \A i \in DOMAIN balances \ {si, ri} : moved[i] = balances[i]
  BY <1>8, <1>9
<1>14. \A i \in DOMAIN balances : moved[i].id = balances[i].id
  BY <1>11, <1>12, <1>13
<1>15. Len(moved) = Len(balances)
  BY <1>2, <1>9
<1>16. QED
  BY <1>2, <1>4, <1>9, <1>11, <1>12, <1>13, <1>14, <1>15 DEF MovesEntries

(* What shows of it: the amount leaves one account and arrives in another. *)
Moves(held, from, to, amount, next) ==
  /\ DOMAIN next = DOMAIN held
  /\ next[from] = held[from] - amount
  /\ next[to] = held[to] + amount
  /\ \A id \in DOMAIN held \ {from, to} : next[id] = held[id]

LEMMA ShownMoved ==
  ASSUME NEW balances \in Seq(Entry), NEW held, held = Shown(balances),
         NEW from \in DOMAIN held, NEW to \in DOMAIN held, from # to,
         NEW amount \in 0..(Modulus - 1),
         held[from] # Malformed, held[to] # Malformed, Worth(held) < Modulus,
         NEW deduction, deduction = Deduction(held[from], amount),
         NEW moved,
         moved = Moved(balances, First(balances, from), First(balances, to), amount)
  PROVE  /\ deduction \in 0..(Modulus - 1) /\ deduction <= held[from]
         /\ moved \in Seq(Entry) /\ Len(moved) = Len(balances)
         /\ Moves(held, from, to, deduction, Shown(moved))
<1> DEFINE si == First(balances, from)
           ri == First(balances, to)
<1>1. /\ si \in DOMAIN balances /\ balances[si].id = from
      /\ ri \in DOMAIN balances /\ balances[ri].id = to
      /\ held[from] = balances[si].ct /\ held[to] = balances[ri].ct
  BY ShownType
<1>2. si # ri
  BY <1>1
<1>3. /\ from \in Usable(held) /\ to \in Usable(held)
      /\ IsFiniteSet(Usable(held))
      /\ \A id \in Usable(held) : held[id] \in 0..(Modulus - 1) /\ held[id] \in Nat
      /\ Worth(held) \in Nat
  BY WorthType DEF Usable
<1>4. held[from] + held[to] < Modulus
  <2>1. held[from] + held[to] <= Worth(held)
    BY <1>3, TwoAccounts DEF Worth
  <2>2. QED
    BY <1>3, <2>1, LedgerAssumption
<1>5. /\ deduction \in 0..(Modulus - 1) /\ deduction <= held[from]
      /\ DOMAIN moved = DOMAIN balances /\ Len(moved) = Len(balances)
      /\ \A i \in DOMAIN balances : moved[i].id = balances[i].id
      /\ \A i \in DOMAIN balances \ {si, ri} : moved[i] = balances[i]
      /\ moved[si].ct = held[from] - deduction
      /\ moved[ri].ct = held[to] + deduction
      /\ moved \in Seq(Entry)
  <2> DEFINE s == held[from]
             r == held[to]
  <2>1. /\ s \in 0..(Modulus - 1) /\ r \in 0..(Modulus - 1) /\ s + r < Modulus
        /\ s = balances[si].ct /\ r = balances[ri].ct /\ deduction = Deduction(s, amount)
        /\ si \in DOMAIN balances /\ ri \in DOMAIN balances
        /\ moved = Moved(balances, si, ri, amount)
    BY <1>1, <1>3, <1>4
  <2> HIDE DEF si, ri, s, r
  <2>2. /\ deduction \in 0..(Modulus - 1) /\ deduction <= s
        /\ MovesEntries(balances, si, ri, deduction, moved)
    BY <1>2, <2>1, MovedEntries
  <2>3. QED
    BY <1>1, <2>2 DEF si, ri, s, r, MovesEntries
<1>6. \A id : Positions(moved, id) = Positions(balances, id)
  BY <1>5 DEF Positions
<1>7. \A id : First(moved, id) = First(balances, id)
  BY <1>6 DEF First
<1>8. DOMAIN Shown(moved) = DOMAIN held
  <2>1. \A id : id \in DOMAIN Shown(moved) <=> Positions(moved, id) # {}
    BY <1>5, ShownType
  <2>2. \A id : id \in DOMAIN held <=> Positions(balances, id) # {}
    BY ShownType
  <2>3. QED
    BY <1>6, <2>1, <2>2
<1>9. \A id \in DOMAIN held : Shown(moved)[id] = moved[First(balances, id)].ct
  BY <1>5, <1>7, <1>8, ShownType
<1>10. ASSUME NEW id \in DOMAIN held \ {from, to}
       PROVE  Shown(moved)[id] = held[id]
  <2>1. /\ First(balances, id) \in DOMAIN balances
        /\ balances[First(balances, id)].id = id
        /\ held[id] = balances[First(balances, id)].ct
    BY ShownType
  <2>2. First(balances, id) \notin {si, ri}
    BY <1>1, <2>1
  <2>3. QED
    BY <1>5, <1>9, <2>1, <2>2
<1>11. Moves(held, from, to, deduction, Shown(moved))
  BY <1>5, <1>8, <1>9, <1>10 DEF Moves
<1>12. QED
  BY <1>5, <1>11

(* The total stays.                                                        *)
LEMMA WorthMoved ==
  ASSUME NEW balances \in Seq(Entry), NEW held, held = Shown(balances),
         NEW from \in Usable(held), NEW to \in Usable(held), from # to,
         Worth(held) < Modulus, NEW amount \in Nat, amount <= held[from],
         NEW next, Moves(held, from, to, amount, next)
  PROVE  Usable(next) = Usable(held) /\ Worth(next) = Worth(held)
<1>1. /\ IsFiniteSet(Usable(held)) /\ Usable(held) \subseteq DOMAIN held
      /\ \A id \in Usable(held) : held[id] \in 0..(Modulus - 1) /\ held[id] \in Nat
  BY WorthType
<1>2. held[to] + amount \in 0..(Modulus - 1) /\ held[from] - amount \in 0..(Modulus - 1)
  <2>1. held[from] + held[to] <= Worth(held)
    BY <1>1, TwoAccounts DEF Worth
  <2>2. Worth(held) \in Nat /\ Modulus \in Nat
    BY WorthType, LedgerAssumption
  <2>3. held[from] \in Nat /\ held[to] \in Nat /\ held[from] < Modulus
    BY <1>1, <2>2
  <2>4. QED
    BY <2>1, <2>2, <2>3
<1>3. /\ next[from] = held[from] - amount /\ next[to] = held[to] + amount
      /\ \A id \in DOMAIN held \ {from, to} : next[id] = held[id]
      /\ DOMAIN next = DOMAIN held
  BY DEF Moves
<1>4. next[from] # Malformed /\ next[to] # Malformed
  BY <1>2, <1>3, LedgerAssumption
<1>5. Usable(next) = Usable(held)
  BY <1>3, <1>4 DEF Usable
<1> DEFINE S == Usable(held)
           others == (S \ {from}) \ {to}
<1>6. \A id \in S : next[id] \in Nat
  <2>1. \A x \in 0..(Modulus - 1) : x \in Nat
    BY LedgerAssumption
  <2>2. \A id \in S : id \in DOMAIN held \ {from, to} => next[id] \in Nat
    BY <1>1, <1>3
  <2>3. QED
    BY <1>1, <1>2, <1>3, <2>1, <2>2
<1>7. IsFiniteSet(others) /\ \A id \in others : next[id] = held[id]
  BY <1>1, <1>3, FS_Subset
<1> HIDE DEF S
<1>8. from \in S /\ to \in S /\ IsFiniteSet(S) /\ \A id \in S : held[id] \in Nat
  BY <1>1 DEF S
<1>9. /\ SumOf(held, S) = held[from] + (held[to] + SumOf(held, others))
      /\ SumOf(held, others) \in Nat
  BY <1>8, TwoAccounts
<1>10. SumOf(next, S) = next[from] + (next[to] + SumOf(next, others))
  BY <1>6, <1>8, TwoAccounts
<1>11. SumOf(next, others) = SumOf(held, others)
  BY <1>7, SumSame
<1>12. SumOf(next, S) = SumOf(held, S)
  <2> DEFINE rest == SumOf(held, others)
  <2>1. SumOf(next, S) = (held[from] - amount) + ((held[to] + amount) + rest)
    BY <1>3, <1>10, <1>11
  <2>2. SumOf(held, S) = held[from] + (held[to] + rest) /\ rest \in Nat
    BY <1>9
  <2> HIDE DEF rest
  <2>3. QED
    BY <1>8, <2>1, <2>2
<1>13. QED
  BY <1>5, <1>12 DEF S, Worth

-----------------------------------------------------------------------------
(* What is stored, exported or kept has as many entries as the ledger      *)
(* takes at most, and what they show is worth no more than that many       *)
(* deposits.                                                               *)

(* No deposit is above D, and a full ledger of them fits the width.        *)
TotalsFit(D) ==
  /\ D \in Nat
  /\ \A ct \in Deposits \ {Malformed} : ct <= D
  /\ MaxRegistrations * D < Modulus

Fits(s, D) ==
  s # NoState => /\ Len(s.balances) <= MaxRegistrations
                 /\ Worth(Shown(s.balances)) <= Len(s.balances) * D

FitsInv(D) ==
  /\ Inv
  /\ Fits(state, D) /\ Fits(export_buffer, D) /\ Fits(snapshot, D)

Saved == {Visible(s) : s \in {export_buffer, snapshot} \ {NoState}}

Refines == [Ledger!Next]_<<Visible(state), Saved>>

LEMMA StoredFits ==
  ASSUME NEW D, TotalsFit(D), FitsInv(D)
  PROVE  /\ Stored.balances \in Seq(Entry)
         /\ Visible(state) = Shown(Stored.balances)
         /\ Len(Stored.balances) \in Nat
         /\ Worth(Visible(state)) \in Nat
         /\ Worth(Visible(state)) <= Len(Stored.balances) * D
         /\ Worth(Visible(state)) < Modulus
<1>1. Stored.balances \in Seq(Entry) /\ Len(Stored.balances) \in Nat
  BY StoredType DEF FitsInv, Inv, VaultState, Entry
<1>2. Visible(state) = Shown(Stored.balances)
  BY VisibleIs DEF Stored, EmptyVaultState
<1>3. Worth(Visible(state)) \in Nat
  BY <1>1, <1>2, WorthType
<1>4. /\ Worth(Visible(state)) <= Len(Stored.balances) * D
      /\ Len(Stored.balances) <= MaxRegistrations
  <2>1. CASE state = NoState
    <3>1. Stored.balances = <<>>
      BY <2>1 DEF Stored, EmptyVaultState
    <3>2. DOMAIN Shown(<<>>) = {}
      BY DEF Shown
    <3>3. Usable(Shown(<<>>)) = {}
      BY <3>2 DEF Usable
    <3>4. Worth(Shown(<<>>)) = 0
      BY <3>3, SumEmpty DEF Worth
    <3>5. Len(<<>>) = 0 /\ 0 * D = 0
      BY DEF TotalsFit
    <3>6. QED
      BY <1>2, <3>1, <3>4, <3>5, LedgerAssumption
  <2>2. CASE state # NoState
    BY <1>2, <2>2 DEF FitsInv, Fits, Stored
  <2>3. QED
    BY <2>1, <2>2
<1>5. Worth(Visible(state)) < Modulus
  <2> DEFINE n == Len(Stored.balances)
             w == Worth(Visible(state))
             k == MaxRegistrations - n
  <2>1. k \in Nat /\ n \in Nat /\ w \in Nat /\ D \in Nat /\ Modulus \in Nat
    BY <1>1, <1>3, <1>4, LedgerAssumption DEF TotalsFit
  <2>2. MaxRegistrations = n + k
    BY <1>1, LedgerAssumption
  <2> HIDE DEF n, w, k
  <2>3. k * D \in Nat /\ n * D \in Nat /\ (n + k) * D = n * D + k * D
    BY <2>1
  <2>4. w <= n * D /\ (n + k) * D < Modulus
    BY <1>4, <2>2 DEF n, w, TotalsFit
  <2>5. w < Modulus
    BY <2>1, <2>3, <2>4
  <2>6. QED
    BY <2>5 DEF w
<1>6. QED
  BY <1>1, <1>2, <1>3, <1>4, <1>5

(* A state is shown by its entries.                                        *)
LEMMA StateShows ==
  ASSUME NEW s \in VaultState
  PROVE  s # NoState /\ Visible(s) = Shown(s.balances)
BY VisibleIs, StateAssumption

-----------------------------------------------------------------------------
(* A registration opens an account, or nothing of it shows.                *)
LEMMA RegisterRefines ==
  ASSUME NEW D, TotalsFit(D), FitsInv(D), Inv',
         NEW e \in Entry, e.ct \in Deposits,
         Len(Stored.balances) < MaxRegistrations,
         NEW new, new = state', new \in VaultState,
         new.balances = Append(Stored.balances, e),
         UNCHANGED <<export_buffer, snapshot>>
  PROVE  FitsInv(D)' /\ Refines
<1> DEFINE balances == Stored.balances
           more == Append(balances, e)
           held == Visible(state)
           next == Visible(new)
<1>1. /\ balances \in Seq(Entry) /\ held = Shown(balances)
      /\ Len(balances) \in Nat /\ Worth(held) \in Nat
      /\ Worth(held) <= Len(balances) * D
  BY StoredFits
<1>2. new # NoState /\ next = Shown(more)
  BY StateShows
<1>3. /\ more \in Seq(Entry) /\ Len(more) = Len(balances) + 1
      /\ Adds(held, e, next)
  <2> HIDE DEF balances, held, next, more
  <2>1. more = Append(balances, e)
    BY DEF more
  <2>2. QED
    BY <1>1, <1>2, <2>1, ShownAppended
<1>4. Worth(next) <= Worth(held) + D /\ Worth(next) \in Nat
  <2>1. D \in Nat /\ (e.ct # Malformed => e.ct <= D)
    BY DEF TotalsFit
  <2> HIDE DEF balances, held, next, more
  <2>2. more = Append(balances, e)
    BY DEF more
  <2>3. QED
    BY <1>1, <1>2, <1>3, <2>1, <2>2, WorthAppended, WorthType
<1>5. Fits(new, D)
  <2> DEFINE n == Len(balances)
             w == Worth(held)
             x == Worth(next)
  <2>1. /\ n \in Nat /\ w \in Nat /\ x \in Nat /\ D \in Nat
        /\ w <= n * D /\ x <= w + D
    BY <1>1, <1>4 DEF TotalsFit
  <2>2. n + 1 <= MaxRegistrations /\ Len(more) = n + 1
    BY <1>3, <2>1, LedgerAssumption
  <2> HIDE DEF n, w, x
  <2>3. n * D \in Nat /\ (n + 1) * D = n * D + D
    BY <2>1
  <2>4. x <= (n + 1) * D
    BY <2>1, <2>3
  <2>5. QED
    BY <1>2, <2>2, <2>4 DEF x, Fits
<1>6. FitsInv(D)'
  BY <1>5 DEF FitsInv, Fits
<1>7. Refines
  <2>1. Saved' = Saved
    BY DEF Saved
  <2>2. Visible(state)' = next
    BY VisibleIs DEF Visible
  <2>3. CASE e.id \in DOMAIN held
    <3>1. next = held
      BY <1>3, <2>3 DEF Adds
    <3>2. QED
      BY <2>1, <2>2, <3>1 DEF Refines
  <2>4. CASE e.id \notin DOMAIN held
    <3>1. e.id \in VaultId /\ e.ct \in 0..(Modulus - 1) \cup {Malformed}
      BY LedgerAssumption DEF Entry, Ciphertext
    <3>2. next = [id \in DOMAIN held \cup {e.id} |-> IF id = e.id THEN e.ct ELSE held[id]]
      <4>1. next = [id \in DOMAIN next |-> next[id]]
        BY <1>2 DEF Shown
      <4> HIDE DEF next, held
      <4>2. QED
        BY <1>3, <2>4, <4>1 DEF Adds
    <3>3. Ledger!Open(e.id, e.ct)
      BY <2>1, <2>2, <2>4, <3>2 DEF Ledger!Open, Saved
    <3>4. QED
      BY <3>1, <3>3 DEF Ledger!Next, Refines
  <2>5. QED
    BY <2>3, <2>4
<1>8. QED
  BY <1>6, <1>7

(* A transfer between different vaults moves what is deducted, or nothing. *)
LEMMA TransferRefines ==
  ASSUME NEW D, TotalsFit(D), FitsInv(D), Inv',
         NEW sender \in VaultId, NEW receiver \in VaultId, sender # receiver,
         NEW ct \in Transferred, NEW by,
         HomomorphicTransfer(sender, receiver, ct, by)
  PROVE  /\ FitsInv(D)' /\ Refines
         /\ Worth(Visible(state)') = Worth(Visible(state))
<1>1. PICK host_ok \in BOOLEAN :
        LET balances == Stored.balances
            code == TransferCode(sender, receiver, ct, host_ok)
        IN  /\ state' = IF code # "ERR_OK" THEN state ELSE
                        [state EXCEPT !.balances =
                           Moved(balances, First(balances, sender),
                                 First(balances, receiver), ct)]
            /\ UNCHANGED <<export_buffer, snapshot>>
  BY DEF HomomorphicTransfer
<1> DEFINE balances == Stored.balances
           si == First(balances, sender)
           ri == First(balances, receiver)
           code == TransferCode(sender, receiver, ct, host_ok)
           held == Visible(state)
<1>2. /\ balances \in Seq(Entry) /\ held = Shown(balances)
      /\ Len(balances) \in Nat /\ Worth(held) \in Nat
      /\ Worth(held) < Modulus
  BY StoredFits
<1>3. Saved' = Saved
  BY <1>1 DEF Saved
<1>4. CASE code # "ERR_OK"
  <2>1. state' = state
    BY <1>1, <1>4
  <2>2. Visible(state)' = Visible(state)
    BY <2>1 DEF Visible
  <2>3. QED
    BY <1>1, <1>3, <2>1, <2>2 DEF FitsInv, Fits, Refines
<1>5. CASE code = "ERR_OK"
  <2>1. /\ sender \in DOMAIN held /\ receiver \in DOMAIN held
        /\ held[sender] # Malformed /\ held[receiver] # Malformed
        /\ ct # Malformed
    <3>1. /\ Positions(balances, sender) # {}
          /\ Positions(balances, receiver) # {}
          /\ Malformed \notin {ct, balances[si].ct, balances[ri].ct}
      BY <1>5 DEF TransferCode
    <3>2. /\ sender \in DOMAIN held /\ receiver \in DOMAIN held
          /\ held[sender] = balances[si].ct /\ held[receiver] = balances[ri].ct
      <4> HIDE DEF balances, held
      <4>1. QED
        BY <1>2, <3>1, ShownType
    <3>3. QED
      BY <3>1, <3>2
  <2>2. ct \in 0..(Modulus - 1)
    BY <2>1, LedgerAssumption
  <2> DEFINE deduction == Deduction(held[sender], ct)
             moved == Moved(balances, si, ri, ct)
             new == [state EXCEPT !.balances = moved]
             next == Visible(new)
  <2>3. /\ deduction \in 0..(Modulus - 1) /\ deduction <= held[sender]
        /\ moved \in Seq(Entry) /\ Len(moved) = Len(balances)
        /\ Moves(held, sender, receiver, deduction, Shown(moved))
    <3>1. moved = Moved(balances, First(balances, sender), First(balances, receiver), ct)
      OBVIOUS
    <3> HIDE DEF balances, held, moved
    <3>2. QED
      BY <1>2, <2>1, <2>2, <3>1, ShownMoved
  <2>4. state' = new
    BY <1>1, <1>5
  <2>5. state \in VaultState /\ state.balances = balances
    <3>1. state # NoState
      BY <2>1, VisibleIs DEF Visible
    <3>2. QED
      BY <3>1 DEF FitsInv, Inv, TypeOK, Stored
  <2>6. new \in VaultState /\ new.balances = moved
    <3> HIDE DEF moved
    <3>1. QED
      BY <2>3, <2>5 DEF VaultState, Entry
  <2>7. new # NoState /\ next = Shown(moved)
    <3> HIDE DEF new, moved
    <3>1. QED
      BY <2>6, StateShows
  <2>8. Visible(state)' = next
    BY <2>4, VisibleIs DEF Visible
  <2> HIDE DEF balances, held, moved, new, deduction, next
  <2>9. /\ sender \in Usable(held) /\ receiver \in Usable(held)
        /\ deduction \in Nat
    BY <2>1, <2>3, LedgerAssumption DEF Usable
  <2>10. Worth(next) = Worth(held)
    BY <1>2, <2>3, <2>7, <2>9, WorthMoved
  <2>11. FitsInv(D)'
    <3>1. Fits(state, D)
      BY DEF FitsInv
    <3>2. /\ Len(balances) <= MaxRegistrations
          /\ Worth(held) <= Len(balances) * D
      BY <1>2, <2>5, <3>1, StateShows DEF Fits
    <3>3. Fits(new, D)
      BY <2>3, <2>6, <2>7, <2>10, <3>2 DEF Fits
    <3>4. QED
      BY <1>1, <2>4, <3>3 DEF FitsInv, Fits
  <2>12. Ledger!Move(sender, receiver, deduction)
    <3>1. next = [held EXCEPT ![sender] = @ - deduction, ![receiver] = @ + deduction]
      <4>1. /\ next = [id \in DOMAIN next |-> next[id]]
            /\ held = [id \in DOMAIN held |-> held[id]]
        BY <1>2, <2>7 DEF Shown
      <4>2. Moves(held, sender, receiver, deduction, next)
        BY <2>3, <2>7
      <4>3. QED
        BY <2>1, <4>1, <4>2 DEF Moves
    <3>2. QED
      BY <1>3, <2>1, <2>3, <2>8, <3>1 DEF Ledger!Move, Saved, held
  <2>13. Refines
    BY <2>3, <2>12 DEF Ledger!Next, Refines
  <2>14. QED
    BY <2>8, <2>10, <2>11, <2>13 DEF held
<1>6. QED
  BY <1>4, <1>5

-----------------------------------------------------------------------------
LEMMA FitsInit ==
  ASSUME NEW D
  PROVE  Init => FitsInv(D) /\ Ledger!Init
<1>1. Init => FitsInv(D)
  BY InvInit DEF Init, FitsInv, Fits
<1>2. ASSUME Init PROVE Ledger!Init
  <2>1. Visible(state) = [id \in {} |-> 0]
    BY <1>2 DEF Init, Visible
  <2>2. {export_buffer, snapshot} \ {NoState} = {}
    BY <1>2 DEF Init
  <2>3. QED
    BY <2>1, <2>2 DEF Ledger!Init, Ledger!NoAccounts
<1>3. QED
  BY <1>1, <1>2

(* What is exported is saved, or the buffer it was in is emptied.          *)
LEMMA SaveRefines ==
  ASSUME state' = state, {export_buffer', snapshot'} \subseteq {state, export_buffer, snapshot}
  PROVE  Refines
<1>1. Visible(state)' = Visible(state)
  BY DEF Visible
<1>2. Saved' \subseteq Saved \cup {Visible(state)}
  BY DEF Saved
<1>3. Ledger!Save
  BY <1>1, <1>2 DEF Ledger!Save, Saved
<1>4. QED
  BY <1>3 DEF Ledger!Next, Refines

(* What is imported was saved; after a restart there is nothing.           *)
LEMMA ReloadRefines ==
  ASSUME \/ state' = NoState
         \/ state' \in {export_buffer, snapshot} \ {NoState},
         {export_buffer', snapshot'} \subseteq {NoState, export_buffer, snapshot}
  PROVE  Refines
<1>1. Visible(state)' \in Saved \cup {[id \in {} |-> 0]}
  <2>1. CASE state' = NoState
    BY <2>1 DEF Visible
  <2>2. CASE state' \in {export_buffer, snapshot} \ {NoState}
    <3>1. Visible(state)' = Visible(state')
      BY DEF Visible
    <3>2. QED
      BY <2>2, <3>1 DEF Saved
  <2>3. QED
    BY <2>1, <2>2
<1>2. Saved' \subseteq Saved
  BY DEF Saved
<1>3. Ledger!Reload
  BY <1>1, <1>2 DEF Ledger!Reload, Ledger!NoAccounts, Saved
<1>4. QED
  BY <1>3 DEF Ledger!Next, Refines

LEMMA FitsStep ==
  ASSUME ~ SelfTransfers, NEW D, TotalsFit(D), FitsInv(D), [Next]_vars
  PROVE  /\ FitsInv(D)' /\ Refines
         /\ Transfer => Worth(Visible(state)') = Worth(Visible(state))
<1>0. Inv'
  BY InvStep DEF FitsInv
<1>1. CASE UNCHANGED vars
  <2>1. FitsInv(D)' /\ Saved' = Saved /\ Visible(state)' = Visible(state)
    BY <1>0, <1>1 DEF FitsInv, Fits, vars, Saved, Visible
  <2>2. QED
    BY <2>1 DEF Refines
<1>2. ASSUME Transfer
      PROVE  /\ FitsInv(D)' /\ Refines
             /\ Worth(Visible(state)') = Worth(Visible(state))
  <2>1. PICK sender \in VaultId, receiver \in VaultId, ct \in Transferred :
          /\ sender # receiver
          /\ \/ HomomorphicTransfer(sender, receiver, ct, Anyone)
             \/ \E presented \in Projections, prover \in Projections :
                  TransferAuthenticated(sender, receiver, ct, presented, prover)
    BY <1>2 DEF Transfer
  <2>2. CASE HomomorphicTransfer(sender, receiver, ct, Anyone)
    BY <1>0, <2>1, <2>2, TransferRefines
  <2>3. ASSUME NEW presented \in Projections, NEW prover \in Projections,
               TransferAuthenticated(sender, receiver, ct, presented, prover)
        PROVE  /\ FitsInv(D)' /\ Refines
               /\ Worth(Visible(state)') = Worth(Visible(state))
    <3>1. CASE Authenticated(sender, presented, prover)
      BY <1>0, <2>1, <2>3, <3>1, TransferRefines DEF TransferAuthenticated
    <3>2. CASE ~Authenticated(sender, presented, prover)
      <4>1. UNCHANGED vars
        BY <2>3, <3>2 DEF TransferAuthenticated
      <4>2. Visible(state)' = Visible(state)
        BY <4>1 DEF vars, Visible
      <4>3. FitsInv(D)' /\ Refines
        BY <1>0, <1>1, <4>1
      <4>4. QED
        BY <4>2, <4>3
    <3>3. QED
      BY <3>1, <3>2
  <2>4. QED
    BY <2>1, <2>2, <2>3
<1>3. ASSUME Next PROVE FitsInv(D)' /\ Refines
  <2>0. Stored \in VaultState
    BY StoredType DEF FitsInv, Inv
  <2>1. ASSUME NEW valid \in BOOLEAN, InitVault(valid)
        PROVE  FitsInv(D)' /\ Refines
    <3>1. FitsInv(D)'
      BY <1>0, <2>1 DEF InitVault, FitsInv, Fits
    <3>2. QED
      BY <2>1, <3>1, SaveRefines DEF InitVault
  <2>2. ASSUME NEW id \in VaultId, NEW ct \in Deposits,
               RegisterVaultCiphertext(id, ct)
        PROVE  FitsInv(D)' /\ Refines
    <3> DEFINE e == [id |-> id, ct |-> ct]
    <3>1. e \in Entry /\ e.ct \in Deposits
      BY LedgerAssumption DEF Entry, Ciphertext
    <3>2. /\ Len(Stored.balances) < MaxRegistrations
          /\ UNCHANGED <<export_buffer, snapshot>>
          /\ state' \in VaultState
      BY <2>2, RegisterKeeps DEF RegisterVaultCiphertext, FitsInv
    <3>3. state'.balances = Append(Stored.balances, e)
      BY <2>0, <2>2 DEF RegisterVaultCiphertext, VaultState
    <3> HIDE DEF e
    <3>4. QED
      BY <1>0, <3>1, <3>2, <3>3, RegisterRefines
  <2>3. ASSUME NEW p \in Projections, NEW ct \in Deposits,
               RegisterVaultWithIdentity(p, ct)
        PROVE  FitsInv(D)' /\ Refines
    <3> DEFINE e == [id |-> DeriveVaultId(p), ct |-> ct]
    <3>1. e \in Entry /\ e.ct \in Deposits
      BY LedgerAssumption DEF Entry, Ciphertext, VaultId
    <3>2. /\ Len(Stored.balances) < MaxRegistrations
          /\ UNCHANGED <<export_buffer, snapshot>>
          /\ state' \in VaultState
      BY <2>3, RegisterWithIdentityKeeps DEF RegisterVaultWithIdentity, FitsInv
    <3>3. state'.balances = Append(Stored.balances, e)
      BY <2>3 DEF RegisterVaultWithIdentity
    <3> HIDE DEF e
    <3>4. QED
      BY <1>0, <3>1, <3>2, <3>3, RegisterRefines
  <2>4. CASE ExportVaultStateLen
    <3>1. FitsInv(D)'
      BY <1>0, <2>4 DEF ExportVaultStateLen, FitsInv, Fits
    <3>2. QED
      BY <2>4, <3>1, SaveRefines DEF ExportVaultStateLen
  <2>5. CASE Persist
    <3>1. FitsInv(D)'
      BY <1>0, <2>5 DEF Persist, FitsInv, Fits
    <3>2. QED
      BY <2>5, <3>1, SaveRefines DEF Persist
  <2>6. ASSUME NEW bytes \in {snapshot, Foreign}, ImportVaultState(bytes)
        PROVE  FitsInv(D)' /\ Refines
    <3>1. FitsInv(D)'
      BY <1>0, <2>6 DEF ImportVaultState, FitsInv, Fits
    <3>2. CASE bytes \in {NoState, Foreign}
      BY <2>6, <3>1, <3>2, SaveRefines DEF ImportVaultState
    <3>3. CASE bytes \notin {NoState, Foreign}
      BY <2>6, <3>1, <3>3, ReloadRefines DEF ImportVaultState
    <3>4. QED
      BY <3>2, <3>3
  <2>7. CASE Restart
    <3>1. FitsInv(D)'
      BY <1>0, <2>7 DEF Restart, FitsInv, Fits
    <3>2. QED
      BY <2>7, <3>1, ReloadRefines DEF Restart
  <2>8. QED
    BY <1>2, <1>3, <2>1, <2>2, <2>3, <2>4, <2>5, <2>6, <2>7 DEF Next
<1>4. QED
  BY <1>1, <1>2, <1>3

(* As long as callers transfer between different vaults and the deposits   *)
(* fit the width together, the vault is a ledger (vault.rs): a transfer    *)
(* moves an amount the sender has or nothing, a second registration of an  *)
(* ID shows nothing, and an import brings back what was exported:          *)
(* ImplementsLedger.                                                       *)
THEOREM VaultImplementsLedger ==
  ASSUME ~ SelfTransfers, NEW D, TotalsFit(D)
  PROVE  Spec => ImplementsLedger
<1>1. Init => FitsInv(D) /\ Ledger!Init
  BY FitsInit
<1>2. FitsInv(D) /\ [Next]_vars => FitsInv(D)' /\ Refines
  BY FitsStep
<1>3. QED
  BY <1>1, <1>2, PTL DEF Spec, ImplementsLedger, Ledger!Spec, Refines, Saved

(* "Total balance is conserved" (tests/vault_tests.rs:132) by every        *)
(* transfer between different vaults, as long as the deposits fit the      *)
(* width together: TransferConserves.                                      *)
THEOREM TransfersConserve ==
  ASSUME ~ SelfTransfers, NEW D, TotalsFit(D)
  PROVE  Spec => TransferConserves
<1>1. Init => FitsInv(D)
  BY FitsInit
<1>2. FitsInv(D) /\ [Next]_vars => FitsInv(D)'
  BY FitsStep
<1>3. FitsInv(D) /\ [Next]_vars => [Transfer => Total(state') = Total(state)]_vars
  <2> SUFFICES ASSUME FitsInv(D), [Next]_vars, Transfer
               PROVE  Total(state') = Total(state)
    OBVIOUS
  <2>1. Worth(Visible(state)') = Worth(Visible(state))
    BY FitsStep
  <2>2. Visible(state)' = Visible(state')
    BY DEF Visible
  <2>3. QED
    BY <2>1, <2>2, TotalIs
<1>4. QED
  BY <1>1, <1>2, <1>3, PTL DEF Spec, TransferConserves

=============================================================================
