---------------------------- MODULE VaultLedger ----------------------------
(***************************************************************************)
(* The confidential ledger of aethel-vault (src/vault.rs, feature          *)
(* fhe-state): one process with its thread-local state, ServerKey and      *)
(* export buffer, and the tier that keeps a snapshot it exported.          *)
(*                                                                         *)
(* A ciphertext is abstracted to the amount it encrypts, an integer modulo *)
(* Modulus, or to Malformed for bytes that do not decode; registration     *)
(* stores either without looking.  A vault ID is what the caller supplies, *)
(* or the hash of an identity projection.                                  *)
(***************************************************************************)
EXTENDS Integers, Sequences, FiniteSetsExt

CONSTANTS
  Native,            \* TRUE: tfhe in the process; FALSE: wasm and its host
  Modulus,           \* 2^64, the width of FheUint64
  CallerIds,         \* vault IDs that are derived from no projection
  Projections,       \* PLP projections of identities
  Deposits,          \* ciphertexts that vaults are registered with
  Transferred,       \* ciphertexts of transfers
  Malformed,         \* bytes that are not a ciphertext
  NoState,           \* STATE before its first use, and the empty export
  Foreign,           \* snapshot bytes of another layout version
  Anyone,            \* the caller of an unauthenticated transfer
  SelfTransfers,     \* whether callers name one vault as both ends
  MaxRegistrations   \* bound: entries in the ledger

ASSUME LedgerAssumption ==
  /\ Native \in BOOLEAN /\ SelfTransfers \in BOOLEAN
  /\ Modulus \in Nat \ {0}
  /\ Malformed \notin 0..(Modulus - 1)
  /\ Deposits \cup Transferred \subseteq 0..(Modulus - 1) \cup {Malformed}
  /\ MaxRegistrations \in Nat

Ciphertext == 0..(Modulus - 1) \cup {Malformed}

(* derive_vault_id: a hash of the projection under its own prefix.         *)
DeriveVaultId(projection) == <<"AETHEL_VAULT_ID_V1", projection>>
VaultId == CallerIds \cup {DeriveVaultId(p) : p \in Projections}

VaultState == [balances : Seq([id : VaultId, ct : Ciphertext]),
               identity_projections : Seq([id : VaultId, projection : Projections])]

EmptyVaultState == [balances |-> <<>>, identity_projections |-> <<>>]

(* No state is not a state.                                                *)
ASSUME StateAssumption == NoState \notin VaultState

VARIABLES
  state,          \* STATE, a VaultState once something was registered
  server_key,     \* RUNTIME_KEYS: whether a ServerKey is loaded
  export_buffer,  \* EXPORT_BUFFER
  snapshot,       \* what the persistence tier keeps
  debits          \* history: which vault which identity's proof has debited

vars == <<state, server_key, export_buffer, snapshot, debits>>

TypeOK ==
  /\ state \in VaultState \cup {NoState}
  /\ server_key \in BOOLEAN
  /\ export_buffer \in VaultState \cup {NoState}
  /\ snapshot \in VaultState \cup {NoState}
  /\ debits \subseteq [vault : VaultId, by : Projections]

Init ==
  /\ state = NoState
  /\ server_key = FALSE
  /\ export_buffer = NoState
  /\ snapshot = NoState
  /\ debits = {}

-----------------------------------------------------------------------------
(* Lookup and registration.  Entries are appended without a look at what   *)
(* is there; a lookup takes the first.                                     *)

Stored == IF state = NoState THEN EmptyVaultState ELSE state

Positions(entries, id) == {i \in DOMAIN entries : entries[i].id = id}
(* Variant: a lookup takes the latest entry.                               *)
Latest(entries, id) == Max(Positions(entries, id))

First(entries, id) == Min(Positions(entries, id))

InitVault(valid) ==
  /\ server_key' = (server_key \/ valid \/ ~ Native)
  /\ UNCHANGED <<state, export_buffer, snapshot, debits>>

RegisterVaultCiphertext(id, ct) ==
  /\ Len(Stored.balances) < MaxRegistrations
  /\ state' = [Stored EXCEPT !.balances = Append(@, [id |-> id, ct |-> ct])]
  /\ UNCHANGED <<server_key, export_buffer, snapshot, debits>>

RegisterVaultWithIdentity(projection, ct) ==
  LET id == DeriveVaultId(projection) IN
  /\ Len(Stored.balances) < MaxRegistrations
  /\ state' = [balances |-> Append(Stored.balances, [id |-> id, ct |-> ct]),
               identity_projections |->
                 Append(Stored.identity_projections,
                        [id |-> id, projection |-> projection])]
  /\ UNCHANGED <<server_key, export_buffer, snapshot, debits>>

-----------------------------------------------------------------------------
(* Transfers.                                                              *)

(* Variant: the amount is deducted whether or not it is there.             *)
DeductionUnconditional(sender_ct, amount) == amount

(* do_homomorphic_transfer: what is deducted is selected under encryption. *)
Deduction(sender_ct, amount) == IF sender_ct >= amount THEN amount ELSE 0

(* Both new ciphertexts are computed from the old ones before either is    *)
(* stored: the sender's first, then the receiver's.                        *)
Moved(balances, si, ri, amount) ==
  LET deduction == Deduction(balances[si].ct, amount)
  IN  [[balances EXCEPT ![si].ct = (balances[si].ct - deduction) % Modulus]
         EXCEPT ![ri].ct = (balances[ri].ct + deduction) % Modulus]

(* What homomorphic_transfer returns; host_ok is whether the wasm host     *)
(* could evaluate its part.                                                *)
TransferCode(sender, receiver, ct, host_ok) ==
  LET balances == Stored.balances
      si == First(balances, sender)
      ri == First(balances, receiver)
  IN  IF Positions(balances, sender) = {} \/ Positions(balances, receiver) = {}
        THEN "ERR_NOT_FOUND"
      ELSE IF Native /\ ~ server_key THEN "ERR_INVALID_KEY"
      ELSE IF \/ Malformed \in {ct, balances[si].ct, balances[ri].ct}
              \/ ~ host_ok
        THEN "ERR_DESER" ELSE "ERR_OK"

HomomorphicTransfer(sender, receiver, ct, by) ==
  \E host_ok \in IF Native THEN {TRUE} ELSE BOOLEAN :
    LET balances == Stored.balances
        code == TransferCode(sender, receiver, ct, host_ok)
    IN  /\ state' = IF code # "ERR_OK" THEN state ELSE
                    [state EXCEPT !.balances =
                       Moved(balances, First(balances, sender),
                             First(balances, receiver), ct)]
        /\ debits' = IF code # "ERR_OK" \/ by = Anyone THEN debits
                     ELSE debits \cup {[vault |-> sender, by |-> by]}
        /\ UNCHANGED <<server_key, export_buffer, snapshot>>

(* Variant: the proof is checked against what the caller presents only.    *)
AuthenticatedUnbound(sender, presented, prover) ==
  /\ Positions(Stored.identity_projections, sender) # {}
  /\ presented = prover

(* homomorphic_transfer_authenticated and its counterpart for wire bytes:  *)
(* the sender is bound to exactly the presented projection, and the proof  *)
(* was made with the secret of that projection.  The prover is whoever made*)
(* the proof, at any earlier time: it covers nothing else of the transfer. *)
Authenticated(sender, presented, prover) ==
  LET bindings == Stored.identity_projections
  IN  /\ Positions(bindings, sender) # {}
      /\ bindings[First(bindings, sender)].projection = presented
      /\ presented = prover

TransferAuthenticated(sender, receiver, ct, presented, prover) ==
  IF Authenticated(sender, presented, prover)
  THEN HomomorphicTransfer(sender, receiver, ct, prover)
  ELSE UNCHANGED vars

-----------------------------------------------------------------------------
(* Persistence.                                                            *)

(* export_vault_state_len fills the buffer ...                             *)
ExportVaultStateLen ==
  /\ export_buffer' = state
  /\ UNCHANGED <<state, server_key, snapshot, debits>>

(* ... and what export_vault_state_ptr points to is read and kept, however *)
(* much later.                                                             *)
Persist ==
  /\ snapshot' = export_buffer
  /\ UNCHANGED <<state, server_key, export_buffer, debits>>

(* Variant: the version byte is not looked at.                             *)
ImportAnyVersion(bytes) ==
  /\ state' = IF bytes = NoState THEN state ELSE bytes
  /\ UNCHANGED <<server_key, export_buffer, snapshot, debits>>

(* Empty bytes and those of another version are refused.                   *)
ImportVaultState(bytes) ==
  /\ state' = IF bytes \in {NoState, Foreign} THEN state ELSE bytes
  /\ UNCHANGED <<server_key, export_buffer, snapshot, debits>>

(* The process ends; only what was persisted remains.                      *)
Restart ==
  /\ state' = NoState
  /\ server_key' = FALSE
  /\ export_buffer' = NoState
  /\ UNCHANGED <<snapshot, debits>>

-----------------------------------------------------------------------------
Transfer ==
  \E sender \in VaultId, receiver \in VaultId, ct \in Transferred :
    /\ sender # receiver \/ SelfTransfers
    /\ \/ HomomorphicTransfer(sender, receiver, ct, Anyone)
       \/ \E presented \in Projections, prover \in Projections :
            TransferAuthenticated(sender, receiver, ct, presented, prover)

Next ==
  \/ \E valid \in BOOLEAN : InitVault(valid)
  \/ \E id \in VaultId, ct \in Deposits : RegisterVaultCiphertext(id, ct)
  \/ \E p \in Projections, ct \in Deposits : RegisterVaultWithIdentity(p, ct)
  \/ Transfer
  \/ ExportVaultStateLen
  \/ Persist
  \/ \E bytes \in {snapshot, Foreign} : ImportVaultState(bytes)
  \/ Restart

Spec == Init /\ [][Next]_vars

-----------------------------------------------------------------------------
(* Properties.                                                             *)

(* What vault_get_balance shows of a state: the first entry of each ID.    *)
Visible(s) ==
  IF s = NoState THEN [id \in {} |-> 0]
  ELSE [id \in {s.balances[i].id : i \in DOMAIN s.balances} |->
          s.balances[First(s.balances, id)].ct]

Ledger == INSTANCE BlindLedger WITH
            Accounts <- VaultId, Amounts <- 0..(Modulus - 1),
            Unusable <- Malformed,
            held <- Visible(state),
            saved <- {Visible(s) : s \in {export_buffer, snapshot} \ {NoState}}

(* As long as callers transfer between different vaults and the total fits *)
(* the width, the vault is a ledger: a transfer moves an amount the sender *)
(* has or nothing, a second registration of an ID changes nothing that     *)
(* shows, and an import brings back what was exported at the time of       *)
(* export_vault_state_len, whatever happened since (vault.rs).             *)
ImplementsLedger == Ledger!Spec

(* An authenticated transfer debits a vault only under a proof made by the *)
(* identity whose projection the vault ID is derived from: not under a     *)
(* valid proof for another vault, and not after an import or a second      *)
(* registration (vault.rs, homomorphic_transfer_authenticated).            *)
DebitsAreOwn == \A d \in debits : d.vault = DeriveVaultId(d.by)

(* "Total balance is conserved (sender_before + receiver_before ==         *)
(* sender_after + receiver_after)" (tests/vault_tests.rs:132).             *)
Total(s) ==
  LET held == Visible(s)
      usable == {id \in DOMAIN held : held[id] # Malformed}
      HeldBy(id) == held[id]
  IN  MapThenSumSet(HeldBy, usable)

TransferConserves == [][Transfer => Total(state') = Total(state)]_vars
=============================================================================
