# TLA+ verification of aethel-runtime

Specifications of the wallet and ledger of `aethel-vault`, of the proof verifier
and the delegated authority of `aethel-auth`, and of the files and wire format its
command line and its messages use; the TLC runs that check them on small
instances; and TLAPS proofs of their main properties for every value of the
constants.
`PROJECT.json` maps each definition to the lines it models and lists the runs,
findings, hazards and theorems.

## 1. Inventory

The repository holds three crates. `aethel-vault` (`src/`) is held by an agent,
`aethel-auth` (`crates/aethel-auth`) is hosted by a relying party, and
`aethel-auth-cli` is a command line around the holder's side of the second.
They share no process. An agent that pays uses the first; an agent that acts
for somebody proves itself to the second.

| Component | State | Operations | What makes it correct | Here |
|---|---|---|---|---|
| Spend policy, `policy.rs` | none of its own; `PolicyState` (start of the daily window, total spent in it) is an argument | `check`, `record`, `HitlApproval::verify` | the verdict is exact at every limit; `check` and `record` agree when a window ends; an approval is good for one digest and one amount | `SpendPolicy`, `SpendBudget` |
| Settlement wallet, `settlement.rs` | `policy_state`, `last_receipt`; both in memory only | `new`, `authorize_eip3009`, `last_receipt` | nothing is signed that the policy does not allow; what is counted is what was completed; a verdict is still good when its spend is recorded | `Wallet`, `WalletClaims` |
| Receipts, `receipt.rs` | none | sign, verify | the receipt is of the latest completed call | value in `Wallet` |
| Confidential ledger, `vault.rs` | `STATE` (balances, identity bindings), `RUNTIME_KEYS`, `EXPORT_BUFFER`, thread-local | init, two registrations, plain and authenticated transfers, export, import | amounts move between two accounts and only if covered; failure changes nothing; debits follow identity bindings; an import restores what was exported | `VaultLedger`, `BlindLedger` |
| Ledger client, `client.rs` | keys | encrypt, decrypt, payloads | stateless | not modelled |
| HelixDB adapter, `storage/` | wasm queue of pending nodes | RPC stubs, queue, drain | no caller in the repository | not modelled |
| TypeScript SDK, `sdk/` | none | stubs | - | not modelled |
| Proof verification, `proof.rs` | none of its own | `verify_login`, `verify_login_for_request`, `verify_step_up` | acceptance means signed, bound, in its window, and once | `Proof`, `Verifier` |
| Nonce store, `nonce.rs` | nonces and until when each is kept | `claim`, `evict_expired` | claims are atomic; nothing is forgotten too early, or kept for ever | `Verifier` |
| Delegation, `delegation.rs` | none; reads the caller's sets of principals and revoked keys | `verify_delegation`, `authorise`, `Delegation::id` | no request outside the bounds one statement names; a revoked key stays refused; requests do not add up past the ceiling | `Delegation`, `RelyingParty` |
| Approval, `approval.rs` | nonces, through the store | `check_approval` | one approval, one request, still delegated when it is used | `Approval`, `RelyingParty` |
| Statements, `statements.rs` | none | `verify_revocation`, `verify_succession`, `retired_key` | only the holder or an authority ends a key; order does not matter; an account goes where its key said | `Statements`, `RelyingParty` |
| Holder, `holder.rs` | none | builds every statement | what it builds is what the verifier accepts | `Holder` |
| Identity CLI | identity files, share files | new, recover, show, and a command per statement | a key acts only where it is bound; nothing that stops half-way leaves a root without its shares | `Terminal`, `IdentityStore` |
| Base64url, `b64.rs` | none | `encode`, `decode` and field readers | one spelling per value, and every canonical one is read | `Wire` |
| Crate surfaces, errors, `build.rs` | none | - | - | not modelled |

How the parts interact. `authorize_eip3009` calls the policy, then the injected
`SettlementSigner` (hardware, MPC, another process: external code that may be
slow, refuse or never answer), then the vault's own identity key, and records
the spend last. `verify_*` does every check without I/O and then awaits the
`NonceStore`, which all instances of a relying party share. The ledger is called
by one thread, delegates arithmetic to `tfhe` or to a wasm host, and leaves its
snapshots with a persistence tier it does not know. A relying party chains the
other half: `verify_login_for_request` for each request, `authorise` with the
delegation beside it, `check_approval` where the decision asks for one, and its own
total. It feeds verified revocations and `retired_key`s back into the set of
revoked keys that `authorise` and `check_approval` are given. Every statement it sees
was built by a `Holder`, most often by one command of the terminal signer on one
identity file.

What is hard in this code: a verdict or a clock reading taken before an external
call or an `await` and used after it; clocks that differ or step back;
boundaries where two comparisons have to agree (`>` in one function, `<=` in
another); external effects followed by a failure; a restart that forgets;
answers that are lost after the claim was made; append-only registrations that
every lookup has to resolve alike; a decision that several requests pass
together and none would pass after the other; statements spliced from parts of
others; several files written one after the other, in place. `PROJECT.json` has each at its line.

## 2. Modules

| Module | Role |
|---|---|
| `SpendPolicy` | the policy, as operators over the `PolicyState` record |
| `SpendBudget` | abstract: a budget of `Cap` per window of `Length` |
| `Wallet` | the wallet as a state machine; extends `SpendPolicy` |
| `WalletClaims` | two documented claims that the wallet does not meet |
| `WalletProofs` | theorems about `Wallet`; extends `SumProofs` |
| `Proof` | the checks of a login or step-up, nonce retention and nonce key |
| `Verifier` | instances, the shared store, clocks and failures; extends `Proof` |
| `VerifierProofs` | theorems about `Verifier` |
| `BlindLedger` | abstract: accounts, moves, saved states |
| `VaultLedger` | the ledger as a state machine |
| `VaultLedgerProofs` | theorems about `VaultLedger`; extends `SumProofs` |
| `Signing` | signatures over a purpose and an input; extends `Proof` |
| `Delegation` | bounds, `verify_delegation`, `authorise`, obligations; extends `Signing` |
| `Approval` | `check_approval` before its await; extends `Delegation` |
| `Statements` | revocation and succession; extends `Approval` |
| `Holder` | the statements as a holder makes them; extends `Statements` |
| `Terminal` | the signing commands of the CLI; extends `Holder` |
| `RelyingParty` | requests, approvals, totals and keys as a state machine; extends `Terminal` |
| `RelyingPartyProofs` | theorems about `RelyingParty`; extends `SumProofs` |
| `IdentityStore` | identity files and recovery shares as a state machine |
| `IdentityStoreProofs` | theorems about `IdentityStore` |
| `RecoveryProofs` | the theorem that a root that was shown rebuilds its identity |
| `Wire` | base64url and the readers of byte fields, and a store of keys as text |
| `WireProofs` | theorems about `Wire` |
| `SumProofs` | laws of sums over finite sets, which three of the proof modules need |
| `MCWallet`, `MCVerifier`, `MCVaultLedger`, `MCRelyingParty`, `MCIdentityStore` | small instances for TLC |

Operators commented *Variant* are what a definition would look like with a
plausible mistake in it. Nothing uses them; they record, in `PROJECT.json`
("mutants"), which mistake each property catches.

### Wallet

`authorize_eip3009` is not one step:

    idle --Authorize--> signer --SignDigest--> intent --SignIntent--> idle

`Authorize` is everything up to `sign_digest` (settlement.rs:556-595), with
`Refuse` for every early return. `SignDigest` and `SignerFails` are the two
outcomes of the external signer; `SignIntent` signs the intent, records the
spend and stores the receipt (600-627), and `IntentFails` is the early return
between them. In every state `Tick` may move the caller's clock, in either
direction, and `Restart` may end the process, after which `Wallet::new` starts
from the default state. `&mut self` admits one call at a time, so there is one
`pc`. The EIP-712 digest is the record of the fields and the chain it commits
to: equal digests mean equal authorizations. An ML-DSA signature is "genuine",
"forged" or "malformed". The history variable `log` has an entry for every
external signature, `windowFrom` says which of them belong to the open window.

### Verifier

Two steps per verification: `Begin` (or `Reject`) reads the verifier's clock and
does all checks; `Accept`, `AlreadyUsed`, `AnswerLost` or `ClaimLost` is what
becomes of the claim. A verifier's clock may lag the store's by `MaxLag` and lead it
by `MaxLead`; a claim is under way for at most `MaxDelay`. `EvictExpired` drops
what may be dropped, and never happens if nobody calls it. `log` is the history of
claims as they reach the store. The hash in `nonce_key` is collision-free. The
store is one that fulfils the trait's contract: it is shared and survives
restarts of the verifiers (`InMemoryNonceStore`, whose code the claim and the
eviction follow, documents that it does not).

### VaultLedger

One action per exported function. A ciphertext is the amount it encrypts,
modulo `Modulus`, or `Malformed`. A vault ID is what a caller made up or the
hash of a projection, and callers may register either kind directly.
`ExportVaultStateLen` and `Persist` are separate because the buffer and the
pointer to it are separate functions. A PLP proof is abstracted to whose secret
made it: the code binds it to the projection (and a context) and to nothing
else of the transfer, so the model has no notion of a fresh proof, and
`DebitsAreOwn` speaks about who made the proof, not who sent it.

### RelyingParty

The deciding functions are pure and return "Ok" or their `AuthError`, in the order of
the code; the state machine is the caller that the crate asks for in
`crates/aethel-auth/README.md:61-74`. A request goes through

    free --Receive--> authenticating --Authenticate--> authenticated
         --Allow--> held --PresentApproval--> approving --ClaimApproval-->
         authorised --Perform--> performed

with `Allow` straight to "authorised" when no approval is asked for. `Receive` and
`PresentApproval` are the checks up to an await, `Authenticate` and
`ClaimApproval` the store's answer; between them other requests, revocations and the
clock go on. `Deny` refuses, `Abandon` is a dropped future or a failing store, whose
claim may or may not have been made. Both kinds of claim are kept in one store, as
the crate allows; it is the set of its keys, since what the store may forget is
`Verifier`'s subject. `Perform` counts the requests performed under the same
`Delegation::id` in the window that ends now, and performs or refuses, in one step:
"keep a total and refuse" is what the caller is told, and a caller that is not
atomic here breaks its own obligation. `CeilingKept` is therefore about what the crate
tells the caller to count, and says nothing of a caller that counts and performs in two
steps. What is not the crate's code (`Perform`,
the sets, the wire) is marked external in `map`.

A signature is the record of key, purpose and signed input, so it fits exactly what
it was made over, and only a `Sign` makes one. The wire is hostile: besides the
statements as made, `CopiesOf` has every splice of one field from another statement of
the same kind, every signature moved to another statement, and empty or
undecodable ones. `Presentable` keeps back what carries the signature of a
revocation or succession that its signer has not sent. `knew` and
`checked_at` are history: what was known to be revoked, and the time, when a request was
last checked, by `Allow` or by `PresentApproval`. A check that is made must find the
delegation in its window and the keys good at that time, not at an earlier one.

### IdentityStore

A command checks first and then writes. What it will write is a sequence in `job`:
a truncation and a fill per file (`fs::write`), and the printing of the root;
`Proceed` does the next, `Stop` is a kill or a failed write, at any point. Several
terminals do so at once in the same directory. `new` writes the shares, prints
the root, then writes the identity file, in that order; `recover` collects shares from
the disk and from people they were given to (`HandOut`), checks them (`Accepts`) and
writes an identity file without a record. An identity is its entropy, and its share
root is the identity itself: `SharedSecret`'s Merkle root accepts no share of
another set, and that is external. `SignStatement` stands for the five signing commands: they
take the key and the audience from the file and differ only in the statement, which
`Terminal` has.

Files may be edited by hand: `Edit` changes any one field of an identity file but the
sealed identity (its public key, its audience or its recovery record), `EditShare` the
audience of a share. `open` notices a changed public key and `recover` shares that do not
agree; a changed audience is noticed by nobody, and what is signed then is signed for it.
History: `boundTo`, `printed`, `signed`; `edited`, the files that were edited since a
command wrote them; `rebound`, which key an edit said belongs to which other audience;
and `contested`, the identities whose shares another `new` or an edit got at. All
shares have the same file names by default, so a second `new` overwrites those of the
first, and the root of the first rebuilds nothing: `PrintedRootRebuilds` exempts exactly
these identities, and so says what stops leave behind, not what overlapping `new`s do.

### Wire

`b64.rs` on bytes of `4 * Unit` bits and symbols of `3 * Unit`; the code's `Unit` is 2,
so three bytes make four symbols in both. `Decode` and its reference are written
apart: the code's is arithmetic on groups, the reference (`Canonical`, `Bit`)
compares bits. Around it a verifier receives a field symbol by symbol and files
revoked keys as the text they came in, which is what the strict decoder is there for
(b64.rs:9-14), although the crate's README tells callers to compare bytes.

## 3. Runs

| Run | Expect | Question |
|---|---|---|
| `MCWallet` | pass | Do the cap, the approvals and the receipt hold at every step of a call, across a clock that steps back and a restart, and is the wallet a `SpendBudget`? |
| `MCWalletDays` | pass | Does the accounting stay exact over several windows, and how much fits in any day? |
| `MCWalletRolling` | violation | Is the window the rolling one of the documentation? |
| `MCWalletRestart` | violation | Does the cap hold for a caller that persists its `PolicyState`, as it is told to? |
| `MCVerifier` | pass | Can any schedule of instances, clocks, lost answers and evictions accept a proof twice, accept one that was not signed as it is used, or refuse a signer for somebody else's nonce? |
| `MCVerifierLag` | violation | Does the margin cover a lag equal to it? |
| `MCVaultLedger` | pass | Native: do debits follow the identity bindings, and is the vault a `BlindLedger`? |
| `MCVaultLedgerWasm` | pass | The same with a failing host and IDs that are registered twice. |
| `MCVaultLedgerSelf` | violation | Is the total conserved if a vault pays itself? |
| `MCRelyingParty` | pass | With anything on the wire and requests overlapping: is what is performed granted, approved once and within the total, is it in the window whenever it is checked, who ends and continues a key, does a revoked key move an account, does a revocation take hold and a good approval serve? |
| `MCIdentityStore` | pass | If commands overlap and stop anywhere: does a key act only where it is bound or where an edit by hand put it, and does a root the holder was shown rebuild its identity? |
| `Wire` | pass | Does a field read exactly if it is spelled canonically? |

Bounds, and why they are enough:

- `MCWallet`: a day of 3 seconds and times up to 9; amounts 1, 3 and 4 around a
  threshold of 1, a limit of 3, a cap of 4 and a width of 6, so that every
  comparison is met from both sides, at the boundary, and with saturation of
  both sums. Two signatures (`MaxSigned`) are a counted and a failed one, or two
  that together pass the cap; approvals may carry the digest of either. The clock
  starts at one day, because a window that starts at 0 is long past on any real
  clock; it may step back one second. One chain is enabled, one is not.
- `MCWalletDays`: four signatures and times 3 to 9, that is two full windows and
  the start of a third, with a clock that does not step back. More than one
  signature per window is needed for a total, two windows for a roll, a third
  for what an undated window would do.
- `MCVerifier`: ceiling 2, margin 3, lag, lead and delay 1. Six proofs: one that
  outlives the ceiling, another with the same nonce, a step-up with it, another
  party's with it, a forged one and one for another audience. Two age limits,
  below and above the ceiling. A replay needs two claims (`MaxClaims`) and two
  instances; times up to 6 are past the retention of the long-lived proof, times
  up to 9 make sums saturate.
- `MCVaultLedger`: two projections and two entries, deposits 3 and transfers of 2,
  so that the first transfer is covered and the second is not, and malformed
  bytes in both places. `MCVaultLedgerWasm` has three entries: one ID twice
  beside another. All totals are below the modulus of 8: the ledger property is
  claimed under that condition, since a balance near 2^64 wraps unseen.
- `MCVaultLedgerSelf` is a run of its own, with `SelfTransfers`, because the
  ledger property holds without it.

- `MCRelyingParty`: two requests, the fewest that overlap, and times 0 to 2. The
  owner's terms are 2 per request, 2 in total within a window of 2 seconds and
  approval above 1, so each request fits alone and two of 2, or 2 and 1, do not fit together;
  the window is met open and just closed. Six logins: two of the delegate for equal requests,
  one below the threshold, a stranger's with the nonce of one of them, one bound to
  no request and a step-up. Five delegations: the owner's, its successor's, a
  stranger's to itself, one for another audience, and one without signature. Three
  approvals: the owner's, whose nonce is that of a login as well, one of another
  amount, and one by the delegate. Revocations by the owner, by an
  authority and by a stranger; a succession and one without signature. With the
  splices that is everything an altered field can be taken from.
- `MCIdentityStore`: two identities (a first, and one that is in its way), two
  audiences (its own and another), one file name, two terminals; identities,
  audiences and terminals are interchangeable. One edit by hand (`MaxEdits`) is enough to
  take a key elsewhere, and to make a share disagree with the others; it may come at any point of any
  command, and whatever is signed or recovered afterwards meets it. Two shares, of which both are needed, where the code
  makes five and needs three: what the properties tell apart is whether enough
  shares of one root and audience are there. The instance has 1.3 million distinct
  states and takes two minutes; more shares are left to the proofs, which hold for any number.
- `Wire`: `Unit` 1, so a byte has 4 bits and a symbol 3; keys of one byte; every
  text of up to five characters, padding and other foreign characters included:
  the empty one, a group with each length of tail, and the length that no bytes
  have. One key is filed at a time.

`MCRelyingParty` and `MCIdentityStore` say `CHECK_DEADLOCK FALSE`: requests are
served, time has ended, identities are drawn, and nothing further need happen.
Every other state of every run has a step, clocks, restarts, refused
calls and imports among them.

Fairness: only `MCRelyingParty` assumes any (`Fairness`), for its two liveness
properties. `Proceed` is weakly fair per request: a future that is polled goes
on, and a store that is reached answers; `Abandon` remains possible at any time, so
no request is promised an end other than refusal. A revocation that was sent is
taken in (weak fairness): verification is a pure function, and its
sender repeats it until it is. An approval is taken up if its request is held
for it again and again (strong fairness, because the request leaves "held"
whenever somebody presents another approval, and returns when that one's nonce turns out to
be used). No fairness is put on who makes requests, sends statements or altered
copies, nor on the clock. The wallet's external signer and the verifier's store
promise no answer, so there is no liveness to claim of either.

### What was found

1. *The daily window is not rolling* (`MCWalletRolling`). It opens with a spend
   and closes `DAY_SECONDS` later, so up to two caps fit in one day;
   `AnyDayWithinTwoCaps` shows that no more do.
2. *A persisted `PolicyState` cannot be used* (`MCWalletRestart`). `Wallet::new`
   takes none and the field is private.
3. *The skew margin is one second short* (`MCVerifierLag`). A verifier accepts at
   an age equal to the ceiling and the store forgets in the second the margin ends,
   so replay is excluded only if lag **plus** the time between reading the clock
   and the claim's arrival is **less than** `NONCE_SKEW_SECS`. That is the
   assumption `MarginKept` of the proof.
4. *A vault that pays itself gains the amount* (`MCVaultLedgerSelf`).
5. *An identity is bound to its audience by a line of text.* `audience` lies
   beside the sealed identity in the file (identity_file.rs:71) and in each share
   (recovery.rs:52). `open` does not compare it (175-196) and `audience_bytes` (214-216) is
   what is signed for, so a holder's file in which it is changed signs at another
   relying party with the same key, where main.rs:8-10 says the tool refuses to act at
   more than one. That holds against its command line, which has no flag for it, not against
   the file. It has no run of its own: `SignsWhereBound` states what does hold, that
   a key acts elsewhere only if somebody wrote that audience into a file or share of it.

## 4. Proofs

All from the assumptions on constants that the modules declare
(`PolicyAssumption`, `WalletAssumption`, `ProofAssumption`,
`VerifierAssumption`, `DelegationAssumption`, `RelyingPartyAssumption`,
`StatementsAsMade`, `IdentityStoreAssumption`, `LedgerAssumption`, `StateAssumption`,
`WireAssumption`), which TLC evaluates in every run of those modules. A theorem
that needs more says so in its own `ASSUME`: `ReplayImpossible` and `NonceIsHeld`,
`AnyDayBounded`, `VaultImplementsLedger` and `TransfersConserve`.

`SumProofs`: `FiniteSetsExt` adds up by picking elements in whatever order `CHOOSE`
has. That any order gives the same sum, that disjoint sums add up and that a
subset has no larger sum is proved by induction on the cardinality. The library's
induction takes an operator, so it is put as "a set of numbers with 0 and with
the successor of each of its members is `Nat`" (`AllOfNat`), from well-founded
minimality. Nothing else here needs induction but for counting bits in `WireProofs`.

`WalletProofs`:

- `TypeCorrect`.
- `CapSafe`: `CapHoldsInFlight`. The cap on the recorded total alone is not
  inductive: a call in flight will add to it. The invariant therefore also says
  that, from `Authorize` on, the call's amount still fits with the total that is
  effective *at the time the call was given*. `Check` establishes it
  (`AuthorizeWithinCap`), no step changes the total or that time while a call is
  under way, and `Record` turns it into the cap (`SignIntentWithinCap`). It
  needs `DailyCap < AmountMax`, or saturation could not be told from a fit.
- `SignaturesAuthorised`: `EverySignatureAuthorised`; inductive with its second
  conjunct, which carries the authorisation from the check to the signature.
- `AccountExact`: `SpentIsWindowTotal`. The spend being signed is in no sum until
  it counts, so the invariant adds `EntryOfCall`: while a call is under way the last
  entry of the log is its own, uncounted. `SignIntent` then moves one element into
  the sum and records the same amount; a new window starts both at nothing.
- `DenialExact`: `CapDenialIsExact`, from `AccountExact` alone: below the cap no sum
  saturates, so the comparison is one of true sums.
- `ReceiptCorrect`: `ReceiptIsOfLatestSpend`. "The latest counted entry" is a maximum,
  which the steps move about; the invariant names a counted entry the receipt
  is of, and that no later one counted.
- `AnyDayBounded`: `AnyDayWithinTwoCaps`, assuming a clock that does not step back and
  no restart (`MaxBackstep = 0`, `MaxRestarts = 0`, as in `MCWalletDays`): a restart
  forgets what was spent, and a step back dates a spend before its window. Entries are in the order of their times
  (`InOrder`), and what lies within a day of the latest is covered by the open
  window and the one before it, each of which kept the cap (`TwoWindows`).
- `WalletImplementsBudget`: with `CapHoldsInFlight` and `TypeOK`, every step is a
  spend in the open window, a spend that opens one, `Forget`, or leaves the
  budget alone. The time of the abstract spend is the time of the call
  (`CallTime`), so the window has to close at exactly `DaySeconds`.

`VerifierProofs`:

- `VerifierTypeCorrect`; `AcceptanceSigned` and `AcceptanceInWindow` by way of
  `PendingInv`, which carries the outcome of the checks to the claim.
- `NonceIsHeld` and `ReplayImpossible`, assuming `MarginKept`. Two accepted
  claims of one proof are impossible because the first leaves its key in the
  store until the retention (`HeldUntilRetention`: eviction respects it,
  insertion never shortens an entry) and the second cannot arrive that late
  (`ClaimsInTime`: acceptance ends at the earlier of expiry and ceiling, and
  lag and delay stay inside the margin).
- `RetentionIsBounded`, and `RefusalsAreOwn` by way of `KeysHaveOrigin`: every key
  in the store was put there by a claim for a proof that its signer made.

`RelyingPartyProofs`, for any statements, requests and number of slots. The only
assumption about statements is `StatementsAsMade`: each bears no signature or the one of
the key that is to make it, over its own content.

- `DelegationHolds`, `ApprovalHolds` and `RevocationHolds` by way of the invariant
  `Inv`: every slot is sound, that is, its login, its delegation and its approval passed
  their checks when they were taken up. The core is a lemma per kind of statement: an altered copy
  whose signature fits its content *is* one of the statements that were made,
  because a signature determines key, purpose and input, and the input determines every
  field but the key. The time of the last check is part of what is sound, so `DelegationHolds`
  has both ends of the window, at the check of the approval as well.
- `ApprovalServesOnce`: inductive with `Claims`, which says that the key of every
  approval that cleared a request is in the store, and that two requests cleared by
  approvals have different keys. The second of two equal claims then finds its key taken.
- `KeysEndByEntitled`, from `Inv` and the same lemma about copies. `AccountsFollow` is
  inductive as soon as the set of accounts is known to be finite: a succession
  takes a key out before it puts one in. `RevokedMoveNothing` is about the step: an account
  moves only by `ProcessSuccession`, from a key that is not revoked yet and is revoked by it.
- `CeilingHolds`: `CeilingKept`. What was performed under one id in any window that
  ends with one of the requests is within the ceiling of the terms it was performed on. A
  `Perform` adds a window that ends now, and leaves every earlier one as it was
  because the clock does not run back, so no request enters a window already
  judged. That terms and `Delegation::id` stand for each other (`TermsAreIds`) is what lets
  the caller's total, which goes by id, answer for the terms.
- `TypeCorrect`, from the two invariants.

`IdentityStoreProofs`, for any number of identities, terminals, names and shares:

- `BoundForGood`: everything that exists bears an audience its identity belongs to
  (`Belongs`: the one it was created for, or one that an edit gave it), on the
  disk, in the writes a command has yet to do, and in other people's hands. `recover`
  keeps it since its shares agree with the audience that is named, and the root
  with the identity; an edit adds to `rebound` what it does (`ByHandSound`), for one key only.
- `RootsAreShown`: inductive with the order inside a job: a fill that records a root
  comes after the step that prints it, or the root was printed already. A file that was
  edited is left out until a command writes it again.
- `TypeCorrect`, with the job's steps as sequences of operations.

`RecoveryProofs`, from the same:

- `PrintedRootsRebuild`: `PrintedRootRebuilds`. A printed root says nothing about the
  disk, so the invariant (`RecoveryInv`) follows the job that will print it: for an
  identity that is not contested, what that terminal has left is what `new` has
  left after some number of operations, the shares those operations completed are on
  the disk, and no other terminal is to write shares. A split of another identity or an edit of
  its shares makes it contested; every other step leaves the shares of an identity it does not
  contest alone (`HarmlessKeeps`).

`VaultLedgerProofs`, for any width, entries and identities, in both builds, transfers
of a vault to itself included:

- `OwnersDebit`: `DebitsAreOwn`. Every state there is, held, exported or kept by the
  host, binds a derived ID only to the projection it is derived from; registrations
  keep that and an import brings in such a state. A lookup finds a position that
  bears the ID, so who proves against its binding is who the sender is derived from.
- `TypeCorrect`, with the same lemmas about lookups and moved entries.
- `VaultImplementsLedger` (`ImplementsLedger`) and `TransfersConserve`, for vaults that
  do not pay themselves (`~ SelfTransfers`; the fourth finding is what happens if they do)
  and deposits that fit the width together: `TotalsFit(D)` says that no usable
  deposit is above `D` and that `MaxRegistrations * D < Modulus`. The code has no
  such limit and could not check one, since the sum of encrypted balances is
  what it does not see. The invariant `FitsInv(D)` says of every held, exported
  and kept state that it has at most `MaxRegistrations` entries and is worth at most `D` for
  each, so no addition wraps. What the ledger sees of a state is the first entry
  of each ID (`Shown`): a registration adds an account or shows nothing
  (`ShownAppended`, `WorthAppended`), and a transfer changes exactly the two accounts
  its lookups find (`ShownMoved`), by the amount or by nothing, so their sum stays
  (`WorthMoved`).

`WireProofs`, for every `Unit` (the code's is 2), length of key and length of text:

- `AcceptanceIsCanonical` and `CanonicalIsRead`: the code's arithmetic on groups against
  the reference's bits. A group is a number whose digits are its bytes or its
  symbols (`ThreeDigits`, `FourDigits`), a number below `2^w` is determined by its `w` bits
  (`BitsDetermine`), so both directions of the codec keep the string of bits
  (`ByteString`, `SymbolString`) and differ only beyond the last whole byte, where an
  encoding has zeros. The provers know nothing of `2^n`; its laws come from counting the
  subsets of `n` elements (`PowerNext`, `PowerSum`).
- `OneSpelling`: `NoSecondSpelling`. An accepted text is the encoding of its bytes, so
  equal bytes have equal texts; with the inductive fact that every filed text reads as
  a key. It needs none of the arithmetic, only that `Decode` compares.
- `TypeCorrect`: what is filed has the length of a key's encoding, because it was
  accepted (`Lengths`).

Every safety property of every passing run is thereby the statement of a theorem.
Only model-checked: the two liveness properties `RevocationTakesHold` and
`ApprovalServes`, since liveness under fairness and `ENABLED` are out of the prover's
reach; `ImplementsLedger` on `MCVaultLedgerWasm`, which is outside `TotalsFit` (three
deposits of 3 would pass the modulus, and do not because one of them is never seen).
Of the four claims that a run refutes, `TransferConserves` is a theorem where no
vault pays itself. No module declares a `RECURSIVE` operator.

## 5. Plan

Modelled since the first plan: delegation, approval, statements, holder, terminal
signer, relying party, identity files, wire format. Proved since: the account, the
denials, the receipt and the days of the wallet; the ceiling; the vault as a
ledger; the wire format. What is left:

1. A weaker hypothesis for `VaultImplementsLedger`: only entries that are shown have
   to fit the width, which would take in `MCVaultLedgerWasm`.
2. What a holder builds is what the verifier accepts, as lemmas over `Holder` and the
   `verify_*` operators: completeness beside the soundness that is proved.
3. The steps of the liveness arguments that are not temporal: what a step of
   `Proceed` achieves, and that no other step undoes it.

## 6. Not modelled

Hashing, signatures, sealing, key derivation and secret sharing beyond what their
callers expect of them (collision-free, unforgeable, "opens under the
passphrase", "shares of one root"); byte encodings other than base64url;
`tfhe` and the wasm host beyond success and failure; TLS, gRPC and the HelixDB
cluster; the TypeScript stubs; compile-time guards; formatting, `show` included,
which says of a recovered identity that it cannot be recovered although its shares
still can. The wasm queue of pending nodes was in the first plan: it is one list that
is appended to and taken, nothing in the repository calls it, and the host that
would lose a node is not in the repository. The ledger client is stateless and
its documented policy gate does not exist (hazard at `client.rs:238`). The reasons
per component are in `PROJECT.json`.
