--------------------------- MODULE IdentityStore ---------------------------
(***************************************************************************)
(* The identities the terminal signer of aethel-auth keeps in files, and   *)
(* the recovery shares it splits them into                                 *)
(* (crates/aethel-auth-cli: main.rs, identity_file.rs, recovery.rs).       *)
(*                                                                         *)
(* A command refuses what it will not do before it writes.  What it then   *)
(* writes is several files, one after the other and each in place: an      *)
(* open that truncates and a write that fills.  Between any two of these   *)
(* the process may die or the disk may fail it, and another terminal may   *)
(* be at work on the same files.                                           *)
(*                                                                         *)
(* An identity stands for its entropy and for all that follows from it: its*)
(* key, and the root of the one set of shares its entropy was split into.  *)
(* That shares cannot be combined except under their own root is what the  *)
(* code expects of SecretSharer (external).  Wrong passphrases, malformed  *)
(* arguments and files that are not there are refused before anything is   *)
(* written, and change nothing.                                            *)
(***************************************************************************)
EXTENDS Integers, Sequences, FiniteSets

CONSTANTS
  Identities,   \* the entropies that may be drawn
  Audiences,    \* relying parties
  Names,        \* paths of identity files
  ShareCount,   \* shares a split makes: 5
  Threshold,    \* shares that rebuild: 3
  Terminals,    \* where commands run
  None,         \* no recovery record
  Missing,      \* no such file
  Torn,         \* what is in a file between its truncation and its write
  MaxEdits      \* bound: edits by hand

ASSUME IdentityStoreAssumption ==
  /\ ShareCount \in Nat \ {0} /\ Threshold \in 1..ShareCount
  /\ Names \cap (1..ShareCount) = {}
  /\ None \notin Identities /\ MaxEdits \in Nat

(* share-1.json to share-n.json: the directory is the same by default.     *)
SharePaths == 1..ShareCount
Paths == Names \cup SharePaths

(* An identity file; sealed is what opens under the passphrase.            *)
IdentityFile == [audience : Audiences, public_key : Identities,
                 sealed : Identities, recovery : Identities \cup {None}]

(* A share does not carry its root, but goes with no other.                *)
ShareFile == [audience : Audiences, index : SharePaths, root : Identities]

Operation ==
  [op : {"truncate"}, path : Paths]
    \cup [op : {"fill"}, path : Names, content : IdentityFile]
    \cup [op : {"fill"}, path : SharePaths, content : ShareFile]
    \cup [op : {"print"}, root : Identities]

VARIABLES
  disk,      \* what each path holds
  job,       \* what the command that runs at a terminal has yet to do
  boundTo,   \* history: the audience each identity was created for
  printed,   \* history: roots the holder was shown
  contested, \* history: identities whose shares another new or an edit got at
  custody,   \* shares the holder gave to people it trusts
  signed,    \* history: what was signed, with which key, where, shown as which
  edits,     \* edits made by hand
  edited,    \* history: names whose file was edited since a command wrote it
  rebound    \* history: where else edits said an identity belongs

vars == <<disk, job, boundTo, printed, contested, custody, signed,
          edits, edited, rebound>>

Drawn == DOMAIN boundTo

TypeOK ==
  /\ \A n \in Names : disk[n] \in IdentityFile \cup {Missing, Torn}
  /\ \A i \in SharePaths : disk[i] \in ShareFile \cup {Missing, Torn}
  /\ \A t \in Terminals : \A i \in DOMAIN job[t] : job[t][i] \in Operation
  /\ Drawn \subseteq Identities /\ \A id \in Drawn : boundTo[id] \in Audiences
  /\ printed \subseteq Drawn /\ contested \subseteq Drawn
  /\ custody \subseteq ShareFile
  /\ signed \subseteq [key : Identities, shown : Identities, audience : Audiences]
  /\ edits \in 0..MaxEdits /\ edited \subseteq Names
  /\ rebound \subseteq [key : Identities, audience : Audiences]

Init ==
  /\ disk = [p \in Paths |-> Missing]
  /\ job = [t \in Terminals |-> <<>>]
  /\ boundTo = <<>>
  /\ printed = {}
  /\ contested = {}
  /\ custody = {}
  /\ signed = {}
  /\ edits = 0
  /\ edited = {}
  /\ rebound = {}

-----------------------------------------------------------------------------
(* Writing.                                                                *)

(* fs::write.                                                              *)
Write(path, content) ==
  <<[op |-> "truncate", path |-> path],
    [op |-> "fill", path |-> path, content |-> content]>>

Run(t, operations) ==
  /\ job[t] = <<>>
  /\ job' = [job EXCEPT ![t] = operations]

(* The next thing the command at t does.                                   *)
Proceed(t) ==
  /\ job[t] # <<>>
  /\ job' = [job EXCEPT ![t] = Tail(@)]
  /\ LET next == Head(job[t])
     IN  IF next.op = "print"
         THEN /\ printed' = printed \cup {next.root}
              /\ UNCHANGED <<disk, edited>>
         ELSE /\ disk' = [disk EXCEPT ![next.path] =
                            IF next.op = "fill" THEN next.content ELSE Torn]
              /\ edited' = edited \ {next.path}
              /\ UNCHANGED printed
  /\ UNCHANGED <<boundTo, contested, custody, signed, edits, rebound>>

(* It is killed, or a write fails and it returns early.                    *)
Stop(t) ==
  /\ job[t] # <<>>
  /\ job' = [job EXCEPT ![t] = <<>>]
  /\ UNCHANGED <<disk, boundTo, printed, contested, custody, signed, edits, edited, rebound>>

-----------------------------------------------------------------------------
(* Commands.                                                               *)

(* Variant: shares numbered from 0.                                        *)
SplitFromZero(id, audience) ==
  [i \in SharePaths |-> [audience |-> audience, index |-> i - 1, root |-> id]]

(* recovery::split.                                                        *)
Split(id, audience) ==
  [i \in SharePaths |-> [audience |-> audience, index |-> i, root |-> id]]

(* One share after the other.                                              *)
WriteShares(shares) ==
  [k \in 1..2 * ShareCount |->
     LET i == (k + 1) \div 2 IN Write(i, shares[i])[IF k = 2 * i THEN 2 ELSE 1]]

FileOf(id, audience, recovery) ==
  [audience |-> audience, public_key |-> id, sealed |-> id,
   recovery |-> recovery]

(* Variant: the identity first, so that it is not lost.                    *)
NewWritesIdentityFirst(id, audience, name, no_recovery) ==
  IF no_recovery THEN Write(name, FileOf(id, audience, None))
  ELSE Write(name, FileOf(id, audience, id)) \o WriteShares(Split(id, audience))
         \o <<[op |-> "print", root |-> id]>>

(* Variant: the root as soon as it is known.                               *)
NewPrintsRootFirst(id, audience, name, no_recovery) ==
  IF no_recovery THEN Write(name, FileOf(id, audience, None))
  ELSE <<[op |-> "print", root |-> id]>> \o WriteShares(Split(id, audience))
         \o Write(name, FileOf(id, audience, id))

(* What new writes, in its order: the shares, the root, the identity.      *)
NewWrites(id, audience, name, no_recovery) ==
  IF no_recovery THEN Write(name, FileOf(id, audience, None))
  ELSE WriteShares(Split(id, audience)) \o <<[op |-> "print", root |-> id]>>
         \o Write(name, FileOf(id, audience, id))

WritesShares(t) ==
  \E i \in DOMAIN job[t] : job[t][i].op # "print" /\ job[t][i].path \in SharePaths

(* new: fresh entropy, bound to the audience.  A split gets in the way of  *)
(* those before it and of one that is still being written.                 *)
New(t, id, audience, name, no_recovery) ==
  /\ id \notin Drawn
  /\ Run(t, NewWrites(id, audience, name, no_recovery))
  /\ boundTo' = [k \in Drawn \cup {id} |-> IF k = id THEN audience ELSE boundTo[k]]
  /\ contested' =
       IF no_recovery THEN contested
       ELSE contested \cup Drawn
              \cup {k \in {id} : \E t2 \in Terminals : WritesShares(t2)}
  /\ UNCHANGED <<disk, printed, custody, signed, edits, edited, rebound>>

(* Variant: the shares say where the identity belongs; nobody asks them.   *)
AcceptsAnyAudience(shares, root, audience) ==
  /\ Cardinality(shares) >= Threshold
  /\ \A s \in shares : s.root = root

(* recover: enough different shares, all of the root that is named, and of *)
(* the audience that is named.                                             *)
Accepts(shares, root, audience) ==
  /\ \A s \in shares : s.audience = audience
  /\ Cardinality({s.index : s \in shares}) >= Threshold
  /\ \A s \in shares : s.root = root

(* The shares come back from people or are read from the disk.             *)
Available == (custody \cup {disk[i] : i \in SharePaths}) \ {Missing, Torn}

Recover(t, shares, root, audience, name) ==
  /\ shares \subseteq Available
  /\ Accepts(shares, root, audience)
  /\ Run(t, Write(name, FileOf(root, audience, None)))
  /\ UNCHANGED <<disk, boundTo, printed, contested, custody, signed, edits, edited, rebound>>

(* Variant: the key the file shows is not compared.                        *)
OpensUnlessTorn(file) == file \notin {Missing, Torn}

(* IdentityFile::open, under the right passphrase.                         *)
Opens(file) == file \notin {Missing, Torn} /\ file.public_key = file.sealed

(* login, step-up, delegate, revoke and succeed: one statement, with the   *)
(* key of the file, at the audience of the file.                           *)
SignStatement(name) ==
  /\ Opens(disk[name])
  /\ signed' = signed \cup {[key |-> disk[name].sealed,
                             shown |-> disk[name].public_key,
                             audience |-> disk[name].audience]}
  /\ UNCHANGED <<disk, job, boundTo, printed, contested, custody, edits, edited, rebound>>

-----------------------------------------------------------------------------
(* What happens to the files.                                              *)

(* The holder gives a share to somebody.                                   *)
HandOut(i) ==
  /\ disk[i] \notin {Missing, Torn}
  /\ custody' = custody \cup {disk[i]}
  /\ UNCHANGED <<disk, job, boundTo, printed, contested, signed, edits, edited, rebound>>

(* One more edit, which says that key belongs to the audience.             *)
ByHand(key, audience) ==
  /\ edits < MaxEdits
  /\ edits' = edits + 1
  /\ rebound' = IF audience = boundTo[key] THEN rebound
                ELSE rebound \cup {[key |-> key, audience |-> audience]}

(* Somebody edits a field of an identity file: all of it is plain text,    *)
(* but the sealed identity.                                                *)
EditsOf(file) ==
  {[file EXCEPT !.public_key = key] : key \in Identities}
    \cup {[file EXCEPT !.audience = audience] : audience \in Audiences}
    \cup {[file EXCEPT !.recovery = root] : root \in Identities \cup {None}}

Edit(name, file) ==
  /\ disk[name] \notin {Missing, Torn}
  /\ file \in EditsOf(disk[name]) \ {disk[name]}
  /\ disk' = [disk EXCEPT ![name] = file]
  /\ edited' = edited \cup {name}
  /\ ByHand(file.sealed, file.audience)
  /\ UNCHANGED <<job, boundTo, printed, contested, custody, signed>>

(* Somebody edits a share: its audience is plain text too, while nothing   *)
(* goes with the root once the rest of it is touched.                      *)
EditShare(i, audience) ==
  /\ disk[i] \notin {Missing, Torn} /\ disk[i].audience # audience
  /\ disk' = [disk EXCEPT ![i].audience = audience]
  /\ contested' = contested \cup {disk[i].root}
  /\ ByHand(disk[i].root, audience)
  /\ UNCHANGED <<job, boundTo, printed, custody, signed, edited>>

Next ==
  \/ \E t \in Terminals, audience \in Audiences, name \in Names :
       \/ \E id \in Identities, no_recovery \in BOOLEAN :
            New(t, id, audience, name, no_recovery)
       \/ \E shares \in SUBSET Available, root \in Drawn :
            Recover(t, shares, root, audience, name)
  \/ \E t \in Terminals : Proceed(t) \/ Stop(t)
  \/ \E name \in Names : SignStatement(name) \/ \E file \in IdentityFile : Edit(name, file)
  \/ \E i \in SharePaths :
       HandOut(i) \/ \E audience \in Audiences : EditShare(i, audience)

Spec == Init /\ [][Next]_vars

-----------------------------------------------------------------------------
(* Safety.                                                                 *)

Belongs(key, audience) ==
  audience = boundTo[key] \/ [key |-> key, audience |-> audience] \in rebound

(* A key acts under its own name, from whatever file, and at one relying   *)
(* party, the one its identity was created for: not after a recovery told  *)
(* another audience, and not with shares of several identities in one      *)
(* directory (main.rs:8-10, 434-439; identity_file.rs:183-193).  The       *)
(* audience in a file is not bound to the key beside it: where somebody    *)
(* wrote another one, that key and no other may act there as well.         *)
SignsWhereBound ==
  \A s \in signed :
    s.key \in Drawn /\ Belongs(s.key, s.audience) /\ s.shown = s.key

(* Once the holder was shown a root, the shares of that identity are on the*)
(* disk, whole, until another new gets in their way or somebody edits them:*)
(* whatever stops, the identity file included, what is there rebuilds it   *)
(* (main.rs:268-291).                                                      *)
PrintedRootRebuilds ==
  \A id \in printed \ contested :
    Accepts({disk[i] : i \in SharePaths} \cap ShareFile, id, boundTo[id])

(* A file that says its identity can be recovered, and was not edited, has *)
(* shown the holder the root that it takes (main.rs:274-291).              *)
RecordedRootWasShown ==
  \A name \in Names \ edited :
    disk[name] \notin {Missing, Torn} => disk[name].recovery \in printed \cup {None}
=============================================================================
