--------------------------- MODULE RecoveryProofs ---------------------------
(***************************************************************************)
(* The proof that a root the holder was shown is worth something: its      *)
(* shares are on the disk, whole, until another new gets in their way or   *)
(* somebody edits them.                                                    *)
(***************************************************************************)
EXTENDS IdentityStoreProofs

-----------------------------------------------------------------------------
(* The invariant: a terminal that is to print a root has done the first of *)
(* the operations of new, in their order, and nobody else writes shares.   *)

ShareOps == 2 * ShareCount

Shares(id) == Split(id, boundTo[id])

(* The second operation on a share is the one that completes it.           *)
Written(id, m) == \A i \in SharePaths : 2 * i <= m => disk[i] = Shares(id)[i]

OnShares(o) == o.op # "print" /\ o.path \in SharePaths

OnNames(o) == o.op # "print" /\ o.path \in Names

Prints(t, id) == \E k \in 1..Len(job[t]) : job[t][k] = PrintRoot(id)

(* What new has left to do after m operations on shares.                   *)
Remains(operations, id, m) ==
  /\ Len(operations) = ShareOps + 3 - m
  /\ \A k \in 1..(ShareOps - m) : operations[k] = ShareOp(Shares(id), m + k)
  /\ operations[ShareOps + 1 - m] = PrintRoot(id)
  /\ OnNames(operations[ShareOps + 2 - m])
  /\ OnNames(operations[ShareOps + 3 - m])

Alone(t) == \A u \in Terminals \ {t} : ~WritesShares(u)

Underway(t, id) ==
  /\ Alone(t)
  /\ \E m \in 0..ShareOps : Remains(job[t], id, m) /\ Written(id, m)

Complete(id) == Written(id, ShareOps) /\ \A t \in Terminals : ~WritesShares(t)

RecoveryInv ==
  \A id \in Drawn \ contested :
    /\ id \in printed => Complete(id)
    /\ \A t \in Terminals : Prints(t, id) => Underway(t, id)

-----------------------------------------------------------------------------
(* What follows from soundness.                                            *)

LEMMA Jobs ==
  ASSUME Inv, NEW t \in Terminals
  PROVE  /\ Len(job[t]) \in Nat /\ DOMAIN job[t] = 1..Len(job[t])
         /\ \A k \in 1..Len(job[t]) : job[t][k] \in SoundOperation
         /\ WritesShares(t) <=> \E k \in 1..Len(job[t]) : OnShares(job[t][k])
<1>1. job[t] \in Seq(SoundOperation)
  BY DEF Inv
<1>2. /\ Len(job[t]) \in Nat /\ DOMAIN job[t] = 1..Len(job[t])
      /\ \A k \in 1..Len(job[t]) : job[t][k] \in SoundOperation
  BY <1>1
<1>3. QED
  BY <1>2 DEF WritesShares, OnShares

(* Only the roots of identities that were drawn are printed.               *)
LEMMA PrintsDrawn ==
  ASSUME Inv, NEW t \in Terminals, NEW id, Prints(t, id)
  PROVE  id \in Drawn
<1>1. PICK k \in 1..Len(job[t]) : job[t][k] = PrintRoot(id)
  BY DEF Prints
<1>2. job[t][k] \in SoundOperation
  BY Jobs
<1>3. QED
  BY <1>1, <1>2 DEF SoundOperation, PrintRoot

LEMMA OnNamesIsNot ==
  ASSUME NEW o, OnNames(o)
  PROVE  ~OnShares(o) /\ \A id : o # PrintRoot(id)
  BY IdentityStoreAssumption DEF OnNames, OnShares, SharePaths, PrintRoot

-----------------------------------------------------------------------------
(* The steps.                                                              *)

(* A step that leaves alone the shares of what it does not contest, and    *)
(* starts no new with a recovery.                                          *)
LEMMA HarmlessKeeps ==
  ASSUME Inv, Inv', RecoveryInv,
         \A i \in SharePaths : disk'[i] = disk[i] \/ disk[i].root \in contested',
         printed' = printed, contested \subseteq contested',
         Drawn \subseteq Drawn', \A id \in Drawn : boundTo'[id] = boundTo[id],
         \A t \in Terminals :
           job'[t] = job[t] \/ \A k \in 1..Len(job'[t]) : OnNames(job'[t][k])
  PROVE  RecoveryInv'
<1>1. ASSUME NEW t \in Terminals, WritesShares(t)' PROVE WritesShares(t)
  <2>1. PICK k \in 1..Len(job'[t]) : OnShares(job'[t][k])
    <3>1. DOMAIN job'[t] = 1..Len(job'[t])
      <4>1. job'[t] \in Seq(SoundOperation')
        BY DEF Inv
      <4>2. QED
        BY <4>1
    <3>2. QED
      BY <1>1, <3>1 DEF WritesShares, OnShares
  <2>2. ~OnNames(job'[t][k])
    BY <2>1, OnNamesIsNot
  <2>3. job'[t] = job[t]
    BY <2>2
  <2>4. QED
    BY <2>1, <2>3, Jobs
<1>2. ASSUME NEW t \in Terminals, NEW id, Prints(t, id)'
      PROVE  job'[t] = job[t] /\ Prints(t, id)
  <2>1. PICK k \in 1..Len(job'[t]) : job'[t][k] = PrintRoot(id)
    BY <1>2 DEF Prints
  <2>2. ~OnNames(job'[t][k])
    BY <2>1, OnNamesIsNot
  <2>3. job'[t] = job[t]
    BY <2>2
  <2>4. QED
    BY <2>1, <2>3 DEF Prints
<1>3. SUFFICES ASSUME NEW id \in Drawn' \ contested'
               PROVE  /\ id \in printed' => Complete(id)'
                      /\ \A t \in Terminals : Prints(t, id)' => Underway(t, id)'
  BY DEF RecoveryInv
<1>4. CASE id \in Drawn
  <2>1. Shares(id)' = Shares(id)
    BY <1>4 DEF Shares
  <2>2. ASSUME NEW m, Written(id, m) PROVE Written(id, m)'
    <3>1. ASSUME NEW i \in SharePaths, 2 * i <= m PROVE disk'[i] = Shares(id)[i]
      <4>1. disk[i] = Shares(id)[i]
        BY <2>2, <3>1 DEF Written
      <4>2. Shares(id)[i].root = id
        BY DEF Shares, Split
      <4>3. QED
        BY <1>3, <4>1, <4>2
    <3>2. QED
      BY <2>1, <3>1 DEF Written
  <2>3. id \in printed' => Complete(id)'
    BY <1>1, <1>4, <2>2 DEF RecoveryInv, Complete
  <2>4. ASSUME NEW t \in Terminals, Prints(t, id)' PROVE Underway(t, id)'
    <3>1. job'[t] = job[t] /\ Underway(t, id)
      BY <1>2, <1>4, <2>4 DEF RecoveryInv
    <3>2. Alone(t)'
      BY <1>1, <3>1 DEF Underway, Alone
    <3>3. PICK m \in 0..ShareOps : Remains(job[t], id, m) /\ Written(id, m)
      BY <3>1 DEF Underway
    <3>4. Remains(job[t], id, m)'
      BY <2>1, <3>1, <3>3 DEF Remains
    <3>5. QED
      BY <2>2, <3>2, <3>3, <3>4 DEF Underway
  <2>5. QED
    BY <2>3, <2>4
<1>5. CASE id \notin Drawn
  BY <1>2, <1>5, PrintsDrawn DEF Inv, SoundHistory
<1>6. QED
  BY <1>4, <1>5

(* A new that splits: at most its own identity stays uncontested, and all  *)
(* is yet to be written.                                                   *)
LEMMA NewKeeps ==
  ASSUME Inv, Inv', NEW t \in Terminals, NEW id, NEW audience, NEW name \in Names,
         NEW no_recovery \in BOOLEAN, ~no_recovery,
         New(t, id, audience, name, no_recovery)
  PROVE  RecoveryInv'
<1> DEFINE w == AllWrites(id, audience, name)
           S == {Truncate(name), PrintRoot(id), Fill(name, FileOf(id, audience, id))}
                  \cup {Truncate(i) : i \in SharePaths}
                  \cup {Fill(i, Split(id, audience)[i]) : i \in SharePaths}
<1>1. /\ id \notin Drawn /\ job[t] = <<>> /\ printed' = printed
      /\ boundTo' = [k \in Drawn \cup {id} |-> IF k = id THEN audience ELSE boundTo[k]]
      /\ \A k : k \notin contested' =>
           k \notin Drawn /\ (k = id => \A u \in Terminals : ~WritesShares(u))
  BY DEF New, Run
<1>2. job' = [job EXCEPT ![t] = w]
  BY DEF New, Run, NewWrites, AllWrites, PrintRoot
<1>3. Drawn' = Drawn \cup {id} /\ Shares(id)' = Split(id, audience)
  BY <1>1 DEF Drawn, Shares
<1>4. ShareOps \in Nat
  BY IdentityStoreAssumption DEF ShareOps
<1>5. /\ Len(w) = ShareOps + 3
      /\ \A k \in 1..ShareOps : w[k] = ShareOp(Split(id, audience), k)
      /\ w[ShareOps + 1] = PrintRoot(id) /\ w[ShareOps + 2] = Truncate(name)
      /\ w[ShareOps + 3] = Fill(name, FileOf(id, audience, id))
  <2>1. /\ Truncate(name) \in S /\ PrintRoot(id) \in S
        /\ Fill(name, FileOf(id, audience, id)) \in S
        /\ \A i \in SharePaths : /\ Truncate(i) \in S
                                 /\ Fill(i, Split(id, audience)[i]) \in S
    OBVIOUS
  <2> HIDE DEF S
  <2>2. QED
    BY <2>1, AllWritesIs DEF ShareOps
<1> HIDE DEF w, S
<1>6. SUFFICES ASSUME id \notin contested'
               PROVE  /\ id \in printed' => Complete(id)'
                      /\ \A u \in Terminals : Prints(u, id)' => Underway(u, id)'
  BY <1>1, <1>3 DEF RecoveryInv
<1>7. id \notin printed'
  BY <1>1 DEF Inv, SoundHistory
<1>8. ASSUME NEW u \in Terminals, u # t PROVE job'[u] = job[u]
  BY <1>2, <1>8 DEF Inv
<1>9. ASSUME NEW u \in Terminals, Prints(u, id)' PROVE u = t
  <2>1. SUFFICES ASSUME u # t PROVE FALSE
    OBVIOUS
  <2>2. Prints(u, id)
    BY <1>8, <1>9, <2>1 DEF Prints
  <2>3. QED
    BY <1>1, <2>2, PrintsDrawn
<1>10. Alone(t)'
  BY <1>1, <1>6, <1>8 DEF Alone, WritesShares
<1>11. Remains(job[t], id, 0)'
  <2>1. job'[t] = w
    BY <1>2 DEF Inv
  <2>2. OnNames(w[ShareOps + 2]) /\ OnNames(w[ShareOps + 3])
    BY <1>5 DEF OnNames, Truncate, Fill
  <2>3. \A k \in 1..(ShareOps - 0) : w[k] = ShareOp(Split(id, audience), 0 + k)
    BY <1>4, <1>5
  <2>4. /\ ShareOps + 3 - 0 = ShareOps + 3 /\ ShareOps + 2 - 0 = ShareOps + 2
        /\ ShareOps + 1 - 0 = ShareOps + 1
    BY <1>4
  <2>5. QED
    BY <1>3, <1>5, <2>1, <2>2, <2>3, <2>4 DEF Remains
<1>12. Written(id, 0)'
  BY IdentityStoreAssumption DEF Written, SharePaths
<1>13. QED
  BY <1>4, <1>7, <1>9, <1>10, <1>11, <1>12 DEF Underway

(* One operation less.                                                     *)
LEMMA ProceedKeeps ==
  ASSUME Inv, RecoveryInv, NEW t \in Terminals, Proceed(t)
  PROVE  RecoveryInv'
<1> DEFINE next == job[t][1]
           rest == Tail(job[t])
<1>1. /\ next \in SoundOperation /\ rest \in Seq(SoundOperation)
      /\ Len(rest) = Len(job[t]) - 1 /\ Len(job[t]) \in Nat \ {0} /\ next = Head(job[t])
      /\ \A k \in 1..Len(rest) : rest[k] = job[t][k + 1]
  <2>1. job[t] \in Seq(SoundOperation) /\ job[t] # <<>>
    BY DEF Inv, Proceed
  <2>2. Len(job[t]) \in Nat \ {0} /\ Head(job[t]) = next
    BY <2>1, EmptySeq
  <2>3. QED
    BY <2>1, <2>2, HeadTailProperties
<1>2. job' = [job EXCEPT ![t] = rest] /\ boundTo' = boundTo /\ contested' = contested
  BY DEF Proceed
<1>3. \/ /\ next.op = "print" /\ printed' = printed \cup {next.root} /\ disk' = disk
      \/ /\ next.op # "print" /\ printed' = printed
         /\ disk' = [disk EXCEPT ![next.path] =
                       IF next.op = "fill" THEN next.content ELSE Torn]
  BY <1>1 DEF Proceed
<1> HIDE DEF rest
<1>4. job'[t] = rest /\ \A u \in Terminals \ {t} : job'[u] = job[u]
  BY <1>2 DEF Inv
<1>5. Drawn' = Drawn /\ \A id : Shares(id)' = Shares(id)
  BY <1>2 DEF Drawn, Shares
<1>6. ShareOps \in Nat
  BY IdentityStoreAssumption DEF ShareOps
<1>7. ASSUME ~OnShares(next), NEW i \in SharePaths PROVE disk'[i] = disk[i]
  BY <1>3, <1>7 DEF OnShares, Inv, SoundDisk, Paths
<1>8. OnShares(next) => WritesShares(t)
  BY <1>1, Jobs
<1>9. ASSUME NEW u \in Terminals, WritesShares(u)' PROVE WritesShares(u)
  <2>1. CASE u # t
    BY <1>4, <1>9, <2>1 DEF WritesShares
  <2>2. CASE u = t
    <3>1. PICK k \in 1..Len(rest) : OnShares(rest[k])
      BY <1>1, <1>4, <1>9, <2>2 DEF WritesShares, OnShares
    <3>2. k + 1 \in 1..Len(job[t]) /\ OnShares(job[t][k + 1])
      BY <1>1, <3>1
    <3>3. QED
      BY <2>2, <3>2, Jobs
  <2>3. QED
    BY <2>1, <2>2
<1>10. ASSUME NEW id, Prints(t, id)' PROVE Prints(t, id)
  <2>1. PICK k \in 1..Len(rest) : rest[k] = PrintRoot(id)
    BY <1>4, <1>10 DEF Prints
  <2>2. k + 1 \in 1..Len(job[t]) /\ job[t][k + 1] = PrintRoot(id)
    BY <1>1, <2>1
  <2>3. QED
    BY <2>2 DEF Prints
<1>11. SUFFICES ASSUME NEW id \in Drawn \ contested
                PROVE  /\ id \in printed' => Complete(id)'
                       /\ \A u \in Terminals : Prints(u, id)' => Underway(u, id)'
  BY <1>2, <1>5 DEF RecoveryInv
<1>12. ASSUME ~OnShares(next), NEW m, Written(id, m) PROVE Written(id, m)'
  BY <1>5, <1>7, <1>12 DEF Written
<1>13. ASSUME id \in printed PROVE Complete(id)'
  <2>1. Complete(id)
    BY <1>11, <1>13 DEF RecoveryInv
  <2>2. ~OnShares(next)
    BY <1>8, <2>1 DEF Complete
  <2>3. QED
    BY <1>9, <1>12, <2>1, <2>2 DEF Complete
<1>14. ASSUME NEW u \in Terminals, u # t, Prints(u, id)' PROVE Underway(u, id)'
  <2>1. job'[u] = job[u]
    BY <1>4, <1>14
  <2>2. Underway(u, id)
    BY <1>11, <1>14, <2>1 DEF RecoveryInv, Prints
  <2>3. ~OnShares(next)
    BY <1>8, <1>14, <2>2 DEF Underway, Alone
  <2>4. Alone(u)'
    BY <1>9, <2>2 DEF Underway, Alone
  <2>5. PICK m \in 0..ShareOps : Remains(job[u], id, m) /\ Written(id, m)
    BY <2>2 DEF Underway
  <2>6. Remains(job[u], id, m)'
    BY <1>5, <2>1, <2>5 DEF Remains
  <2>7. QED
    BY <1>12, <2>3, <2>4, <2>5, <2>6 DEF Underway
<1>15. CASE ~Prints(t, id)
  <2>1. next # PrintRoot(id)
    BY <1>1, <1>15 DEF Prints
  <2>2. id \in printed' => id \in printed
    <3>1. next.op = "print" => next = PrintRoot(next.root)
      BY <1>1 DEF SoundOperation, Operation, PrintRoot
    <3>2. QED
      BY <1>3, <2>1, <3>1
  <2>3. QED
    BY <1>10, <1>13, <1>14, <1>15, <2>2
<1>16. CASE Prints(t, id)
  <2>1. PICK m \in 0..ShareOps : Remains(job[t], id, m) /\ Written(id, m)
    BY <1>11, <1>16 DEF RecoveryInv, Underway
  <2>2. Alone(t) /\ Alone(t)'
    BY <1>9, <1>11, <1>16 DEF RecoveryInv, Underway, Alone
  <2>3. Len(rest) = ShareOps + 2 - m
    BY <1>1, <1>6, <2>1 DEF Remains
  <2>4. /\ OnNames(rest[ShareOps + 1 - m]) /\ OnNames(rest[ShareOps + 2 - m])
    <3>1. /\ ShareOps + 1 - m \in 1..Len(rest) /\ ShareOps + 2 - m \in 1..Len(rest)
          /\ ShareOps + 1 - m + 1 = ShareOps + 2 - m
          /\ ShareOps + 2 - m + 1 = ShareOps + 3 - m
      BY <1>6, <2>3
    <3>2. QED
      BY <1>1, <2>1, <3>1 DEF Remains
  <2>5. CASE m = ShareOps
    <3>1. next = PrintRoot(id)
      <4>1. ShareOps + 1 - m = 1
        BY <1>6, <2>5
      <4>2. QED
        BY <2>1, <4>1 DEF Remains
    <3>2. ~OnShares(next)
      BY <3>1 DEF OnShares, PrintRoot
    <3>3. \A k \in 1..Len(rest) : OnNames(rest[k])
      <4>1. Len(rest) = 2 /\ ShareOps + 1 - m = 1 /\ ShareOps + 2 - m = 2
        BY <1>6, <2>3, <2>5
      <4>2. QED
        BY <2>4, <4>1
    <3>4. ~WritesShares(t)'
      BY <1>1, <1>4, <3>3, OnNamesIsNot DEF WritesShares, OnShares
    <3>5. ~Prints(t, id)'
      BY <1>4, <3>3, OnNamesIsNot DEF Prints
    <3>6. Complete(id)'
      BY <1>12, <2>1, <2>2, <2>5, <3>2, <3>4 DEF Complete, Alone
    <3>7. QED
      BY <1>14, <3>5, <3>6
  <2>6. CASE m < ShareOps
    <3> DEFINE i == (m + 2) \div 2
    <3>1. next = ShareOp(Shares(id), m + 1)
      BY <1>6, <2>1, <2>6 DEF Remains
    <3>2. /\ i \in SharePaths /\ (m + 1 + 1) \div 2 = i
          /\ \A j \in SharePaths : 2 * j <= m + 1 /\ j # i => 2 * j <= m
          /\ 2 * i <= m + 1 => m + 1 = 2 * i
      BY <2>1, <2>6, IdentityStoreAssumption DEF SharePaths, ShareOps
    <3> HIDE DEF i
    <3>3. next = IF m + 1 = 2 * i THEN Fill(i, Shares(id)[i]) ELSE Truncate(i)
      BY <3>1, <3>2 DEF ShareOp
    <3>4. next.op # "print" /\ next.path = i
      BY <3>3 DEF Fill, Truncate
    <3>5. \A j \in SharePaths : j # i => disk'[j] = disk[j]
      BY <1>3, <3>4 DEF Inv, SoundDisk, Paths
    <3>6. m + 1 = 2 * i => disk'[i] = Shares(id)[i]
      <4>1. m + 1 = 2 * i => next.op = "fill" /\ next.content = Shares(id)[i]
        BY <3>3 DEF Fill
      <4>2. QED
        BY <1>3, <3>2, <3>4, <4>1 DEF Inv, SoundDisk, Paths
    <3>7. Written(id, m + 1)'
      BY <1>5, <2>1, <3>2, <3>5, <3>6 DEF Written
    <3>8. Remains(rest, id, m + 1)
      <4>1. /\ ShareOps + 3 - (m + 1) = ShareOps + 2 - m
            /\ ShareOps + 2 - (m + 1) = ShareOps + 1 - m
            /\ ShareOps + 1 - (m + 1) = ShareOps - m
        BY <1>6
      <4>2. rest[ShareOps - m] = PrintRoot(id)
        <5>1. ShareOps - m \in 1..Len(rest) /\ ShareOps - m + 1 = ShareOps + 1 - m
          BY <1>6, <2>3, <2>6
        <5>2. QED
          BY <1>1, <2>1, <5>1 DEF Remains
      <4>3. ASSUME NEW k \in 1..(ShareOps - (m + 1))
            PROVE  rest[k] = ShareOp(Shares(id), m + 1 + k)
        <5>1. /\ k \in 1..Len(rest) /\ k + 1 \in 1..(ShareOps - m)
              /\ m + (k + 1) = m + 1 + k
          BY <1>6, <2>3, <2>6
        <5>2. QED
          BY <1>1, <2>1, <5>1 DEF Remains
      <4>4. QED
        BY <2>3, <2>4, <4>1, <4>2, <4>3 DEF Remains
    <3>9. Underway(t, id)'
      <4>1. Remains(job[t], id, m + 1)'
        BY <1>4, <1>5, <3>8 DEF Remains
      <4>2. m + 1 \in 0..ShareOps
        BY <1>6, <2>6
      <4>3. QED
        BY <2>2, <3>7, <4>1, <4>2 DEF Underway
    <3>10. printed' = printed
      BY <1>3, <3>4
    <3>11. QED
      BY <1>13, <1>14, <3>9, <3>10
  <2>7. QED
    BY <1>6, <2>5, <2>6
<1>17. QED
  BY <1>15, <1>16

(* What new without a recovery and recover write: an identity file.        *)
LEMMA FileKeeps ==
  ASSUME Inv, Inv', RecoveryInv, NEW t \in Terminals, NEW name \in Names, NEW content,
         job' = [job EXCEPT ![t] = Write(name, content)],
         disk' = disk, printed' = printed, contested' = contested,
         Drawn \subseteq Drawn', \A id \in Drawn : boundTo'[id] = boundTo[id]
  PROVE  RecoveryInv'
<1> DEFINE w == Write(name, content)
           S == {Truncate(name), Fill(name, content)}
<1>1. Len(w) = 2 /\ w[1] = Truncate(name) /\ w[2] = Fill(name, content)
  <2>1. Truncate(name) \in S /\ Fill(name, content) \in S
    OBVIOUS
  <2> HIDE DEF S
  <2>2. QED
    BY <2>1, WriteIs
<1>2. job' = [job EXCEPT ![t] = w]
  OBVIOUS
<1> HIDE DEF w, S
<1>3. \A k \in 1..Len(w) : OnNames(w[k])
  <2>1. OnNames(w[1]) /\ OnNames(w[2])
    BY <1>1 DEF OnNames, Truncate, Fill
  <2>2. QED
    BY <1>1, <2>1
<1>4. \A u \in Terminals :
        job'[u] = job[u] \/ \A k \in 1..Len(job'[u]) : OnNames(job'[u][k])
  <2>1. job'[t] = w /\ \A u \in Terminals \ {t} : job'[u] = job[u]
    BY <1>2 DEF Inv
  <2>2. QED
    BY <1>3, <2>1
<1>5. QED
  BY <1>4, HarmlessKeeps

LEMMA StepKeeps ==
  ASSUME Inv, Inv', RecoveryInv, [Next]_vars PROVE RecoveryInv'
<1>1. ASSUME NEW t \in Terminals, NEW audience \in Audiences, NEW name \in Names,
             NEW id \in Identities, NEW no_recovery \in BOOLEAN,
             New(t, id, audience, name, no_recovery)
      PROVE  RecoveryInv'
  <2>1. CASE no_recovery
    <3>1. /\ id \notin Drawn /\ disk' = disk /\ printed' = printed
          /\ boundTo' = [k \in Drawn \cup {id} |-> IF k = id THEN audience ELSE boundTo[k]]
      BY <1>1 DEF New
    <3>2. /\ contested' = contested
          /\ job' = [job EXCEPT ![t] = Write(name, FileOf(id, audience, None))]
      BY <1>1, <2>1 DEF New, Run, NewWrites
    <3>3. Drawn \subseteq Drawn' /\ \A k \in Drawn : boundTo'[k] = boundTo[k]
      BY <3>1 DEF Drawn
    <3>4. QED
      BY <3>1, <3>2, <3>3, FileKeeps
  <2>2. CASE ~no_recovery
    BY <1>1, <2>2, NewKeeps
  <2>3. QED
    BY <2>1, <2>2
<1>2. ASSUME NEW t \in Terminals, NEW audience \in Audiences, NEW name \in Names,
             NEW shares \in SUBSET Available, NEW root \in Drawn,
             Recover(t, shares, root, audience, name)
      PROVE  RecoveryInv'
  <2>1. /\ job' = [job EXCEPT ![t] = Write(name, FileOf(root, audience, None))]
        /\ disk' = disk /\ boundTo' = boundTo
        /\ printed' = printed /\ contested' = contested
    BY <1>2 DEF Recover, Run
  <2>2. QED
    BY <2>1, FileKeeps DEF Drawn
<1>3. ASSUME NEW t \in Terminals, Proceed(t) PROVE RecoveryInv'
  BY <1>3, ProceedKeeps
<1>4. ASSUME NEW t \in Terminals, Stop(t) PROVE RecoveryInv'
  <2>1. \A u \in Terminals : job'[u] = job[u] \/ job'[u] = <<>>
    BY <1>4 DEF Stop, Inv
  <2>2. \A u \in Terminals :
          job'[u] = job[u] \/ \A k \in 1..Len(job'[u]) : OnNames(job'[u][k])
    BY <2>1
  <2>3. QED
    BY <1>4, <2>2, HarmlessKeeps DEF Stop, Drawn
<1>5. ASSUME NEW name \in Names, NEW file \in IdentityFile, Edit(name, file)
      PROVE  RecoveryInv'
  <2>1. \A i \in SharePaths : disk'[i] = disk[i]
    <3>1. \A i \in SharePaths : i \in Paths /\ i # name
      BY IdentityStoreAssumption DEF SharePaths, Paths
    <3>2. QED
      BY <1>5, <3>1 DEF Edit, Inv, SoundDisk
  <2>2. QED
    BY <1>5, <2>1, HarmlessKeeps DEF Edit, Drawn
<1>6. ASSUME NEW i \in SharePaths, NEW audience \in Audiences, EditShare(i, audience)
      PROVE  RecoveryInv'
  <2>1. \A j \in SharePaths : disk'[j] = disk[j] \/ disk[j].root \in contested'
    BY <1>6 DEF EditShare, Inv, SoundDisk
  <2>2. QED
    BY <1>6, <2>1, HarmlessKeeps DEF EditShare, Drawn
<1>7. CASE \/ \E name \in Names : SignStatement(name)
           \/ \E i \in SharePaths : HandOut(i)
           \/ UNCHANGED vars
  <2>1. /\ disk' = disk /\ job' = job /\ boundTo' = boundTo
        /\ printed' = printed /\ contested' = contested
    BY <1>7 DEF SignStatement, HandOut, vars
  <2>2. QED
    BY <2>1, HarmlessKeeps DEF Drawn
<1>8. QED
  BY <1>1, <1>2, <1>3, <1>4, <1>5, <1>6, <1>7 DEF Next

LEMMA AlwaysKept == Spec => []RecoveryInv
<1>1. Init => RecoveryInv
  BY DEF Init, RecoveryInv, Drawn
<1>2. Inv /\ Inv' /\ RecoveryInv /\ [Next]_vars => RecoveryInv'
  BY StepKeeps
<1>3. QED
  BY <1>1, <1>2, AlwaysSound, PTL DEF Spec

-----------------------------------------------------------------------------
(* The theorem.                                                            *)

(* Whoever was shown a root finds shares under it that rebuild the         *)
(* identity, until another new overlaps or follows or a share is edited    *)
(* (main.rs New, recovery.rs combine): PrintedRootRebuilds.                *)
THEOREM PrintedRootsRebuild == Spec => []PrintedRootRebuilds
<1>1. Inv /\ RecoveryInv => PrintedRootRebuilds
  <2>1. SUFFICES ASSUME Inv, RecoveryInv, NEW id \in printed \ contested
                 PROVE  Accepts({disk[i] : i \in SharePaths} \cap ShareFile, id, boundTo[id])
    BY DEF PrintedRootRebuilds
  <2> DEFINE found == {disk[i] : i \in SharePaths} \cap ShareFile
  <2>2. id \in Drawn /\ id \in Identities /\ boundTo[id] \in Audiences
    BY <2>1 DEF Inv, SoundHistory
  <2>3. \A i \in SharePaths : disk[i] = Shares(id)[i]
    <3>1. Written(id, ShareOps)
      BY <2>1, <2>2 DEF RecoveryInv, Complete
    <3>2. \A i \in SharePaths : 2 * i <= ShareOps
      BY IdentityStoreAssumption DEF SharePaths, ShareOps
    <3>3. QED
      BY <3>1, <3>2 DEF Written
  <2>4. \A i \in SharePaths :
          /\ disk[i] = [audience |-> boundTo[id], index |-> i, root |-> id]
          /\ disk[i] \in ShareFile
    BY <2>2, <2>3 DEF Shares, Split, ShareFile
  <2>5. \A s \in found : s.audience = boundTo[id] /\ s.root = id /\ s.index \in SharePaths
    <3>1. ASSUME NEW i \in SharePaths
          PROVE  /\ disk[i].audience = boundTo[id] /\ disk[i].root = id
                 /\ disk[i].index \in SharePaths
      <4>1. disk[i] = [audience |-> boundTo[id], index |-> i, root |-> id]
        BY <2>4
      <4>2. QED
        BY <4>1
    <3>2. QED
      BY <3>1
  <2>6. ASSUME NEW i \in SharePaths PROVE disk[i] \in found /\ disk[i].index = i
    <3>1. disk[i] = [audience |-> boundTo[id], index |-> i, root |-> id]
      BY <2>4
    <3>2. disk[i] \in found
      BY <2>4
    <3>3. QED
      BY <3>1, <3>2
  <2> HIDE DEF found
  <2>7. {s.index : s \in found} = SharePaths
    BY <2>5, <2>6
  <2>8. Cardinality(SharePaths) >= Threshold
    <3>1. Cardinality(1..ShareCount) = ShareCount
      BY IdentityStoreAssumption, FS_Interval
    <3>2. QED
      BY <3>1, IdentityStoreAssumption DEF SharePaths
  <2>9. QED
    BY <2>5, <2>7, <2>8 DEF Accepts, found
<1>2. QED
  BY <1>1, AlwaysSound, AlwaysKept, PTL
=============================================================================
