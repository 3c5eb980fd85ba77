------------------------ MODULE IdentityStoreProofs ------------------------
(***************************************************************************)
(* Proofs about IdentityStore, for every number of shares, of files and of *)
(* terminals.                                                              *)
(***************************************************************************)
EXTENDS IdentityStore, SequenceTheorems, FiniteSetTheorems, TLAPS

-----------------------------------------------------------------------------
(* The invariant: whatever is written, or is yet to be, belongs where the  *)
(* identity it came from does, and a file that promises a recovery is      *)
(* written after its root is shown.                                        *)

SoundFile(f) ==
  /\ f \in IdentityFile
  /\ f.sealed \in Drawn /\ Belongs(f.sealed, f.audience)

SoundShare(s) ==
  /\ s \in ShareFile
  /\ s.root \in Drawn /\ Belongs(s.root, s.audience)

SoundOperation ==
  {o \in Operation :
     /\ o.op = "print" => o.root \in Drawn
     /\ o.op = "fill" /\ o.path \in Names => SoundFile(o.content)
     /\ o.op = "fill" /\ o.path \in SharePaths => SoundShare(o.content)}

Promises(o) == o.op = "fill" /\ o.path \in Names /\ o.content.recovery # None

(* The root that o promises has been shown, or comes earlier in operations.*)
ShownBefore(operations, i) ==
  LET root == operations[i].content.recovery
  IN  \/ root \in printed
      \/ \E j \in 1..(i - 1) : operations[j].op = "print" /\ operations[j].root = root

InOrder(operations) ==
  \A i \in 1..Len(operations) :
    Promises(operations[i]) => ShownBefore(operations, i)

SoundDisk ==
  /\ disk \in [Paths -> IdentityFile \cup ShareFile \cup {Missing, Torn}]
  /\ \A n \in Names : disk[n] \notin {Missing, Torn} => SoundFile(disk[n])
  /\ \A i \in SharePaths : disk[i] \notin {Missing, Torn} => SoundShare(disk[i])

SoundHistory ==
  /\ Drawn \subseteq Identities /\ \A id \in Drawn : boundTo[id] \in Audiences
  /\ printed \subseteq Drawn /\ contested \subseteq Drawn
  /\ \A s \in custody : SoundShare(s)
  /\ signed \subseteq [key : Identities, shown : Identities, audience : Audiences]
  /\ edits \in 0..MaxEdits /\ edited \subseteq Names
  /\ rebound \subseteq [key : Identities, audience : Audiences]

Inv ==
  /\ SoundDisk
  /\ SoundHistory
  /\ job \in [Terminals -> Seq(SoundOperation)]
  /\ \A t \in Terminals : InOrder(job[t])
  /\ SignsWhereBound
  /\ RecordedRootWasShown

-----------------------------------------------------------------------------
(* What is sound stays sound: identities, and where they belong, are only  *)
(* added.                                                                  *)

LEMMA StaysSound ==
  ASSUME Drawn \subseteq Drawn', \A id \in Drawn : boundTo'[id] = boundTo[id],
         rebound \subseteq rebound'
  PROVE  /\ \A f : SoundFile(f) => SoundFile(f)'
         /\ \A s : SoundShare(s) => SoundShare(s)'
         /\ SoundOperation \subseteq SoundOperation'
         /\ Seq(SoundOperation) \subseteq Seq(SoundOperation')
<1>1. \A f : SoundFile(f) => SoundFile(f)'
  BY DEF SoundFile, Belongs
<1>2. \A s : SoundShare(s) => SoundShare(s)'
  BY DEF SoundShare, Belongs
<1>3. SoundOperation \subseteq SoundOperation'
  BY <1>1, <1>2 DEF SoundOperation
<1>4. Seq(SoundOperation) \subseteq Seq(SoundOperation')
  BY <1>3
<1>5. QED
  BY <1>1, <1>2, <1>3, <1>4

LEMMA InitSound == Init => Inv
<1>1. SUFFICES ASSUME Init PROVE Inv
  OBVIOUS
<1>2. Drawn = {} /\ \A t \in Terminals : job[t] = <<>>
  BY <1>1 DEF Init, Drawn
<1>3. SoundDisk
  BY <1>1 DEF Init, SoundDisk, Paths
<1>4. SoundHistory
  BY <1>1, <1>2, IdentityStoreAssumption DEF Init, SoundHistory
<1>5. job \in [Terminals -> Seq(SoundOperation)]
  BY <1>1 DEF Init
<1>6. \A t \in Terminals : InOrder(job[t])
  BY <1>2 DEF InOrder
<1>7. SignsWhereBound /\ RecordedRootWasShown
  BY <1>1 DEF Init, SignsWhereBound, RecordedRootWasShown, Paths
<1>8. QED
  BY <1>3, <1>4, <1>5, <1>6, <1>7 DEF Inv

-----------------------------------------------------------------------------
(* What the commands write.                                                *)

Truncate(path) == [op |-> "truncate", path |-> path]
Fill(path, content) == [op |-> "fill", path |-> path, content |-> content]
PrintRoot(id) == [op |-> "print", root |-> id]

LEMMA WriteIs ==
  ASSUME NEW S, NEW path, NEW content, Truncate(path) \in S, Fill(path, content) \in S
  PROVE  /\ Write(path, content) \in Seq(S) /\ Len(Write(path, content)) = 2
         /\ Write(path, content)[1] = Truncate(path)
         /\ Write(path, content)[2] = Fill(path, content)
  BY DEF Write, Truncate, Fill

(* The k-th operation that writes shares.                                  *)
ShareOp(shares, k) ==
  LET i == (k + 1) \div 2
  IN  IF k = 2 * i THEN Fill(i, shares[i]) ELSE Truncate(i)

LEMMA WriteSharesIs ==
  ASSUME NEW S, NEW shares,
         \A i \in SharePaths : Truncate(i) \in S /\ Fill(i, shares[i]) \in S
  PROVE  /\ WriteShares(shares) \in Seq(S) /\ Len(WriteShares(shares)) = 2 * ShareCount
         /\ \A k \in 1..2 * ShareCount :
              /\ WriteShares(shares)[k] = ShareOp(shares, k)
              /\ \E i \in SharePaths :
                   WriteShares(shares)[k] \in {Truncate(i), Fill(i, shares[i])}
<1>1. ShareCount \in Nat /\ 2 * ShareCount \in Nat
  BY IdentityStoreAssumption
<1>2. ASSUME NEW k \in 1..2 * ShareCount
      PROVE  /\ WriteShares(shares)[k] = ShareOp(shares, k)
             /\ \E i \in SharePaths :
                  WriteShares(shares)[k] \in {Truncate(i), Fill(i, shares[i])}
  <2> DEFINE i == (k + 1) \div 2
  <2>1. i \in SharePaths
    BY <1>1, <1>2 DEF SharePaths
  <2>2. WriteShares(shares)[k] = Write(i, shares[i])[IF k = 2 * i THEN 2 ELSE 1]
    BY <1>2 DEF WriteShares
  <2> HIDE DEF i
  <2>3. Truncate(i) \in S /\ Fill(i, shares[i]) \in S
    BY <2>1
  <2>4. Write(i, shares[i])[1] = Truncate(i) /\ Write(i, shares[i])[2] = Fill(i, shares[i])
    BY <2>3, WriteIs
  <2>5. WriteShares(shares)[k] = IF k = 2 * i THEN Fill(i, shares[i]) ELSE Truncate(i)
    BY <2>2, <2>4
  <2>6. QED
    BY <2>1, <2>5 DEF ShareOp, i
<1>3. \A k \in 1..2 * ShareCount : WriteShares(shares)[k] \in S
  BY <1>2
<1>4. DOMAIN WriteShares(shares) = 1..2 * ShareCount
  BY DEF WriteShares
<1>5. WriteShares(shares) \in [1..2 * ShareCount -> S]
  <2>1. WriteShares(shares) = [k \in 1..2 * ShareCount |-> WriteShares(shares)[k]]
    BY DEF WriteShares
  <2>2. QED
    BY <1>3, <2>1
<1>6. WriteShares(shares) \in Seq(S) /\ Len(WriteShares(shares)) = 2 * ShareCount
  BY <1>1, <1>4, <1>5
<1>7. QED
  BY <1>2, <1>6

(* One element and then two, at the end of a sequence.                     *)
LEMMA AppendThree ==
  ASSUME NEW S, NEW n \in Nat, NEW a \in Seq(S), NEW x \in S, NEW c \in Seq(S),
         Len(a) = n, Len(c) = 2
  PROVE  /\ (a \o <<x>>) \o c \in Seq(S) /\ Len((a \o <<x>>) \o c) = n + 3
         /\ \A k \in 1..n : ((a \o <<x>>) \o c)[k] = a[k]
         /\ ((a \o <<x>>) \o c)[n + 1] = x
         /\ ((a \o <<x>>) \o c)[n + 2] = c[1] /\ ((a \o <<x>>) \o c)[n + 3] = c[2]
<1> DEFINE ax == a \o <<x>>
<1>1. /\ ax \in Seq(S) /\ Len(ax) = n + 1
      /\ \A k \in 1..n : ax[k] = a[k]
      /\ ax[n + 1] = x
  OBVIOUS
<1> HIDE DEF ax
<1>2. /\ ax \o c \in Seq(S) /\ Len(ax \o c) = n + 3
      /\ \A k \in 1..(n + 3) :
           (ax \o c)[k] = IF k <= n + 1 THEN ax[k] ELSE c[k - (n + 1)]
  <2>1. /\ ax \o c \in Seq(S) /\ Len(ax \o c) = Len(ax) + Len(c)
        /\ \A k \in 1..Len(ax) + Len(c) :
             (ax \o c)[k] = IF k <= Len(ax) THEN ax[k] ELSE c[k - Len(ax)]
    BY <1>1, ConcatProperties
  <2>2. Len(ax) = n + 1 /\ Len(ax) + Len(c) = n + 3
    BY <1>1
  <2>3. QED
    BY <2>1, <2>2
<1>3. \A k \in 1..n : (ax \o c)[k] = a[k]
  BY <1>1, <1>2
<1>4. (ax \o c)[n + 1] = x
  BY <1>1, <1>2
<1>5. (ax \o c)[n + 2] = c[1] /\ (ax \o c)[n + 3] = c[2]
  <2>1. /\ n + 2 \in 1..(n + 3) /\ ~(n + 2 <= n + 1) /\ n + 2 - (n + 1) = 1
        /\ n + 3 \in 1..(n + 3) /\ ~(n + 3 <= n + 1) /\ n + 3 - (n + 1) = 2
    OBVIOUS
  <2>2. QED
    BY <1>2, <2>1
<1>6. QED
  BY <1>2, <1>3, <1>4, <1>5 DEF ax

(* With recovery: the shares, the root and the file.                       *)
AllWrites(id, audience, name) ==
  WriteShares(Split(id, audience)) \o <<PrintRoot(id)>>
    \o Write(name, FileOf(id, audience, id))

LEMMA AllWritesIs ==
  ASSUME NEW S, NEW id, NEW audience, NEW name,
         Truncate(name) \in S, PrintRoot(id) \in S,
         Fill(name, FileOf(id, audience, id)) \in S,
         \A i \in SharePaths : /\ Truncate(i) \in S
                              /\ Fill(i, Split(id, audience)[i]) \in S
  PROVE  LET w == AllWrites(id, audience, name)
             n == 2 * ShareCount
         IN  /\ w \in Seq(S) /\ Len(w) = n + 3
             /\ \A k \in 1..n :
                  /\ w[k] = ShareOp(Split(id, audience), k)
                  /\ \E i \in SharePaths :
                       w[k] \in {Truncate(i), Fill(i, Split(id, audience)[i])}
             /\ w[n + 1] = PrintRoot(id) /\ w[n + 2] = Truncate(name)
             /\ w[n + 3] = Fill(name, FileOf(id, audience, id))
<1> DEFINE w == AllWrites(id, audience, name)
           shares == Split(id, audience)
           a == WriteShares(shares)
           x == PrintRoot(id)
           c == Write(name, FileOf(id, audience, id))
           n == 2 * ShareCount
<1>1. w = (a \o <<x>>) \o c
  BY DEF AllWrites
<1>2. /\ a \in Seq(S) /\ Len(a) = n
      /\ \A k \in 1..n :
           /\ a[k] = ShareOp(shares, k)
           /\ \E i \in SharePaths : a[k] \in {Truncate(i), Fill(i, shares[i])}
  BY WriteSharesIs
<1>3. /\ c \in Seq(S) /\ Len(c) = 2 /\ c[1] = Truncate(name)
      /\ c[2] = Fill(name, FileOf(id, audience, id))
  BY WriteIs
<1>4. n \in Nat
  BY IdentityStoreAssumption
<1> HIDE DEF w, shares, a, x, c, n
<1>5. x \in S
  BY DEF x
<1>6. /\ w \in Seq(S) /\ Len(w) = n + 3 /\ \A k \in 1..n : w[k] = a[k]
      /\ w[n + 1] = x /\ w[n + 2] = c[1] /\ w[n + 3] = c[2]
  BY <1>1, <1>2, <1>3, <1>4, <1>5, AppendThree
<1>7. QED
  BY <1>2, <1>3, <1>6 DEF w, x, n, shares

(* The root comes before the file that promises it.                        *)
LEMMA NewWritesInOrder ==
  ASSUME NEW S, NEW id, NEW audience, NEW name \in Names, NEW no_recovery \in BOOLEAN,
         Truncate(name) \in S, PrintRoot(id) \in S,
         \A recovery \in {None, id} : Fill(name, FileOf(id, audience, recovery)) \in S,
         \A i \in SharePaths : /\ Truncate(i) \in S
                              /\ Fill(i, Split(id, audience)[i]) \in S
  PROVE  LET w == NewWrites(id, audience, name, no_recovery)
         IN  /\ w \in Seq(S)
             /\ \A i \in 1..Len(w) : Promises(w[i]) =>
                  \E j \in 1..(i - 1) :
                    w[j].op = "print" /\ w[j].root = w[i].content.recovery
<1> DEFINE w == NewWrites(id, audience, name, no_recovery)
<1>1. CASE no_recovery
  <2>1. /\ w \in Seq(S) /\ Len(w) = 2 /\ w[1] = Truncate(name)
        /\ w[2] = Fill(name, FileOf(id, audience, None))
    <3>1. w = Write(name, FileOf(id, audience, None))
      BY <1>1 DEF NewWrites
    <3>2. QED
      BY <3>1, WriteIs
  <2>2. ~Promises(w[1]) /\ ~Promises(w[2])
    BY <2>1 DEF Promises, Truncate, Fill, FileOf
  <2> HIDE DEF w
  <2>3. \A i \in 1..Len(w) : ~Promises(w[i])
    BY <2>1, <2>2
  <2>4. QED
    BY <2>1, <2>3 DEF w
<1>2. CASE ~no_recovery
  <2> DEFINE n == 2 * ShareCount
  <2>1. n \in Nat
    BY IdentityStoreAssumption
  <2>2. /\ w \in Seq(S) /\ Len(w) = n + 3
        /\ \A k \in 1..n : \E i \in SharePaths :
             w[k] \in {Truncate(i), Fill(i, Split(id, audience)[i])}
        /\ w[n + 1] = PrintRoot(id) /\ w[n + 2] = Truncate(name)
        /\ w[n + 3] = Fill(name, FileOf(id, audience, id))
    <3>1. w = AllWrites(id, audience, name)
      BY <1>2 DEF NewWrites, AllWrites, PrintRoot
    <3>2. Fill(name, FileOf(id, audience, id)) \in S
      OBVIOUS
    <3> HIDE DEF w
    <3>3. QED
      BY <3>1, <3>2, AllWritesIs
  <2> HIDE DEF w, n
  <2>3. ASSUME NEW i \in 1..(n + 3), Promises(w[i])
        PROVE  \E j \in 1..(i - 1) :
                 w[j].op = "print" /\ w[j].root = w[i].content.recovery
    <3>1. i \notin 1..n
      <4>1. \A p \in SharePaths : p \notin Names
        BY IdentityStoreAssumption DEF SharePaths
      <4>2. \A p \in SharePaths : \A x : ~Promises(Truncate(p)) /\ ~Promises(Fill(p, x))
        BY <4>1 DEF Promises, Truncate, Fill
      <4>3. QED
        BY <2>2, <2>3, <4>2
    <3>2. i # n + 1 /\ i # n + 2
      BY <2>2, <2>3 DEF Promises, PrintRoot, Truncate
    <3>3. i = n + 3
      BY <2>1, <2>3, <3>1, <3>2
    <3>4. w[i].content.recovery = id
      BY <2>2, <3>3 DEF Fill, FileOf
    <3>5. w[n + 1].op = "print" /\ w[n + 1].root = id
      BY <2>2 DEF PrintRoot
    <3>6. n + 1 \in 1..(i - 1)
      BY <2>1, <3>3
    <3>7. QED
      BY <3>4, <3>5, <3>6
  <2>4. QED
    BY <2>2, <2>3 DEF w
<1>3. QED
  BY <1>1, <1>2

-----------------------------------------------------------------------------
(* The steps.                                                              *)

LEMMA Operations ==
  \A o \in SoundOperation :
    \/ o.op = "print" /\ o.root \in Drawn
    \/ o.op = "truncate" /\ o.path \in Paths
    \/ o.op = "fill" /\ o.path \in Names /\ SoundFile(o.content)
    \/ o.op = "fill" /\ o.path \in SharePaths /\ SoundShare(o.content)
  BY DEF SoundOperation, Operation, Paths

LEMMA OrderKept ==
  ASSUME NEW t \in Terminals, InOrder(job[t]), job'[t] = job[t],
         printed \subseteq printed'
  PROVE  InOrder(job[t])'
  BY DEF InOrder, ShownBefore, Promises

(* What was written next.                                                  *)
LEMMA ProceedSound ==
  ASSUME Inv, NEW t \in Terminals, Proceed(t) PROVE Inv'
<1> DEFINE next == Head(job[t])
           rest == Tail(job[t])
<1>1. /\ next \in SoundOperation /\ rest \in Seq(SoundOperation)
      /\ Len(rest) = Len(job[t]) - 1 /\ Len(job[t]) \in Nat \ {0} /\ next = job[t][1]
      /\ \A i \in 1..Len(rest) : rest[i] = job[t][i + 1]
  <2>1. job[t] \in Seq(SoundOperation) /\ job[t] # <<>>
    BY DEF Inv, Proceed
  <2>2. Len(job[t]) \in Nat \ {0} /\ next = job[t][1]
    BY <2>1, EmptySeq
  <2>3. QED
    BY <2>1, <2>2, HeadTailProperties
<1>2. /\ job' = [job EXCEPT ![t] = rest]
      /\ boundTo' = boundTo /\ contested' = contested
      /\ custody' = custody /\ signed' = signed /\ edits' = edits /\ rebound' = rebound
  BY DEF Proceed
<1>3. \/ /\ next.op = "print" /\ printed' = printed \cup {next.root} /\ disk' = disk
         /\ edited' = edited
      \/ /\ next.op # "print" /\ printed' = printed /\ edited' = edited \ {next.path}
         /\ disk' = [disk EXCEPT ![next.path] =
                       IF next.op = "fill" THEN next.content ELSE Torn]
  BY DEF Proceed
<1> HIDE DEF next, rest
<1>4. Drawn' = Drawn /\ SoundOperation' = SoundOperation
  BY <1>2 DEF Drawn, SoundOperation, SoundFile, SoundShare, Belongs
<1>5. \A n \in Names : n \notin SharePaths
  BY IdentityStoreAssumption DEF SharePaths
<1>6. \A p \in Paths :
        \/ disk'[p] \in {disk[p], Torn}
        \/ next.op = "fill" /\ p = next.path /\ disk'[p] = next.content
  <2>1. disk \in [Paths -> IdentityFile \cup ShareFile \cup {Missing, Torn}]
    BY DEF Inv, SoundDisk
  <2>2. CASE disk' = disk
    BY <2>2
  <2>3. CASE disk' = [disk EXCEPT ![next.path] =
                       IF next.op = "fill" THEN next.content ELSE Torn]
    <3> DEFINE x == next.path
               v == IF next.op = "fill" THEN next.content ELSE Torn
    <3>1. disk' = [disk EXCEPT ![x] = v]
      BY <2>3
    <3>2. v = Torn \/ (next.op = "fill" /\ v = next.content)
      OBVIOUS
    <3> HIDE DEF x, v
    <3>3. \A p \in Paths : disk'[p] = IF p = x THEN v ELSE disk[p]
      BY <2>1, <3>1
    <3>4. QED
      BY <3>2, <3>3 DEF x
  <2>4. QED
    BY <1>3, <2>2, <2>3
<1>7. SoundDisk'
  <2>1. disk' \in [Paths -> IdentityFile \cup ShareFile \cup {Missing, Torn}]
    BY <1>1, <1>3, Operations DEF Inv, SoundDisk, SoundFile, SoundShare
  <2>2. ASSUME NEW n \in Names, disk'[n] \notin {Missing, Torn} PROVE SoundFile(disk'[n])
    BY <1>1, <1>5, <1>6, <2>2, Operations DEF Inv, SoundDisk, Paths
  <2>3. ASSUME NEW i \in SharePaths, disk'[i] \notin {Missing, Torn}
        PROVE  SoundShare(disk'[i])
    BY <1>1, <1>5, <1>6, <2>3, Operations DEF Inv, SoundDisk, Paths
  <2>4. QED
    BY <1>2, <1>4, <2>1, <2>2, <2>3 DEF SoundDisk, SoundFile, SoundShare, Belongs
<1>8. SoundHistory'
  BY <1>1, <1>2, <1>3, <1>4, Operations DEF Inv, SoundHistory, SoundShare, Belongs
<1>9. job' \in [Terminals -> Seq(SoundOperation')]
  BY <1>1, <1>2, <1>4 DEF Inv
<1>10. ASSUME NEW u \in Terminals PROVE InOrder(job[u])'
  <2>1. CASE u # t
    BY <1>2, <1>3, <2>1, OrderKept DEF Inv
  <2>2. CASE u = t
    <3>1. job'[u] = rest
      BY <1>2, <2>2 DEF Inv
    <3>2. ASSUME NEW i \in 1..Len(rest), Promises(rest[i])
          PROVE  \/ rest[i].content.recovery \in printed'
                 \/ \E j \in 1..(i - 1) : rest[j].op = "print"
                                        /\ rest[j].root = rest[i].content.recovery
      <4>1. i + 1 \in 1..Len(job[t]) /\ rest[i] = job[t][i + 1]
        BY <1>1
      <4>2. ShownBefore(job[t], i + 1)
        BY <3>2, <4>1 DEF Inv, InOrder
      <4>3. CASE rest[i].content.recovery \in printed
        BY <1>3, <4>3
      <4>4. CASE \E j \in 1..i : job[t][j].op = "print"
                                /\ job[t][j].root = rest[i].content.recovery
        <5>1. PICK j \in 1..i : job[t][j].op = "print"
                               /\ job[t][j].root = rest[i].content.recovery
          BY <4>4
        <5>2. CASE j = 1
          BY <1>1, <1>3, <5>1, <5>2
        <5>3. CASE j # 1
          <6>1. j - 1 \in 1..(i - 1) /\ j - 1 \in 1..Len(rest)
            BY <5>3
          <6>2. rest[j - 1] = job[t][j]
            BY <1>1, <6>1
          <6>3. QED
            BY <5>1, <6>1, <6>2
        <5>4. QED
          BY <5>2, <5>3
      <4>5. (i + 1) - 1 = i
        OBVIOUS
      <4>6. QED
        BY <4>1, <4>2, <4>3, <4>4, <4>5 DEF ShownBefore
    <3>3. QED
      BY <3>1, <3>2 DEF InOrder, ShownBefore, Promises
  <2>3. QED
    BY <2>1, <2>2
<1>11. SignsWhereBound'
  BY <1>2, <1>4 DEF Inv, SignsWhereBound, Belongs
<1>12. RecordedRootWasShown'
  <2>1. SUFFICES ASSUME NEW n \in Names \ edited', disk'[n] \notin {Missing, Torn}
                 PROVE  disk'[n].recovery \in printed' \cup {None}
    BY DEF RecordedRootWasShown
  <2>2. CASE disk'[n] = disk[n]
    <3>1. CASE n \notin edited
      BY <1>3, <2>1, <2>2, <3>1 DEF Inv, RecordedRootWasShown
    <3>2. CASE n \in edited
      <4>1. next.op # "print" /\ n = next.path
        BY <1>3, <2>1, <3>2
      <4>2. next.op = "fill" /\ disk'[n] = next.content
        BY <1>3, <2>1, <4>1 DEF Inv, SoundDisk, Paths
      <4>3. Promises(next) => ShownBefore(job[t], 1)
        BY <1>1 DEF Inv, InOrder
      <4>4. next.content.recovery # None => next.content.recovery \in printed
        BY <1>1, <2>1, <4>1, <4>2, <4>3 DEF Promises, ShownBefore
      <4>5. QED
        BY <1>3, <4>2, <4>4
    <3>3. QED
      BY <3>1, <3>2
  <2>3. CASE next.op = "fill" /\ n = next.path /\ disk'[n] = next.content
    <3>1. Promises(next) => ShownBefore(job[t], 1)
      BY <1>1 DEF Inv, InOrder
    <3>2. next.content.recovery # None => next.content.recovery \in printed
      BY <1>1, <2>3, <3>1 DEF Promises, ShownBefore
    <3>3. QED
      BY <1>3, <2>3, <3>2
  <2>4. n \in Paths
    BY DEF Paths
  <2>5. \/ disk'[n] = disk[n]
        \/ next.op = "fill" /\ n = next.path /\ disk'[n] = next.content
    BY <1>6, <2>1, <2>4
  <2>6. QED
    BY <2>2, <2>3, <2>5
<1>13. QED
  BY <1>7, <1>8, <1>9, <1>10, <1>11, <1>12 DEF Inv

(* A new identity is bound once, and everything written goes with it.      *)
LEMMA NewSound ==
  ASSUME Inv, NEW t \in Terminals, NEW id \in Identities, NEW audience \in Audiences,
         NEW name \in Names, NEW no_recovery \in BOOLEAN,
         New(t, id, audience, name, no_recovery)
  PROVE  Inv'
<1> DEFINE w == NewWrites(id, audience, name, no_recovery)
<1>1. /\ id \notin Drawn /\ job' = [job EXCEPT ![t] = w]
      /\ boundTo' = [k \in Drawn \cup {id} |-> IF k = id THEN audience ELSE boundTo[k]]
      /\ contested' \subseteq contested \cup Drawn \cup {id}
      /\ disk' = disk /\ printed' = printed /\ custody' = custody /\ signed' = signed
      /\ edits' = edits /\ edited' = edited /\ rebound' = rebound
  BY DEF New, Run
<1>2. /\ Drawn' = Drawn \cup {id} /\ boundTo'[id] = audience
      /\ \A k \in Drawn : boundTo'[k] = boundTo[k]
  BY <1>1 DEF Drawn
<1>3. /\ \A f : SoundFile(f) => SoundFile(f)'
      /\ \A s : SoundShare(s) => SoundShare(s)'
      /\ SoundOperation \subseteq SoundOperation'
      /\ Seq(SoundOperation) \subseteq Seq(SoundOperation')
  BY <1>1, <1>2, StaysSound
<1>4. Truncate(name) \in SoundOperation' /\ PrintRoot(id) \in SoundOperation'
  BY <1>2 DEF SoundOperation, Operation, Truncate, PrintRoot, Paths
<1>5. ASSUME NEW recovery \in {None, id}
      PROVE  Fill(name, FileOf(id, audience, recovery)) \in SoundOperation'
  <2>1. FileOf(id, audience, recovery) \in IdentityFile
    BY DEF FileOf, IdentityFile
  <2>2. SoundFile(FileOf(id, audience, recovery))'
    BY <1>2, <2>1 DEF SoundFile, FileOf, Belongs
  <2>3. name \notin SharePaths
    BY IdentityStoreAssumption DEF SharePaths
  <2>4. QED
    BY <2>1, <2>2, <2>3 DEF SoundOperation, Operation, Fill
<1>6. ASSUME NEW i \in SharePaths
      PROVE  /\ Truncate(i) \in SoundOperation'
             /\ Fill(i, Split(id, audience)[i]) \in SoundOperation'
  <2>1. Split(id, audience)[i] = [audience |-> audience, index |-> i, root |-> id]
    BY DEF Split
  <2>2. Split(id, audience)[i] \in ShareFile
    BY <2>1 DEF ShareFile
  <2>3. SoundShare(Split(id, audience)[i])'
    BY <1>2, <2>1, <2>2 DEF SoundShare, Belongs
  <2>4. i \notin Names
    BY IdentityStoreAssumption DEF SharePaths
  <2>5. QED
    BY <2>2, <2>3, <2>4 DEF SoundOperation, Operation, Fill, Truncate, Paths
<1>7. /\ w \in Seq(SoundOperation')
      /\ \A i \in 1..Len(w) : Promises(w[i]) =>
           \E j \in 1..(i - 1) :
             w[j].op = "print" /\ w[j].root = w[i].content.recovery
  BY <1>4, <1>5, <1>6, NewWritesInOrder
<1> HIDE DEF w
<1>8. SoundDisk'
  BY <1>1, <1>3 DEF Inv, SoundDisk
<1>9. SoundHistory'
  <2>1. \A k \in Drawn' : k \in Identities /\ boundTo'[k] \in Audiences
    BY <1>2 DEF Inv, SoundHistory
  <2>2. printed' \subseteq Drawn' /\ contested' \subseteq Drawn'
    BY <1>1, <1>2 DEF Inv, SoundHistory
  <2>3. \A s \in custody' : SoundShare(s)'
    BY <1>1, <1>3 DEF Inv, SoundHistory
  <2>4. QED
    BY <1>1, <2>1, <2>2, <2>3 DEF Inv, SoundHistory
<1>10. job' \in [Terminals -> Seq(SoundOperation')]
  BY <1>1, <1>3, <1>7 DEF Inv
<1>11. ASSUME NEW u \in Terminals PROVE InOrder(job[u])'
  <2>1. CASE u # t
    BY <1>1, <2>1, OrderKept DEF Inv
  <2>2. CASE u = t
    <3>1. job'[u] = w
      BY <1>1, <2>2 DEF Inv
    <3>2. QED
      BY <1>7, <3>1 DEF InOrder, ShownBefore, Promises
  <2>3. QED
    BY <2>1, <2>2
<1>12. SignsWhereBound'
  BY <1>1, <1>2 DEF Inv, SignsWhereBound, Belongs
<1>13. RecordedRootWasShown'
  BY <1>1 DEF Inv, RecordedRootWasShown
<1>14. QED
  BY <1>8, <1>9, <1>10, <1>11, <1>12, <1>13 DEF Inv

(* A recovered identity belongs where its shares say.                      *)
LEMMA RecoverSound ==
  ASSUME Inv, NEW t \in Terminals, NEW root \in Drawn, NEW audience \in Audiences,
         NEW name \in Names, NEW shares, Recover(t, shares, root, audience, name)
  PROVE  Inv'
<1> DEFINE w == Write(name, FileOf(root, audience, None))
<1>1. /\ job' = [job EXCEPT ![t] = w] /\ disk' = disk /\ boundTo' = boundTo
      /\ printed' = printed /\ contested' = contested
      /\ custody' = custody /\ signed' = signed
      /\ edits' = edits /\ edited' = edited /\ rebound' = rebound
  BY DEF Recover, Run
<1>2. /\ shares \subseteq Available
      /\ \A s \in shares : s.audience = audience /\ s.root = root
      /\ Cardinality({s.index : s \in shares}) >= Threshold
  BY DEF Recover, Accepts
<1>3. shares # {}
  <2>1. SUFFICES ASSUME shares = {} PROVE FALSE
    OBVIOUS
  <2>2. {s.index : s \in shares} = {}
    BY <2>1
  <2>3. Cardinality({s.index : s \in shares}) = 0
    BY <2>2, FS_EmptySet
  <2>4. QED
    BY <1>2, <2>3, IdentityStoreAssumption
<1>4. Belongs(root, audience)
  <2>1. PICK s \in shares : TRUE
    BY <1>3
  <2>2. \/ s \in custody
        \/ \E i \in SharePaths : s = disk[i] /\ disk[i] \notin {Missing, Torn}
    BY <1>2 DEF Available
  <2>3. SoundShare(s)
    BY <2>2 DEF Inv, SoundDisk, SoundHistory
  <2>4. QED
    BY <1>2, <2>1, <2>3 DEF SoundShare
<1>5. root \in Identities
  BY DEF Inv, SoundHistory
<1>6. Truncate(name) \in SoundOperation
  BY DEF SoundOperation, Operation, Truncate, Paths
<1>7. Fill(name, FileOf(root, audience, None)) \in SoundOperation
  <2>1. FileOf(root, audience, None) \in IdentityFile
    BY <1>5 DEF FileOf, IdentityFile
  <2>2. SoundFile(FileOf(root, audience, None))
    BY <1>4, <2>1 DEF SoundFile, FileOf
  <2>3. name \notin SharePaths
    BY IdentityStoreAssumption DEF SharePaths
  <2>4. QED
    BY <2>1, <2>2, <2>3 DEF SoundOperation, Operation, Fill
<1>8. /\ w \in Seq(SoundOperation) /\ Len(w) = 2 /\ w[1] = Truncate(name)
      /\ w[2] = Fill(name, FileOf(root, audience, None))
  BY <1>6, <1>7, WriteIs
<1>9. ~Promises(w[1]) /\ ~Promises(w[2])
  BY <1>8 DEF Promises, Truncate, Fill, FileOf
<1> HIDE DEF w
<1>10. \A i \in 1..Len(w) : ~Promises(w[i])
  BY <1>8, <1>9
<1>11. Drawn' = Drawn /\ SoundOperation' = SoundOperation
  BY <1>1 DEF Drawn, SoundOperation, SoundFile, SoundShare, Belongs
<1>12. job' \in [Terminals -> Seq(SoundOperation')]
  BY <1>1, <1>8, <1>11 DEF Inv
<1>13. ASSUME NEW u \in Terminals PROVE InOrder(job[u])'
  <2>1. CASE u # t
    BY <1>1, <2>1, OrderKept DEF Inv
  <2>2. CASE u = t
    <3>1. job'[u] = w
      BY <1>1, <2>2 DEF Inv
    <3>2. QED
      BY <1>10, <3>1 DEF InOrder, Promises
  <2>3. QED
    BY <2>1, <2>2
<1>14. SoundDisk' /\ SoundHistory' /\ SignsWhereBound' /\ RecordedRootWasShown'
  BY <1>1, <1>11 DEF Inv, SoundDisk, SoundHistory, SoundFile, SoundShare,
     Belongs, SignsWhereBound, RecordedRootWasShown
<1>15. QED
  BY <1>12, <1>13, <1>14 DEF Inv

(* An edit adds to where its key belongs, and changes nothing else that is *)
(* of an identity.                                                         *)
LEMMA ByHandSound ==
  ASSUME Inv, NEW key \in Drawn, NEW audience \in Audiences, ByHand(key, audience),
         job' = job, boundTo' = boundTo, printed' = printed, custody' = custody,
         signed' = signed, edited' \subseteq Names, contested' \subseteq Drawn
  PROVE  /\ \A f : SoundFile(f) => SoundFile(f)'
         /\ \A s : SoundShare(s) => SoundShare(s)'
         /\ Belongs(key, audience)'
         /\ SoundHistory' /\ SignsWhereBound'
         /\ job' \in [Terminals -> Seq(SoundOperation')]
         /\ \A u \in Terminals : InOrder(job[u])'
<1>1. /\ edits < MaxEdits /\ edits' = edits + 1
      /\ rebound' = IF audience = boundTo[key] THEN rebound
                    ELSE rebound \cup {[key |-> key, audience |-> audience]}
  BY DEF ByHand
<1>2. Drawn' = Drawn /\ rebound \subseteq rebound' /\ \A id \in Drawn : boundTo'[id] = boundTo[id]
  BY <1>1 DEF Drawn
<1>3. /\ \A f : SoundFile(f) => SoundFile(f)'
      /\ \A s : SoundShare(s) => SoundShare(s)'
      /\ Seq(SoundOperation) \subseteq Seq(SoundOperation')
  BY <1>2, StaysSound
<1>4. Belongs(key, audience)'
  BY <1>1 DEF Belongs
<1>5. SoundHistory'
  <2>1. edits' \in 0..MaxEdits
    BY <1>1, IdentityStoreAssumption DEF Inv, SoundHistory
  <2>2. rebound' \subseteq [key : Identities, audience : Audiences]
    BY <1>1 DEF Inv, SoundHistory
  <2>3. \A s \in custody' : SoundShare(s)'
    BY <1>3 DEF Inv, SoundHistory
  <2>4. QED
    BY <1>2, <2>1, <2>2, <2>3 DEF Inv, SoundHistory
<1>6. SignsWhereBound'
  BY <1>2 DEF Inv, SignsWhereBound, Belongs
<1>7. job' \in [Terminals -> Seq(SoundOperation')]
  BY <1>3 DEF Inv
<1>8. \A u \in Terminals : InOrder(job[u])'
  BY OrderKept DEF Inv
<1>9. QED
  BY <1>3, <1>4, <1>5, <1>6, <1>7, <1>8

(* A file that was edited is still of the identity that is sealed in it.   *)
LEMMA EditSound ==
  ASSUME Inv, NEW name \in Names, NEW file \in IdentityFile, Edit(name, file)
  PROVE  Inv'
<1>1. /\ disk[name] \notin {Missing, Torn} /\ disk' = [disk EXCEPT ![name] = file]
      /\ file \in EditsOf(disk[name]) /\ edited' = edited \cup {name}
      /\ ByHand(file.sealed, file.audience)
      /\ job' = job /\ boundTo' = boundTo /\ printed' = printed
      /\ contested' = contested /\ custody' = custody /\ signed' = signed
  BY DEF Edit
<1>2. SoundFile(disk[name])
  BY <1>1 DEF Inv, SoundDisk
<1>3. file.sealed = disk[name].sealed
  BY <1>1, <1>2 DEF EditsOf, SoundFile, IdentityFile
<1>4. file.sealed \in Drawn /\ file.audience \in Audiences
  BY <1>2, <1>3 DEF SoundFile, IdentityFile
<1>5. /\ \A f : SoundFile(f) => SoundFile(f)'
      /\ \A s : SoundShare(s) => SoundShare(s)'
      /\ Belongs(file.sealed, file.audience)'
      /\ SoundHistory' /\ SignsWhereBound'
      /\ job' \in [Terminals -> Seq(SoundOperation')]
      /\ \A u \in Terminals : InOrder(job[u])'
  <2>1. edited' \subseteq Names /\ contested' \subseteq Drawn
    BY <1>1 DEF Inv, SoundHistory
  <2>2. QED
    BY <1>1, <1>4, <2>1, ByHandSound
<1>6. SoundFile(file)'
  BY <1>1, <1>4, <1>5 DEF SoundFile, Drawn
<1>7. name \in Paths /\ name \notin SharePaths
  BY IdentityStoreAssumption DEF Paths, SharePaths
<1>8. \A p \in Paths : disk'[p] = IF p = name THEN file ELSE disk[p]
  BY <1>1 DEF Inv, SoundDisk
<1>9. SoundDisk'
  <2>1. disk' \in [Paths -> IdentityFile \cup ShareFile \cup {Missing, Torn}]
    BY <1>1, <1>7 DEF Inv, SoundDisk
  <2>2. \A n \in Names : disk'[n] \notin {Missing, Torn} => SoundFile(disk[n])'
    BY <1>5, <1>6, <1>8 DEF Inv, SoundDisk, Paths
  <2>3. \A i \in SharePaths : disk'[i] \notin {Missing, Torn} => SoundShare(disk[i])'
    BY <1>5, <1>7, <1>8 DEF Inv, SoundDisk, Paths
  <2>4. QED
    BY <2>1, <2>2, <2>3 DEF SoundDisk
<1>10. RecordedRootWasShown'
  BY <1>1, <1>8 DEF Inv, RecordedRootWasShown, Paths
<1>11. QED
  BY <1>5, <1>9, <1>10 DEF Inv

(* And so is a share.                                                      *)
LEMMA EditShareSound ==
  ASSUME Inv, NEW i \in SharePaths, NEW audience \in Audiences, EditShare(i, audience)
  PROVE  Inv'
<1>1. /\ disk[i] \notin {Missing, Torn}
      /\ disk' = [disk EXCEPT ![i] = [disk[i] EXCEPT !.audience = audience]]
      /\ contested' = contested \cup {disk[i].root} /\ ByHand(disk[i].root, audience)
      /\ job' = job /\ boundTo' = boundTo /\ printed' = printed
      /\ edited' = edited /\ custody' = custody /\ signed' = signed
  BY DEF EditShare
<1>2. SoundShare(disk[i])
  BY <1>1 DEF Inv, SoundDisk
<1>3. PICK root \in Drawn, share \in ShareFile :
        /\ disk[i].root = root /\ share = [disk[i] EXCEPT !.audience = audience]
        /\ share.root = root /\ share.audience = audience
  <2> DEFINE edit == [disk[i] EXCEPT !.audience = audience]
  <2>1. disk[i] \in ShareFile /\ disk[i].root \in Drawn
    BY <1>2 DEF SoundShare
  <2>2. edit \in ShareFile /\ edit.root = disk[i].root /\ edit.audience = audience
    BY <2>1 DEF ShareFile
  <2>3. QED
    BY <2>1, <2>2
<1>4. /\ \A f : SoundFile(f) => SoundFile(f)'
      /\ \A s : SoundShare(s) => SoundShare(s)'
      /\ Belongs(root, audience)'
      /\ SoundHistory' /\ SignsWhereBound'
      /\ job' \in [Terminals -> Seq(SoundOperation')]
      /\ \A u \in Terminals : InOrder(job[u])'
  <2>1. /\ edited' \subseteq Names /\ contested' \subseteq Drawn
        /\ ByHand(root, audience)
    BY <1>1, <1>3 DEF Inv, SoundHistory
  <2>2. QED
    BY <1>1, <2>1, ByHandSound
<1>5. SoundShare(share)'
  BY <1>1, <1>3, <1>4 DEF SoundShare, Drawn
<1>6. i \in Paths /\ i \notin Names
  BY IdentityStoreAssumption DEF Paths, SharePaths
<1>7. \A p \in Paths : disk'[p] = IF p = i THEN share ELSE disk[p]
  BY <1>1, <1>3 DEF Inv, SoundDisk
<1>8. SoundDisk'
  <2>1. disk' \in [Paths -> IdentityFile \cup ShareFile \cup {Missing, Torn}]
    BY <1>1, <1>3, <1>6 DEF Inv, SoundDisk
  <2>2. \A n \in Names : disk'[n] \notin {Missing, Torn} => SoundFile(disk[n])'
    BY <1>4, <1>6, <1>7 DEF Inv, SoundDisk, Paths
  <2>3. \A j \in SharePaths : disk'[j] \notin {Missing, Torn} => SoundShare(disk[j])'
    BY <1>4, <1>5, <1>7 DEF Inv, SoundDisk, Paths
  <2>4. QED
    BY <2>1, <2>2, <2>3 DEF SoundDisk
<1>9. RecordedRootWasShown'
  BY <1>1, <1>6, <1>7 DEF Inv, RecordedRootWasShown, Paths
<1>10. QED
  BY <1>4, <1>8, <1>9 DEF Inv

(* The others: what is sound is signed, handed out or given up.            *)
LEMMA OthersSound ==
  ASSUME Inv,
         \/ \E t \in Terminals : Stop(t)
         \/ \E name \in Names : SignStatement(name)
         \/ \E i \in SharePaths : HandOut(i)
         \/ UNCHANGED vars
  PROVE  Inv'
<1>1. /\ disk' = disk /\ boundTo' = boundTo /\ printed' = printed /\ contested' = contested
      /\ edits' = edits /\ edited' = edited /\ rebound' = rebound
  BY DEF Stop, SignStatement, HandOut, vars
<1>2. Drawn' = Drawn /\ SoundOperation' = SoundOperation
  BY <1>1 DEF Drawn, SoundOperation, SoundFile, SoundShare, Belongs
<1>3. SoundDisk' /\ RecordedRootWasShown'
  BY <1>1, <1>2 DEF Inv, SoundDisk, SoundFile, SoundShare, Belongs, RecordedRootWasShown
<1>4. /\ job' \in [Terminals -> Seq(SoundOperation')]
      /\ \A u \in Terminals : job'[u] = job[u] \/ job'[u] = <<>>
  <2>1. job' = job \/ \E t \in Terminals : job' = [job EXCEPT ![t] = <<>>]
    BY DEF Stop, SignStatement, HandOut, vars
  <2>2. <<>> \in Seq(SoundOperation)
    BY EmptySeq
  <2>3. QED
    BY <1>2, <2>1, <2>2 DEF Inv
<1>5. ASSUME NEW u \in Terminals PROVE InOrder(job[u])'
  <2>1. CASE job'[u] = job[u]
    BY <1>1, <2>1, OrderKept DEF Inv
  <2>2. CASE job'[u] = <<>>
    BY <2>2 DEF InOrder
  <2>3. QED
    BY <1>4, <2>1, <2>2
<1>6. ASSUME NEW s \in custody' PROVE SoundShare(s)
  BY <1>6 DEF Inv, SoundDisk, SoundHistory, Stop, SignStatement, HandOut, vars
<1>7. /\ signed' \subseteq [key : Identities, shown : Identities, audience : Audiences]
      /\ SignsWhereBound'
  <2>1. CASE signed' = signed
    BY <1>1, <1>2, <2>1 DEF Inv, SoundHistory, SignsWhereBound, Belongs
  <2>2. CASE \E name \in Names : SignStatement(name)
    <3>1. PICK name \in Names : SignStatement(name)
      BY <2>2
    <3> DEFINE f == disk[name]
    <3>2. /\ f \notin {Missing, Torn} /\ f.public_key = f.sealed
          /\ signed' = signed \cup {[key |-> f.sealed, shown |-> f.public_key,
                                     audience |-> f.audience]}
      BY <3>1 DEF SignStatement, Opens
    <3>3. SoundFile(f)
      BY <3>2 DEF Inv, SoundDisk
    <3>4. /\ f.sealed \in Identities /\ f.public_key \in Identities
          /\ f.audience \in Audiences
      BY <3>3 DEF SoundFile, IdentityFile
    <3> HIDE DEF f
    <3>5. signed' \subseteq [key : Identities, shown : Identities, audience : Audiences]
      BY <3>2, <3>4 DEF Inv, SoundHistory
    <3>6. SignsWhereBound'
      <4>1. \A k, a : Belongs(k, a)' <=> Belongs(k, a)
        BY <1>1 DEF Belongs
      <4>2. f.sealed \in Drawn /\ Belongs(f.sealed, f.audience)
        BY <3>3 DEF SoundFile
      <4>3. QED
        BY <1>2, <3>2, <4>1, <4>2 DEF Inv, SignsWhereBound
    <3>7. QED
      BY <3>5, <3>6
  <2>3. QED
    BY <2>1, <2>2 DEF Stop, HandOut, vars
<1>8. SoundHistory'
  BY <1>1, <1>2, <1>6, <1>7 DEF Inv, SoundHistory, SoundShare, Belongs
<1>9. QED
  BY <1>3, <1>4, <1>5, <1>7, <1>8 DEF Inv

LEMMA StepSound == Inv /\ [Next]_vars => Inv'
  BY NewSound, RecoverSound, ProceedSound, EditSound, EditShareSound,
     OthersSound DEF Next

LEMMA AlwaysSound == Spec => []Inv
  BY InitSound, StepSound, PTL DEF Spec

-----------------------------------------------------------------------------
(* The theorems.                                                           *)

(* The types of the variables (IdentityStore): TypeOK.                     *)
THEOREM TypeCorrect == Spec => []TypeOK
<1>1. Inv => TypeOK
  <2>1. SUFFICES ASSUME Inv PROVE TypeOK
    OBVIOUS
  <2>2. ASSUME NEW t \in Terminals, NEW i \in DOMAIN job[t] PROVE job[t][i] \in Operation
    <3>1. job[t] \in Seq(SoundOperation)
      BY <2>1 DEF Inv
    <3>2. i \in 1..Len(job[t])
      BY <2>2, <3>1, LenProperties
    <3>3. job[t][i] \in SoundOperation
      BY <3>1, <3>2, ElementOfSeq
    <3>4. QED
      BY <3>3 DEF SoundOperation
  <2>3. custody \subseteq ShareFile
    BY <2>1 DEF Inv, SoundHistory, SoundShare
  <2>4. \A n \in Names : disk[n] \in IdentityFile \cup {Missing, Torn}
    BY <2>1 DEF Inv, SoundDisk, SoundFile
  <2>5. \A i \in SharePaths : disk[i] \in ShareFile \cup {Missing, Torn}
    BY <2>1 DEF Inv, SoundDisk, SoundShare
  <2>6. QED
    BY <2>1, <2>2, <2>3, <2>4, <2>5 DEF Inv, SoundHistory, TypeOK
<1>2. QED
  BY <1>1, AlwaysSound, PTL

(* A key signs under its own name, at the audience its identity was created*)
(* for or at one that somebody wrote into a file or a share of that        *)
(* identity, whatever is copied, recovered or mixed (identity_file.rs open,*)
(* main.rs Recover): SignsWhereBound.                                      *)
THEOREM BoundForGood == Spec => []SignsWhereBound
<1>1. Inv => SignsWhereBound
  BY DEF Inv
<1>2. QED
  BY <1>1, AlwaysSound, PTL

(* No file that was not edited promises a recovery whose root its holder   *)
(* was not shown (main.rs New): RecordedRootWasShown.                      *)
THEOREM RootsAreShown == Spec => []RecordedRootWasShown
<1>1. Inv => RecordedRootWasShown
  BY DEF Inv
<1>2. QED
  BY <1>1, AlwaysSound, PTL
=============================================================================
