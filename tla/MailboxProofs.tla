---------------------------- MODULE MailboxProofs ----------------------------
(***************************************************************************)
(* What the operators of Mailbox return, for queues of any length: the     *)
(* facts that the proofs about the ring of kernel/ipc.c and about its      *)
(* callers rest on. A purge is a recursive function; that it exists, and   *)
(* what it computes, follow from the order of the natural numbers.         *)
(***************************************************************************)
EXTENDS Mailbox, WellFoundedInduction, TLAPS

LEMMA LeastElement ==
  ASSUME NEW S \in SUBSET Nat, S # {}
  PROVE  Min(S) \in S /\ \A y \in S : Min(S) <= y
<1> DEFINE R == {ab \in Nat \X Nat : ab[1] < ab[2]}
<1>1. IsWellFoundedOn(R, Nat)
  BY NatLessThanWellFounded, Zenon DEF OpToRel
<1>2. PICK x \in S : \A y \in S : ~(<<y, x>> \in R)
  <2> HIDE DEF R
  <2> QED BY <1>1, WFMin, Zenon
<1>3. ASSUME NEW y \in S PROVE x <= y
  <2>1. x \in Nat /\ y \in Nat /\ <<y, x>> \in Nat \X Nat
    OBVIOUS
  <2>2. ~(y < x)
    BY <1>2, <2>1
  <2> QED BY <2>1, <2>2
<1> QED BY <1>3, Zenon DEF Min

(* Induction up to a bound, with the property given as a set. *)
LEMMA Induction ==
  ASSUME NEW m \in Nat, NEW S, 0 \in S, \A n \in 0..m - 1 : n \in S => n + 1 \in S
  PROVE  \A n \in 0..m : n \in S
<1> DEFINE T == {n \in 0..m : n \notin S}
<1> SUFFICES ASSUME T # {} PROVE FALSE
  OBVIOUS
<1>1. T \in SUBSET Nat
  OBVIOUS
<1>2. PICK x \in T : \A y \in T : x <= y
  BY <1>1, LeastElement
<1>3. x # 0 /\ x - 1 \in 0..m - 1 /\ x - 1 \in 0..m
  BY <1>2
<1>4. x - 1 \in S
  BY <1>2, <1>3
<1> QED BY <1>2, <1>3, <1>4

(* The values of a loop that starts from z and applies g[i] in its i-th    *)
(* iteration.                                                              *)
IsLoop(f, X, n, z, g) ==
  /\ f \in [0..n -> X] /\ f[0] = z
  /\ \A i \in 1..n : f[i] = g[i][f[i - 1]]

Iterations(X, n) == [1..n -> [X -> X]]

LEMMA Recursion ==
  ASSUME NEW X, NEW n \in Nat, NEW z \in X, NEW g \in Iterations(X, n)
  PROVE  \E f : IsLoop(f, X, n, z, g)
<1> USE DEF Iterations
<1> DEFINE Good(f, k) == /\ f \in [0..k -> X] /\ f[0] = z
                         /\ \A i \in 1..k : f[i] = g[i][f[i - 1]]
           S == {k \in 0..n : \E f : Good(f, k)}
<1>1. 0 \in S
  <2>1. Good([i \in 0..0 |-> z], 0)
    OBVIOUS
  <2> HIDE DEF Good
  <2> QED BY <2>1
<1>2. ASSUME NEW k \in 0..n - 1, k \in S PROVE k + 1 \in S
  <2>1. PICK f : Good(f, k)
    BY <1>2
  <2> DEFINE h == [i \in 0..k + 1 |-> IF i <= k THEN f[i] ELSE g[k + 1][f[k]]]
  <2>2. f[k] \in X /\ g[k + 1] \in [X -> X] /\ g[k + 1][f[k]] \in X
    BY <2>1
  <2>3. h \in [0..k + 1 -> X] /\ h[0] = z
    BY <2>1, <2>2
  <2>4. ASSUME NEW i \in 1..k + 1 PROVE h[i] = g[i][h[i - 1]]
    BY <2>1, <2>2
  <2>5. Good(h, k + 1)
    BY <2>3, <2>4
  <2> HIDE DEF Good, h
  <2> QED BY <2>5
<1> HIDE DEF S
<1>3. \A k \in 0..n : k \in S
  BY <1>1, <1>2, Induction, Zenon
<1>4. \E f : Good(f, n)
  BY <1>3 DEF S
<1> QED BY <1>4, Zenon DEF IsLoop

-----------------------------------------------------------------------------
(* Purges. *)

IsPurge(K, mail, field, id) ==
  /\ K[0] = <<>>
  /\ \A n \in 1..Len(mail) :
       K[n] = IF mail[n][field] = id THEN K[n - 1] ELSE Append(K[n - 1], mail[n])

LEMMA PurgedStep ==
  ASSUME NEW M, NEW mail \in Seq(M), NEW field, NEW id
  PROVE  IsPurge(Purged(mail, field, id), mail, field, id)
<1> DEFINE step(f) == [n \in 0..Len(mail) |->
                         IF n = 0 THEN <<>>
                         ELSE IF mail[n][field] = id THEN f[n - 1] ELSE Append(f[n - 1], mail[n])]
           K == Purged(mail, field, id)
           g == [n \in 1..Len(mail) |->
                   [s \in Seq(M) |-> IF mail[n][field] = id THEN s ELSE Append(s, mail[n])]]
<1>1. Len(mail) \in Nat /\ <<>> \in Seq(M) /\ g \in [1..Len(mail) -> [Seq(M) -> Seq(M)]]
  OBVIOUS
<1>2. PICK f : IsLoop(f, Seq(M), Len(mail), <<>>, g)
  <2>1. g \in Iterations(Seq(M), Len(mail))
    BY <1>1, Zenon DEF Iterations
  <2> HIDE DEF g
  <2> QED BY <1>1, <2>1, Recursion, Zenon
<1>3. f = step(f)
  <2>1. ASSUME NEW n \in 0..Len(mail) PROVE f[n] = step(f)[n]
    <3>1. CASE n = 0
      BY <1>2, <3>1 DEF IsLoop
    <3>2. CASE n # 0
      <4>1. n \in 1..Len(mail) /\ f[n - 1] \in Seq(M)
        BY <1>2, <3>2 DEF IsLoop
      <4> QED BY <1>2, <4>1 DEF IsLoop
    <3> QED BY <3>1, <3>2
  <2> QED BY <1>2, <2>1 DEF IsLoop
<1>4. K = CHOOSE h : h = step(h)
  BY Zenon DEF Purged
<1> HIDE DEF K
<1>5. K = step(K)
  <2> HIDE DEF step
  <2> QED BY <1>3, <1>4, Zenon
<1>6. \A n \in 0..Len(mail) : K[n] = step(K)[n]
  BY <1>5, Zenon
<1>7. step(K)[0] = <<>>
  BY <1>1
<1>8. ASSUME NEW n \in 1..Len(mail)
      PROVE  step(K)[n] = IF mail[n][field] = id THEN K[n - 1] ELSE Append(K[n - 1], mail[n])
  BY <1>1
<1> HIDE DEF step
<1> QED BY <1>1, <1>6, <1>7, <1>8 DEF IsPurge, K

(* A queue of which every message comes from another queue. *)
Part(new, mail, M) ==
  /\ new \in Seq(M) /\ Len(new) <= Len(mail)
  /\ \A j \in 1..Len(new) : \E i \in 1..Len(mail) : new[j] = mail[i]

Lacks(mail, field, id) == \A j \in 1..Len(mail) : mail[j][field] # id

LEMMA PurgedIsPart ==
  ASSUME NEW M, NEW mail \in Seq(M), NEW field, NEW id
  PROVE  /\ Part(Purged(mail, field, id)[Len(mail)], mail, M)
         /\ Lacks(Purged(mail, field, id)[Len(mail)], field, id)
<1> DEFINE K == Purged(mail, field, id)
           Good(n) == /\ K[n] \in Seq(M) /\ Len(K[n]) <= n
                      /\ \A j \in 1..Len(K[n]) :
                           K[n][j][field] # id /\ \E i \in 1..n : K[n][j] = mail[i]
           S == {n \in 0..Len(mail) : Good(n)}
<1>0. Len(mail) \in Nat
  OBVIOUS
<1>1. IsPurge(K, mail, field, id)
  BY PurgedStep
<1> HIDE DEF K
<1>2. 0 \in S
  <2>1. K[0] = <<>>
    BY <1>1 DEF IsPurge
  <2>2. Good(0)
    BY <2>1
  <2> QED BY <1>0, <2>2
<1>3. ASSUME NEW n \in 0..Len(mail) - 1, n \in S PROVE n + 1 \in S
  <2>1. /\ n + 1 \in 1..Len(mail) /\ (n + 1) - 1 = n /\ n \in Nat
        /\ mail[n + 1] \in M
    BY <1>0
  <2>2. Good(n)
    BY <1>3
  <2>3. CASE mail[n + 1][field] = id
    <3>1. K[n + 1] = K[n]
      BY <1>1, <2>1, <2>3 DEF IsPurge
    <3> QED BY <2>1, <2>2, <3>1
  <2>4. CASE mail[n + 1][field] # id
    <3>1. K[n + 1] = Append(K[n], mail[n + 1])
      BY <1>1, <2>1, <2>4 DEF IsPurge
    <3>2. /\ K[n + 1] \in Seq(M) /\ Len(K[n + 1]) = Len(K[n]) + 1
          /\ \A j \in 1..Len(K[n]) : K[n + 1][j] = K[n][j]
          /\ K[n + 1][Len(K[n]) + 1] = mail[n + 1]
      BY <2>1, <2>2, <3>1
    <3>3. ASSUME NEW j \in 1..Len(K[n + 1])
          PROVE  K[n + 1][j][field] # id /\ \E i \in 1..n + 1 : K[n + 1][j] = mail[i]
      <4>1. CASE j \in 1..Len(K[n])
        <5>1. PICK i \in 1..n : K[n][j] = mail[i]
          BY <2>2, <4>1
        <5>2. K[n + 1][j] = K[n][j] /\ K[n][j][field] # id /\ i \in 1..n + 1
          BY <2>1, <2>2, <3>2, <4>1
        <5> QED BY <5>1, <5>2
      <4>2. CASE j = Len(K[n]) + 1
        BY <2>1, <2>4, <3>2, <4>2
      <4> QED BY <2>2, <3>2, <4>1, <4>2
    <3> QED BY <2>1, <2>2, <3>2, <3>3
  <2> QED BY <2>3, <2>4
<1>4. Len(mail) \in S
  <2> HIDE DEF S
  <2>1. \A n \in 0..Len(mail) : n \in S
    BY <1>0, <1>2, <1>3, Induction, Zenon
  <2> QED BY <1>0, <2>1
<1> QED BY <1>4 DEF Part, Lacks, K

LEMMA PartOfPart ==
  ASSUME NEW M, NEW a, NEW b, NEW c \in Seq(M), Part(a, b, M), Part(b, c, M)
  PROVE  Part(a, c, M)
<1>1. Len(a) \in Nat /\ Len(b) \in Nat /\ Len(c) \in Nat
  BY DEF Part
<1> QED BY <1>1 DEF Part

(* What ends with a task: its mail in both directions (ipc_purge_receiver  *)
(* and ipc_purge_sender, one after the other).                             *)
LEMMA PurgesBoth ==
  ASSUME NEW M, NEW mail \in Seq(M), NEW id, id # 0
  PROVE  LET new == PurgeSender(PurgeReceiver(mail, id), id)
         IN Part(new, mail, M) /\ Lacks(new, "receiver", id) /\ Lacks(new, "sender", id)
<1> DEFINE a == PurgeReceiver(mail, id)
           b == PurgeSender(a, id)
<1>1. Part(a, mail, M) /\ Lacks(a, "receiver", id)
  BY PurgedIsPart DEF PurgeReceiver
<1>2. a \in Seq(M)
  BY <1>1 DEF Part
<1> HIDE DEF a
<1>3. Part(b, a, M) /\ Lacks(b, "sender", id)
  BY <1>2, PurgedIsPart DEF PurgeSender
<1> HIDE DEF b
<1>4. Lacks(b, "receiver", id)
  BY <1>1, <1>3 DEF Lacks, Part
<1>5. Part(b, mail, M)
  BY <1>1, <1>3, PartOfPart
<1> QED BY <1>3, <1>4, <1>5 DEF a, b

-----------------------------------------------------------------------------
(* Receiving. *)

LEMMA FirstMatchFacts ==
  ASSUME NEW M, NEW mail \in Seq(M), NEW id, NEW k, k = FirstMatch(mail, id)
  PROVE  /\ Pending(mail, id) <=> \E i \in 1..Len(mail) : Matches(mail[i], id)
         /\ Pending(mail, id) =>
              /\ k \in 1..Len(mail) /\ Matches(mail[k], id)
              /\ \A i \in 1..Len(mail) : Matches(mail[i], id) => k <= i
<1> DEFINE found == {i \in 1..Len(mail) : Matches(mail[i], id)}
<1>1. k = IF found = {} THEN 0 ELSE Min(found)
  BY Zenon DEF FirstMatch
<1>2. Pending(mail, id) <=> k # 0
  BY Zenon DEF Pending
<1>3. CASE found = {}
  BY <1>1, <1>2, <1>3
<1>4. CASE found # {}
  <2>1. found \in SUBSET Nat
    OBVIOUS
  <2>2. k \in found /\ \A i \in found : k <= i
    <3> HIDE DEF found
    <3>1. k = Min(found)
      BY <1>1, <1>4
    <3>2. Min(found) \in found /\ \A i \in found : Min(found) <= i
      BY <1>4, <2>1, LeastElement
    <3> QED BY <3>1, <3>2
  <2> QED BY <1>2, <2>2
<1> QED BY <1>3, <1>4

LEMMA ReceiveIsPart ==
  ASSUME NEW M, NEW mail \in Seq(M), NEW id, Pending(mail, id)
  PROVE  Part(AfterReceive(mail, id), mail, M)
<1> DEFINE k == FirstMatch(mail, id)
<1>1. k \in 1..Len(mail)
  <2> HIDE DEF k
  <2> QED BY FirstMatchFacts DEF k
<1> HIDE DEF k
<1>2. AfterReceive(mail, id) = [i \in 1..Len(mail) - 1 |-> IF i < k THEN mail[i] ELSE mail[i + 1]]
  BY Zenon DEF AfterReceive, Without, k
<1> DEFINE new == [i \in 1..Len(mail) - 1 |-> IF i < k THEN mail[i] ELSE mail[i + 1]]
<1>3. Len(mail) - 1 \in Nat /\ \A i \in 1..Len(mail) - 1 : i \in 1..Len(mail) /\ i + 1 \in 1..Len(mail)
  BY <1>1
<1>4. new \in Seq(M) /\ Len(new) = Len(mail) - 1
  BY <1>1, <1>3
<1>5. ASSUME NEW j \in 1..Len(new) PROVE \E i \in 1..Len(mail) : new[j] = mail[i]
  BY <1>3, <1>4
<1> QED BY <1>2, <1>3, <1>4, <1>5 DEF Part

==============================================================================
