---------------------------- MODULE S3FifoProofs ----------------------------
(***************************************************************************)
(* Proofs about S3Fifo for every set of blobs, sizes, limits and uploads.  *)
(* First, what TotalSize does when a set gains or loses an element, and    *)
(* what the operations on a queue do to its entries and its length.  Then  *)
(* SlackKept: a step lets neither counter of a queue come closer to what   *)
(* it covers.  The bytes cover more than BytesCoverQueues says: entries    *)
(* without a row too, and main's candidate while it is out of the queue.   *)
(***************************************************************************)
EXTENDS S3Fifo, FiniteSetTheorems, TLAPS

First(S) == CHOOSE h \in S : TRUE

\* f adds up the sizes of each part of S, as the fold of TotalSize does.
Adds(f, S) ==
    f = [R \in SUBSET S |->
           IF R = {} THEN 0 ELSE Size[First(R)] + f[R \ {First(R)}]]

LEMMA TotalSizeIsFold ==
    ASSUME NEW S
    PROVE  TotalSize(S) = (CHOOSE f : Adds(f, S))[S]
  BY Zenon DEF TotalSize, MapThenSumSet, MapThenFoldSet, Adds, First
-----------------------------------------------------------------------------
(* What TotalSize, a fold over a set, does when the set changes.           *)

(* A set of subsets has a smallest one.                                    *)
LEMMA SmallestSubset ==
    ASSUME NEW S, IsFiniteSet(S), NEW T, T \subseteq SUBSET S, T # {}
    PROVE  \E R \in T : \A Q \in T : ~(Q \subseteq R /\ Q # R)
  <1>1. IsWellFoundedOn(StrictSubsetOrdering(S), SUBSET S)
    BY FS_StrictSubsetOrderingWellFounded, FS_FiniteSubsetsOfFinite, Zenon
  <1>2. PICK R \in T : \A Q \in T : <<Q, R>> \notin StrictSubsetOrdering(S)
    BY <1>1, WFMin, Zenon
  <1>3. ASSUME NEW Q \in T, Q \subseteq R, Q # R PROVE FALSE
    BY <1>2, <1>3 DEF StrictSubsetOrdering
  <1> QED
    BY <1>3

(* Two folds agree where both are defined.                                 *)
LEMMA AddsUnique ==
    ASSUME NEW S \in SUBSET Hashes, NEW U \in SUBSET Hashes,
           NEW f, NEW g, Adds(f, S), Adds(g, U),
           NEW R \in SUBSET (S \cap U)
    PROVE  f[R] = g[R]
  <1> DEFINE T == {Q \in SUBSET (S \cap U) : f[Q] # g[Q]}
  <1> SUFFICES ASSUME T # {} PROVE FALSE
    OBVIOUS
  <1>1. IsFiniteSet(S \cap U)
    BY S3FifoAssumption, FS_Subset
  <1>2. PICK Q \in T : \A P \in T : ~(P \subseteq Q /\ P # Q)
    <2>1. T \subseteq SUBSET (S \cap U)
      OBVIOUS
    <2> HIDE DEF T
    <2> QED
      BY <1>1, <2>1, SmallestSubset
  <1>3. /\ f[Q] = IF Q = {} THEN 0 ELSE Size[First(Q)] + f[Q \ {First(Q)}]
        /\ g[Q] = IF Q = {} THEN 0 ELSE Size[First(Q)] + g[Q \ {First(Q)}]
    BY Zenon DEF Adds
  <1>4. Q # {}
    BY <1>3
  <1>5. First(Q) \in Q
    BY <1>4 DEF First
  <1>6. f[Q \ {First(Q)}] = g[Q \ {First(Q)}]
    BY <1>2, <1>5
  <1>7. f[Q] = g[Q]
    BY <1>3, <1>4, <1>6, Zenon
  <1> QED
    BY <1>7

(* The fold exists on every set of hashes.                                 *)
LEMMA AddsExists ==
    ASSUME NEW S \in SUBSET Hashes
    PROVE  \E f : Adds(f, S)
  <1> DEFINE T == {U \in SUBSET Hashes : ~\E f : Adds(f, U)}
  <1> SUFFICES ASSUME T # {} PROVE FALSE
    OBVIOUS
  <1>1. PICK U \in T : \A Q \in T : ~(Q \subseteq U /\ Q # U)
    <2>1. T \subseteq SUBSET Hashes
      OBVIOUS
    <2> HIDE DEF T
    <2> QED
      BY <2>1, SmallestSubset, S3FifoAssumption
  <1>2. ASSUME NEW Q \in SUBSET U, Q # U
        PROVE  Adds(CHOOSE f : Adds(f, Q), Q)
    BY <1>1, <1>2
  <1> DEFINE F == [R \in SUBSET U |->
                     IF R = {} THEN 0 ELSE Size[First(R)] + TotalSize(R \ {First(R)})]
  <1>3. ASSUME NEW R \in SUBSET U, R # {}
        PROVE  F[R \ {First(R)}] = TotalSize(R \ {First(R)})
    <2> DEFINE Q == R \ {First(R)}
               P == Q \ {First(Q)}
               f == CHOOSE f : Adds(f, Q)
               g == CHOOSE g : Adds(g, P)
    <2>1. First(R) \in R
      BY <1>3 DEF First
    <2>2. Adds(f, Q) /\ Q # U /\ Q \in SUBSET U
      BY <1>2, <2>1
    <2>3. TotalSize(Q) = IF Q = {} THEN 0 ELSE Size[First(Q)] + f[P]
      <3>1. f[Q] = IF Q = {} THEN 0 ELSE Size[First(Q)] + f[Q \ {First(Q)}]
        BY <2>2, Zenon DEF Adds
      <3> QED
        BY <3>1, TotalSizeIsFold
    <2>4. CASE Q = {}
      BY <2>2, <2>3, <2>4
    <2>5. CASE Q # {}
      <3>1. First(Q) \in Q
        BY <2>5 DEF First
      <3>2. P \in SUBSET U /\ P # U
        BY <3>1, <2>2
      <3>3. Adds(g, P)
        BY <1>2, <3>2
      <3>4. f[P] = g[P]
        <4>1. P \in SUBSET (Q \cap P) /\ P \in SUBSET Hashes /\ Q \in SUBSET Hashes
          OBVIOUS
        <4> HIDE DEF P, Q, f, g
        <4> QED
          BY <2>2, <3>3, <4>1, AddsUnique
      <3>5. g[P] = TotalSize(P)
        BY TotalSizeIsFold
      <3>6. F[Q] = Size[First(Q)] + TotalSize(P)
        BY <2>2, <2>5
      <3> QED
        BY <2>3, <2>5, <3>4, <3>5, <3>6
    <2> QED
      BY <2>4, <2>5
  <1>4. Adds(F, U)
    <2>1. \A R \in SUBSET U :
            F[R] = IF R = {} THEN 0 ELSE Size[First(R)] + F[R \ {First(R)}]
      BY <1>3
    <2>2. F = [R \in SUBSET U |-> F[R]]
      OBVIOUS
    <2> HIDE DEF F
    <2> QED
      BY <2>1, <2>2, Zenon DEF Adds
  <1> HIDE DEF F
  <1> QED
    BY <1>4

(* One element, the one the fold takes first, and the rest.                *)
LEMMA TotalSizeStep ==
    ASSUME NEW S \in SUBSET Hashes
    PROVE  TotalSize(S)
             = IF S = {} THEN 0 ELSE Size[First(S)] + TotalSize(S \ {First(S)})
  <1> DEFINE P == S \ {First(S)}
             f == CHOOSE f : Adds(f, S)
             g == CHOOSE g : Adds(g, P)
  <1>1. Adds(f, S) /\ Adds(g, P)
    BY AddsExists
  <1>2. f[S] = IF S = {} THEN 0 ELSE Size[First(S)] + f[P]
    BY <1>1, Zenon DEF Adds
  <1>3. TotalSize(S) = f[S] /\ TotalSize(P) = g[P]
    BY TotalSizeIsFold, Zenon
  <1>4. P \in SUBSET (S \cap P) /\ P \in SUBSET Hashes
    OBVIOUS
  <1> HIDE DEF P, f, g
  <1>5. f[P] = g[P]
    BY <1>1, <1>4, AddsUnique
  <1>6. TotalSize(S) = IF S = {} THEN 0 ELSE Size[First(S)] + TotalSize(P)
    BY <1>2, <1>3, <1>5
  <1> QED
    BY <1>6 DEF P

LEMMA TotalSizeType ==
    ASSUME NEW S \in SUBSET Hashes
    PROVE  TotalSize(S) \in Nat
  <1> DEFINE T == {R \in SUBSET Hashes : TotalSize(R) \notin Nat}
  <1> SUFFICES ASSUME T # {} PROVE FALSE
    OBVIOUS
  <1>1. PICK R \in T : \A Q \in T : ~(Q \subseteq R /\ Q # R)
    <2>1. T \subseteq SUBSET Hashes
      OBVIOUS
    <2> HIDE DEF T
    <2> QED
      BY <2>1, SmallestSubset, S3FifoAssumption
  <1>2. TotalSize(R) = IF R = {} THEN 0 ELSE Size[First(R)] + TotalSize(R \ {First(R)})
    BY TotalSizeStep
  <1>3. R # {}
    BY <1>2
  <1>4. First(R) \in R
    BY <1>3 DEF First
  <1>5. R \ {First(R)} \notin T /\ R \ {First(R)} \in SUBSET Hashes
    BY <1>1, <1>4
  <1>6. TotalSize(R \ {First(R)}) \in Nat
    BY <1>5
  <1>7. Size[First(R)] \in Nat
    BY <1>4, S3FifoAssumption
  <1>8. TotalSize(R) \in Nat
    BY <1>2, <1>3, <1>6, <1>7
  <1> QED
    BY <1>8

(* A new element adds its size.                                            *)
LEMMA TotalSizeAdd ==
    ASSUME NEW S \in SUBSET Hashes, NEW x \in Hashes \ S
    PROVE  TotalSize(S \cup {x}) = TotalSize(S) + Size[x]
  <1> DEFINE Holds(R) == \A y \in Hashes \ R : TotalSize(R \cup {y}) = TotalSize(R) + Size[y]
             T == {R \in SUBSET Hashes : ~Holds(R)}
  <1> SUFFICES ASSUME T # {} PROVE FALSE
    OBVIOUS
  <1>1. PICK R \in T : \A Q \in T : ~(Q \subseteq R /\ Q # R)
    <2>1. T \subseteq SUBSET Hashes
      OBVIOUS
    <2> HIDE DEF T
    <2> QED
      BY <2>1, SmallestSubset, S3FifoAssumption
  <1>2. R \in SUBSET Hashes
    OBVIOUS
  <1>3. ASSUME NEW y \in Hashes \ R
        PROVE  TotalSize(R \cup {y}) = TotalSize(R) + Size[y]
    <2> DEFINE U == R \cup {y}
               z == First(U)
               Q == R \ {z}
    <2>1. TotalSize(U) = Size[z] + TotalSize(U \ {z})
      BY TotalSizeStep
    <2>2. z \in U
      BY DEF First
    <2> HIDE DEF z
    <2>3. Size[y] \in Nat /\ Size[z] \in Nat /\ TotalSize(R) \in Nat /\ TotalSize(Q) \in Nat
      BY <2>2, S3FifoAssumption, TotalSizeType
    <2>4. CASE z = y
      <3>1. U \ {z} = R
        BY <2>4
      <3>2. TotalSize(U) = Size[y] + TotalSize(R)
        BY <2>1, <2>4, <3>1
      <3> HIDE DEF U
      <3>3. TotalSize(U) = TotalSize(R) + Size[y]
        BY <2>3, <3>2
      <3> QED
        BY <3>3 DEF U
    <2>5. CASE z # y
      <3>1. z \in R /\ Q \in SUBSET Hashes /\ z \in Hashes \ Q /\ y \in Hashes \ Q
        BY <2>2, <2>5
      <3>2. Q \notin T
        BY <1>1, <3>1
      <3>3. /\ TotalSize(Q \cup {z}) = TotalSize(Q) + Size[z]
            /\ TotalSize(Q \cup {y}) = TotalSize(Q) + Size[y]
        BY <3>1, <3>2
      <3>4. Q \cup {z} = R /\ U \ {z} = Q \cup {y}
        BY <2>5, <3>1
      <3> HIDE DEF Q, U
      <3>5. TotalSize(U) = TotalSize(R) + Size[y]
        <4>1. TotalSize(U) = Size[z] + (TotalSize(Q) + Size[y])
          BY <2>1, <3>3, <3>4
        <4>2. TotalSize(R) = TotalSize(Q) + Size[z]
          BY <3>3, <3>4
        <4> QED
          BY <2>3, <4>1, <4>2
      <3> QED
        BY <3>5 DEF U
    <2> QED
      BY <2>4, <2>5
  <1> QED
    BY <1>3

(* An element or none: what is there is counted already.                   *)
LEMMA TotalSizeUnion ==
    ASSUME NEW S \in SUBSET Hashes, NEW x \in Hashes
    PROVE  /\ TotalSize(S \cup {x}) <= TotalSize(S) + Size[x]
           /\ TotalSize(S) <= TotalSize(S \cup {x})
  <1>1. TotalSize(S) \in Nat /\ Size[x] \in Nat
    BY TotalSizeType, S3FifoAssumption
  <1>2. CASE x \in S
    <2>1. S \cup {x} = S
      BY <1>2
    <2> QED
      BY <1>1, <2>1
  <1>3. CASE x \notin S
    <2>1. TotalSize(S \cup {x}) = TotalSize(S) + Size[x]
      BY <1>3, TotalSizeAdd
    <2> QED
      BY <1>1, <2>1
  <1> QED
    BY <1>2, <1>3

(* An element taken out takes its size away.                               *)
LEMMA TotalSizeTake ==
    ASSUME NEW S \in SUBSET Hashes, NEW x \in S
    PROVE  TotalSize(S) = TotalSize(S \ {x}) + Size[x]
  <1>1. S \ {x} \in SUBSET Hashes /\ x \in Hashes \ (S \ {x}) /\ (S \ {x}) \cup {x} = S
    OBVIOUS
  <1> QED
    BY <1>1, TotalSizeAdd

(* Part of a set has at most its size.                                     *)
LEMMA TotalSizeMonotone ==
    ASSUME NEW S \in SUBSET Hashes, NEW R \in SUBSET S
    PROVE  TotalSize(R) <= TotalSize(S)
  <1> DEFINE T == {U \in SUBSET S : R \subseteq U /\ ~(TotalSize(R) <= TotalSize(U))}
  <1> SUFFICES ASSUME T # {} PROVE FALSE
    OBVIOUS
  <1>1. PICK U \in T : \A Q \in T : ~(Q \subseteq U /\ Q # U)
    <2>1. T \subseteq SUBSET S
      OBVIOUS
    <2>2. IsFiniteSet(S)
      BY S3FifoAssumption, FS_Subset
    <2> HIDE DEF T
    <2> QED
      BY <2>1, <2>2, SmallestSubset
  <1>2. TotalSize(R) \in Nat /\ TotalSize(U) \in Nat
    BY TotalSizeType
  <1>3. PICK x \in U : x \notin R
    BY <1>2
  <1>4. U \ {x} \notin T /\ R \subseteq U \ {x}
    BY <1>1, <1>3
  <1>5. TotalSize(R) <= TotalSize(U \ {x})
    BY <1>4
  <1>6. TotalSize(U) = TotalSize(U \ {x}) + Size[x]
    BY TotalSizeTake
  <1>7. Size[x] \in Nat /\ TotalSize(U \ {x}) \in Nat
    BY S3FifoAssumption, TotalSizeType
  <1>8. TotalSize(R) <= TotalSize(U)
    BY <1>2, <1>5, <1>6, <1>7
  <1> QED
    BY <1>8
-----------------------------------------------------------------------------
(* Sequences that hold each entry once.                                    *)
Distinct(s) == \A i, j \in DOMAIN s : s[i] = s[j] => i = j

LEMMA WithoutEntry ==
    ASSUME NEW s \in Seq(Hashes), Distinct(s), NEW h
    PROVE  /\ Without(s, h) \in Seq(Hashes) /\ Distinct(Without(s, h))
           /\ Entries(Without(s, h)) = Entries(s) \ {h}
           /\ Len(Without(s, h)) = IF h \in Entries(s) THEN Len(s) - 1 ELSE Len(s)
  <1>1. CASE h \notin Entries(s)
    BY <1>1 DEF Without
  <1>2. CASE h \in Entries(s)
    <2> DEFINE p == CHOOSE i \in DOMAIN s : s[i] = h
               t == [i \in 1..(Len(s) - 1) |-> s[IF i < p THEN i ELSE i + 1]]
    <2>1. p \in 1..Len(s) /\ s[p] = h /\ DOMAIN s = 1..Len(s) /\ Len(s) \in Nat
      BY <1>2 DEF Entries
    <2>2. Without(s, h) = t
      BY <1>2 DEF Without
    <2> HIDE DEF p
    <2>3. t \in Seq(Hashes) /\ Len(t) = Len(s) - 1 /\ DOMAIN t = 1..(Len(s) - 1)
      <3>1. Len(s) - 1 \in Nat
        BY <2>1
      <3>2. \A i \in 1..(Len(s) - 1) : t[i] \in Hashes
        BY <2>1
      <3> QED
        BY <3>1, <3>2
    <2>4. \A i \in DOMAIN t : t[i] = s[IF i < p THEN i ELSE i + 1]
      OBVIOUS
    <2> HIDE DEF t
    <2>5. Distinct(t)
      BY <2>1, <2>3, <2>4 DEF Distinct
    <2>6. ASSUME NEW x \in Entries(t) PROVE x \in Entries(s) \ {h}
      BY <2>1, <2>3, <2>4, <2>6 DEF Entries, Distinct
    <2>7. ASSUME NEW x \in Entries(s), x # h PROVE x \in Entries(t)
      <3>1. PICK i \in 1..Len(s) : s[i] = x
        BY <2>1 DEF Entries
      <3>2. CASE i < p
        <4>1. i \in DOMAIN t /\ t[i] = x
          BY <2>1, <2>3, <2>4, <3>1, <3>2
        <4> QED
          BY <4>1 DEF Entries
      <3>3. CASE i > p
        <4>1. i - 1 \in DOMAIN t /\ t[i - 1] = x
          BY <2>1, <2>3, <2>4, <3>1, <3>3
        <4> QED
          BY <4>1 DEF Entries
      <3>4. i # p
        BY <2>1, <2>7, <3>1
      <3> QED
        BY <2>1, <3>2, <3>3, <3>4
    <2> QED
      BY <1>2, <2>2, <2>3, <2>5, <2>6, <2>7
  <1> QED
    BY <1>1, <1>2

LEMMA PushHeadEntry ==
    ASSUME NEW s \in Seq(Hashes), Distinct(s), NEW h \in Hashes
    PROVE  /\ PushHead(s, h) \in Seq(Hashes) /\ Distinct(PushHead(s, h))
           /\ Entries(PushHead(s, h)) = Entries(s) \cup {h}
           /\ Len(PushHead(s, h)) = IF h \in Entries(s) THEN Len(s) ELSE Len(s) + 1
  <1> DEFINE t == Without(s, h)
             u == Append(t, h)
  <1>1. /\ t \in Seq(Hashes) /\ Distinct(t) /\ Entries(t) = Entries(s) \ {h}
        /\ Len(t) = IF h \in Entries(s) THEN Len(s) - 1 ELSE Len(s)
    BY WithoutEntry
  <1> HIDE DEF t
  <1>2. /\ u \in Seq(Hashes) /\ Len(u) = Len(t) + 1
        /\ \A i \in 1..Len(t) : u[i] = t[i]
        /\ u[Len(t) + 1] = h
        /\ Len(t) \in Nat /\ Len(s) \in Nat /\ DOMAIN t = 1..Len(t) /\ DOMAIN u = 1..(Len(t) + 1)
    BY <1>1
  <1> HIDE DEF u
  <1>3. Distinct(u)
    <2>1. \A i \in 1..Len(t) : u[i] # h
      <3>1. h \notin Entries(t)
        BY <1>1
      <3> QED
        BY <1>2, <3>1 DEF Entries
    <2>2. \A i, j \in 1..Len(t) : u[i] = u[j] => i = j
      BY <1>1, <1>2 DEF Distinct
    <2>3. \A i \in DOMAIN u : i \in 1..Len(t) \/ i = Len(t) + 1
      BY <1>2
    <2> QED
      BY <1>2, <2>1, <2>2, <2>3 DEF Distinct
  <1>4. Entries(u) = Entries(t) \cup {h}
    <2>1. ASSUME NEW x \in Entries(u) PROVE x \in Entries(t) \cup {h}
      BY <1>2 DEF Entries
    <2>2. ASSUME NEW x \in Entries(t) PROVE x \in Entries(u)
      BY <1>2 DEF Entries
    <2>3. h \in Entries(u)
      BY <1>2 DEF Entries
    <2> QED
      BY <2>1, <2>2, <2>3
  <1>5. Len(u) = IF h \in Entries(s) THEN Len(s) ELSE Len(s) + 1
    BY <1>1, <1>2
  <1> QED
    BY <1>1, <1>2, <1>3, <1>4, <1>5 DEF PushHead, t, u

LEMMA TailEntry ==
    ASSUME NEW s \in Seq(Hashes), Distinct(s), s # <<>>
    PROVE  /\ Tail(s) \in Seq(Hashes) /\ Distinct(Tail(s))
           /\ Head(s) \in Entries(s)
           /\ Entries(Tail(s)) = Entries(s) \ {Head(s)}
           /\ Len(Tail(s)) = Len(s) - 1
  <1>1. /\ Len(s) \in Nat \ {0} /\ DOMAIN s = 1..Len(s)
        /\ Tail(s) \in Seq(Hashes) /\ Len(Tail(s)) = Len(s) - 1
        /\ DOMAIN Tail(s) = 1..(Len(s) - 1)
        /\ \A i \in 1..(Len(s) - 1) : Tail(s)[i] = s[i + 1]
        /\ Head(s) = s[1]
    OBVIOUS
  <1>2. Distinct(Tail(s))
    BY <1>1 DEF Distinct
  <1>3. Head(s) \in Entries(s)
    BY <1>1 DEF Entries
  <1>4. ASSUME NEW x \in Entries(Tail(s)) PROVE x \in Entries(s) \ {Head(s)}
    BY <1>1 DEF Entries, Distinct
  <1>5. ASSUME NEW x \in Entries(s), x # Head(s) PROVE x \in Entries(Tail(s))
    <2>1. PICK i \in 1..Len(s) : s[i] = x
      BY <1>1 DEF Entries
    <2>2. i - 1 \in 1..(Len(s) - 1) /\ Tail(s)[i - 1] = x
      BY <1>1, <1>5, <2>1
    <2> QED
      BY <1>1, <2>2 DEF Entries
  <1> QED
    BY <1>1, <1>2, <1>3, <1>4, <1>5

LEMMA EntriesType ==
    ASSUME NEW s \in Seq(Hashes)
    PROVE  Entries(s) \subseteq Hashes /\ Len(s) \in Nat
  BY DEF Entries

LEMMA TrimEntry ==
    ASSUME NEW s \in Seq(Hashes), Distinct(s), NEW max \in Nat
    PROVE  Trim(s, max) \in Seq(Hashes) /\ Distinct(Trim(s, max))
  <1>1. CASE Len(s) > max
    <2> DEFINE m == Len(s) - max + 1
               t == SubSeq(s, m, Len(s))
    <2>1. Len(s) \in Nat /\ DOMAIN s = 1..Len(s) /\ m \in 1..(Len(s) + 1)
      BY <1>1
    <2>2. /\ t \in Seq(Hashes) /\ DOMAIN t = 1..max
          /\ \A i \in 1..max : t[i] = s[m + i - 1]
      BY <2>1
    <2>3. \A i \in 1..max : m + i - 1 \in 1..Len(s)
      BY <2>1
    <2>4. Distinct(t)
      BY <2>1, <2>2, <2>3 DEF Distinct
    <2> QED
      BY <1>1, <2>2, <2>4 DEF Trim
  <1>2. CASE ~(Len(s) > max)
    BY <1>2 DEF Trim
  <1> QED
    BY <1>1, <1>2
-----------------------------------------------------------------------------
(* The inductive invariant.                                                *)

\* What the bytes of queue q stand for: its entries, with a row or without
\* (an upload may give a queued hash its row), and main's popped candidate.
Held(q) ==
    Entries(queues[q])
      \cup {h \in Hashes : q = "main" /\ worker.pc = "reinsert" /\ h = worker.hash}

BytesCoverHeld ==
    used["restarts"] = 0 => \A q \in QueueNames : bytes[q] >= TotalSize(Held(q))

AllDistinct == Distinct(ghost) /\ \A q \in QueueNames : Distinct(queues[q])

\* The collector reports no more bytes than its blob has.
CollectorSizes ==
    collector.pc \in {"row", "hook"} => collector.size <= Size[collector.hash]

ReinsertsHit == worker.pc = "reinsert" => worker.row.AccessCount > 0

LocksExclude == ~(SharedLocked /\ ExclusiveLocked)

IInv ==
    /\ TypeOK
    /\ AllDistinct /\ LenCoversQueues
    /\ LocksExclude /\ CollectorSizes /\ ReinsertsHit
    /\ BytesCoverHeld

\* What a step may do to queue q: neither counter falls further, or rises
\* less, than what it covers.
SlackKept(q) ==
    /\ queues'[q] \in Seq(Hashes) /\ Distinct(queues'[q])
    /\ len'[q] \in Int /\ bytes'[q] \in Int
    /\ \/ len'[q] - Len(queues'[q]) >= len[q] - Len(queues[q])
       \/ len'[q] = Len(queues'[q])
    /\ \/ used'["restarts"] # 0
       \/ bytes'[q] - TotalSize(Held(q)') >= bytes[q] - TotalSize(Held(q))

LEMMA Basics ==
    ASSUME IInv
    PROVE  /\ \A q \in QueueNames :
                 /\ queues[q] \in Seq(Hashes) /\ Distinct(queues[q])
                 /\ Entries(queues[q]) \in SUBSET Hashes /\ Held(q) \in SUBSET Hashes
                 /\ Len(queues[q]) \in Nat /\ len[q] \in Nat /\ bytes[q] \in Int
                 /\ TotalSize(Held(q)) \in Nat
                 /\ worker.pc # "reinsert" => Held(q) = Entries(queues[q])
           /\ \A h \in Hashes : Size[h] \in Nat
           /\ ghost \in Seq(Hashes) /\ Distinct(ghost)
  <1>1. ASSUME NEW q \in QueueNames
        PROVE  /\ queues[q] \in Seq(Hashes) /\ Distinct(queues[q])
               /\ Len(queues[q]) \in Nat /\ len[q] \in Nat /\ bytes[q] \in Int
    BY DEF IInv, TypeOK, AllDistinct, LenCoversQueues
  <1>2. ASSUME NEW q \in QueueNames
        PROVE  /\ Entries(queues[q]) \in SUBSET Hashes /\ Held(q) \in SUBSET Hashes
               /\ TotalSize(Held(q)) \in Nat
               /\ worker.pc # "reinsert" => Held(q) = Entries(queues[q])
    <2>1. Entries(queues[q]) \in SUBSET Hashes
      BY <1>1, EntriesType
    <2>2. Held(q) \in SUBSET Hashes
      BY <2>1 DEF Held
    <2> QED
      BY <2>1, <2>2, TotalSizeType DEF Held
  <1> QED
    BY <1>1, <1>2, S3FifoAssumption DEF IInv, TypeOK, AllDistinct

\* Queue q and its counters as they were.
LEMMA SlackSame ==
    ASSUME IInv, NEW q \in QueueNames,
           queues'[q] = queues[q], len'[q] = len[q], bytes'[q] = bytes[q],
           Held(q)' = Held(q)
    PROVE  SlackKept(q)
  <1>1. bytes[q] - TotalSize(Held(q)) \in Int /\ len[q] - Len(queues[q]) \in Int
    BY Basics
  <1> QED
    BY <1>1, Basics DEF SlackKept

\* An entry pushed: counted, or there before.
LEMMA SlackPushed ==
    ASSUME IInv, NEW q \in QueueNames, NEW h \in Hashes,
           worker.pc # "reinsert", worker'.pc # "reinsert",
           queues'[q] = PushHead(queues[q], h),
           \/ len'[q] = len[q] + 1 /\ bytes'[q] = bytes[q] + Size[h]
           \/ h \in Entries(queues[q]) /\ len'[q] = len[q] /\ bytes'[q] = bytes[q]
    PROVE  SlackKept(q)
  <1> DEFINE s == queues[q]
             E == Entries(s)
             U == Entries(PushHead(s, h))
  <1>1. /\ PushHead(s, h) \in Seq(Hashes) /\ Distinct(PushHead(s, h))
        /\ U = E \cup {h}
        /\ Len(PushHead(s, h)) = IF h \in E THEN Len(s) ELSE Len(s) + 1
    BY Basics, PushHeadEntry
  <1>2. /\ Held(q) = E /\ Held(q)' = U
        /\ E \in SUBSET Hashes /\ Len(s) \in Nat /\ len[q] \in Nat /\ bytes[q] \in Int
        /\ Size[h] \in Nat
    BY Basics DEF Held
  <1>3. TotalSize(E) \in Nat /\ TotalSize(U) \in Nat
    BY <1>1, <1>2, TotalSizeType
  <1>4. TotalSize(U) <= TotalSize(E) + Size[h]
    BY <1>1, <1>2, TotalSizeUnion
  <1>5. h \in E => TotalSize(U) = TotalSize(E)
    <2>1. h \in E => U = E
      BY <1>1
    <2> QED
      BY <2>1
  <1> HIDE DEF E, U
  <1>6. len'[q] \in Int /\ bytes'[q] \in Int
    BY <1>2
  <1>7. bytes'[q] - TotalSize(U) >= bytes[q] - TotalSize(E)
    BY <1>2, <1>3, <1>4, <1>5 DEF E
  <1>8. len'[q] - Len(PushHead(s, h)) >= len[q] - Len(s)
    BY <1>1, <1>2 DEF E
  <1> QED
    BY <1>1, <1>2, <1>6, <1>7, <1>8 DEF SlackKept

\* An entry taken out, and at most its size and one entry discounted.
LEMMA SlackTaken ==
    ASSUME IInv, NEW q \in QueueNames, NEW h \in Entries(queues[q]),
           worker.pc # "reinsert", worker'.pc # "reinsert",
           NEW s, queues'[q] = s,
           s \in Seq(Hashes), Distinct(s), Entries(s) = Entries(queues[q]) \ {h},
           Len(s) = Len(queues[q]) - 1,
           len'[q] \in Int, len'[q] >= len[q] - 1,
           bytes'[q] \in Int, bytes'[q] >= bytes[q] - Size[h]
    PROVE  SlackKept(q)
  <1>1. /\ Held(q) = Entries(queues[q]) /\ Held(q)' = Entries(s)
        /\ h \in Hashes
        /\ Held(q) \in SUBSET Hashes /\ Len(queues[q]) \in Nat /\ len[q] \in Nat /\ bytes[q] \in Int
    BY Basics DEF Held
  <1>2. Size[h] \in Nat
    BY <1>1, Basics
  <1>3. TotalSize(Held(q)) = TotalSize(Held(q)') + Size[h]
    BY <1>1, TotalSizeTake
  <1>4. TotalSize(Held(q)) \in Nat /\ TotalSize(Held(q)') \in Nat
    <2>1. Held(q)' \in SUBSET Hashes
      BY <1>1
    <2> QED
      BY <1>1, <2>1, TotalSizeType
  <1>5. bytes'[q] - TotalSize(Held(q)') >= bytes[q] - TotalSize(Held(q))
    BY <1>1, <1>2, <1>3, <1>4
  <1>6. len'[q] - Len(s) >= len[q] - Len(queues[q])
    BY <1>1
  <1> QED
    BY <1>5, <1>6 DEF SlackKept

\* The popped candidate of q: the tail of the queue.
LEMMA CandidateTaken ==
    ASSUME IInv, NEW q \in QueueNames, NEW h, Candidate(q, h)
    PROVE  /\ h \in Entries(queues[q]) /\ h \in Hashes
           /\ Tail(queues[q]) \in Seq(Hashes) /\ Distinct(Tail(queues[q]))
           /\ Entries(Tail(queues[q])) = Entries(queues[q]) \ {h}
           /\ Len(Tail(queues[q])) = Len(queues[q]) - 1
           /\ worker.pc = "scan" /\ worker.queue = q
           /\ ~SharedLocked /\ ~ScanOver
  <1>1. /\ worker.queue = q /\ queues[q] # <<>> /\ h = Head(queues[q])
        /\ worker.pc = "scan" /\ ~SharedLocked /\ ~ScanOver
    BY DEF Candidate, Selecting, Oldest, CanLock
  <1>2. queues[q] \in Seq(Hashes) /\ Distinct(queues[q]) /\ Entries(queues[q]) \in SUBSET Hashes
    BY Basics
  <1> QED
    BY <1>1, <1>2, TailEntry
-----------------------------------------------------------------------------
(* What a step does to the queues, action by action.                       *)

\* Uploads: Admit pushes, the rest leaves the queues alone.
LEMMA PutterSlack ==
    ASSUME IInv, PutterNext, NEW q \in QueueNames
    PROVE  SlackKept(q)
  <1>1. PICK p \in Putters :
            \/ \E h \in Hashes : BeginPut(p, h)
            \/ StoreBlob(p) \/ CheckGhost(p) \/ CheckGhostFails(p)
            \/ Admit(p) \/ AdmitFails(p)
    BY DEF PutterNext
  <1>2. CASE Admit(p)
    <2>1. SharedLocked
      BY <1>2 DEF Admit, SharedLocked
    <2>2. worker.pc # "reinsert" /\ worker'.pc # "reinsert" /\ worker' = worker
      BY <1>2, <2>1 DEF IInv, LocksExclude, ExclusiveLocked, Admit
    <2>3. putters[p].hash \in Hashes
      BY <1>2 DEF Admit, IInv, TypeOK, PutterState, Idle
    <2> DEFINE h == putters[p].hash
    <2>4. Held(q)' = Held(q) \/ queues'[q] # queues[q]
      BY <2>2 DEF Held
    <2>5. queues \in [QueueNames -> Seq(Hashes)] /\ bytes \in [QueueNames -> Int]
          /\ len \in [QueueNames -> Int]
      BY DEF IInv, TypeOK
    <2>6. CASE AdmitToSmall(h)
      <3>1. CASE q = "small"
        <4>1. queues'[q] = PushHead(queues[q], h)
          BY <2>5, <2>6, <3>1 DEF AdmitToSmall
        <4>2. \/ len'[q] = len[q] + 1 /\ bytes'[q] = bytes[q] + Size[h]
              \/ h \in Entries(queues[q]) /\ len'[q] = len[q] /\ bytes'[q] = bytes[q]
          BY <2>5, <2>6, <3>1 DEF AdmitToSmall, CountIn
        <4> QED
          BY <2>2, <2>3, <4>1, <4>2, SlackPushed
      <3>2. CASE q # "small"
        <4>1. queues'[q] = queues[q] /\ len'[q] = len[q] /\ bytes'[q] = bytes[q]
          BY <2>5, <2>6, <3>2 DEF AdmitToSmall, CountIn
        <4> QED
          BY <2>4, <4>1, SlackSame
      <3> QED
        BY <3>1, <3>2
    <2>7. CASE AdmitGhostHit(h)
      <3>1. CASE h \in Entries(ghost) /\ q = "main"
        <4>1. queues'[q] = PushHead(queues[q], h)
          BY <2>5, <2>7, <3>1 DEF AdmitGhostHit
        <4>2. len'[q] = len[q] + 1 /\ bytes'[q] = bytes[q] + Size[h]
          BY <2>5, <2>7, <3>1 DEF AdmitGhostHit, CountIn
        <4> QED
          BY <2>2, <2>3, <4>1, <4>2, SlackPushed
      <3>2. CASE h \notin Entries(ghost) \/ q # "main"
        <4>1. queues'[q] = queues[q] /\ len'[q] = len[q] /\ bytes'[q] = bytes[q]
          BY <2>5, <2>7, <3>2 DEF AdmitGhostHit, CountIn, counters
        <4> QED
          BY <2>4, <4>1, SlackSame
      <3> QED
        BY <3>1, <3>2
    <2> QED
      BY <1>2, <2>6, <2>7 DEF Admit
  <1>3. CASE ~Admit(p)
    <2>1. UNCHANGED <<queues, bytes, len, worker>>
      BY <1>1, <1>3 DEF BeginPut, StoreBlob, CheckGhost, CheckGhostFails, AdmitFails, counters
    <2> QED
      BY <2>1, SlackSame DEF Held
  <1> QED
    BY <1>2, <1>3

\* The collector: CollectHook takes the blob out of its queues.
LEMMA CollectorSlack ==
    ASSUME IInv, CollectorNext, NEW q \in QueueNames
    PROVE  SlackKept(q)
  <1>1. ASSUME NEW places \in SUBSET Places, CollectHook(places)
        PROVE  SlackKept(q)
    <2> DEFINE h == collector.hash
               n == collector.size
               has == q \in places /\ h \in Entries(queues[q])
    <2>1. /\ worker.pc # "reinsert" /\ worker' = worker
          /\ queues'[q] = IF has THEN Without(queues[q], h) ELSE queues[q]
          /\ bytes'[q] = IF has THEN FloorSub(bytes[q], n) ELSE bytes[q]
          /\ len'[q] = IF has THEN FloorSub(len[q], 1) ELSE len[q]
      BY <1>1 DEF CollectHook, Remove, CanLock, ExclusiveLocked
    <2>2. h \in Hashes /\ n \in Nat /\ n <= Size[h]
      BY <1>1 DEF CollectHook, IInv, TypeOK, CollectorSizes, CollectorState, Idle
    <2>3. CASE has
      <3>1. /\ Without(queues[q], h) \in Seq(Hashes) /\ Distinct(Without(queues[q], h))
            /\ Entries(Without(queues[q], h)) = Entries(queues[q]) \ {h}
            /\ Len(Without(queues[q], h)) = Len(queues[q]) - 1
        BY <2>3, Basics, WithoutEntry
      <3>2. len'[q] \in Int /\ len'[q] >= len[q] - 1
        BY <2>1, <2>3, Basics DEF FloorSub
      <3>3. bytes'[q] \in Int /\ bytes'[q] >= bytes[q] - Size[h]
        BY <2>1, <2>2, <2>3, Basics DEF FloorSub
      <3> HIDE DEF h, n
      <3> QED
        BY <2>1, <2>3, <3>1, <3>2, <3>3, SlackTaken
    <2>4. CASE ~has
      BY <2>1, <2>4, SlackSame DEF Held
    <2> QED
      BY <2>3, <2>4
  <1>2. CASE ~\E places \in SUBSET Places : CollectHook(places)
    <2>1. UNCHANGED <<queues, bytes, len, worker>>
      BY <1>2 DEF CollectorNext, CollectBlob, CollectOrphan, CollectStep, CollectFile,
                  CollectRow, CollectFails, counters
    <2> QED
      BY <2>1, SlackSame DEF Held
  <1> QED
    BY <1>1, <1>2

\* A candidate popped for good, with its bytes or without.
LEMMA PoppedSlack ==
    ASSUME IInv, NEW q \in QueueNames, NEW r \in QueueNames, NEW h, Candidate(r, h),
           queues' = [queues EXCEPT ![r] = Tail(@)],
           len' = [len EXCEPT ![r] = @ - 1] \/ len' = len,
           bytes' = [bytes EXCEPT ![r] = @ - Size[h]] \/ bytes' = bytes,
           worker'.pc # "reinsert"
    PROVE  SlackKept(q)
  <1>1. /\ h \in Entries(queues[r]) /\ h \in Hashes
        /\ Tail(queues[r]) \in Seq(Hashes) /\ Distinct(Tail(queues[r]))
        /\ Entries(Tail(queues[r])) = Entries(queues[r]) \ {h}
        /\ Len(Tail(queues[r])) = Len(queues[r]) - 1
        /\ worker.pc = "scan"
    BY CandidateTaken
  <1>2. queues \in [QueueNames -> Seq(Hashes)] /\ bytes \in [QueueNames -> Int]
        /\ len \in [QueueNames -> Int] /\ Size[h] \in Nat
    BY <1>1, Basics DEF IInv, TypeOK
  <1>3. CASE q = r
    <2>1. /\ queues'[q] = Tail(queues[q])
          /\ len'[q] \in Int /\ len'[q] >= len[q] - 1
          /\ bytes'[q] \in Int /\ bytes'[q] >= bytes[q] - Size[h]
      BY <1>2, <1>3
    <2> QED
      BY <1>1, <1>3, <2>1, SlackTaken
  <1>4. CASE q # r
    <2>1. queues'[q] = queues[q] /\ len'[q] = len[q] /\ bytes'[q] = bytes[q]
      BY <1>2, <1>4
    <2>2. Held(q)' = Held(q)
      BY <1>1, <2>1 DEF Held
    <2> QED
      BY <2>1, <2>2, SlackSame
  <1> QED
    BY <1>3, <1>4

\* A candidate, popped, put back at the head.
LEMMA PutBackSlack ==
    ASSUME IInv, NEW q \in QueueNames, NEW r \in QueueNames, NEW h, Candidate(r, h),
           queues' = [queues EXCEPT ![r] = PushHead(@, h)],
           UNCHANGED <<len, bytes>>,
           worker'.pc # "reinsert"
    PROVE  SlackKept(q)
  <1>1. h \in Entries(queues[r]) /\ h \in Hashes /\ worker.pc = "scan"
    BY CandidateTaken
  <1>2. queues \in [QueueNames -> Seq(Hashes)]
    BY DEF IInv, TypeOK
  <1>3. CASE q = r
    <2>1. queues'[q] = PushHead(queues[q], h)
      BY <1>2, <1>3
    <2> QED
      BY <1>1, <1>3, <2>1, SlackPushed
  <1>4. CASE q # r
    <2>1. queues'[q] = queues[q]
      BY <1>2, <1>4
    <2>2. Held(q)' = Held(q)
      BY <1>1, <2>1 DEF Held
    <2> QED
      BY <2>1, <2>2, SlackSame
  <1> QED
    BY <1>3, <1>4

\* From the tail of small to the head of main, with its bytes.
LEMMA PromoteSlack ==
    ASSUME IInv, NEW h \in Hashes, Promote(h), NEW q \in QueueNames
    PROVE  SlackKept(q)
  <1>1. /\ h \in Entries(queues["small"]) /\ h \in Hashes
        /\ Tail(queues["small"]) \in Seq(Hashes) /\ Distinct(Tail(queues["small"]))
        /\ Entries(Tail(queues["small"])) = Entries(queues["small"]) \ {h}
        /\ Len(Tail(queues["small"])) = Len(queues["small"]) - 1
        /\ worker.pc = "scan"
    BY CandidateTaken DEF Promote, QueueNames
  <1>2. Size[h] \in Nat /\ \A r \in QueueNames : len[r] \in Nat /\ bytes[r] \in Int
    BY Basics
  <1>3. worker'.pc # "reinsert"
    BY DEF Promote, Decided, Idle
  <1>4. CASE q = "small"
    <2>1. queues'[q] = Tail(queues[q]) /\ len'[q] = len[q] - 1 /\ bytes'[q] = bytes[q] - Size[h]
      BY <1>4 DEF Promote
    <2>2. len'[q] \in Int /\ len'[q] >= len[q] - 1 /\ bytes'[q] \in Int /\ bytes'[q] >= bytes[q] - Size[h]
      BY <1>2, <2>1
    <2> QED
      BY <1>1, <1>3, <1>4, <2>1, <2>2, SlackTaken
  <1>5. CASE q = "main"
    <2>1. queues'[q] = PushHead(queues[q], h) /\ len'[q] = len[q] + 1 /\ bytes'[q] = bytes[q] + Size[h]
      BY <1>5 DEF Promote
    <2> QED
      BY <1>1, <1>3, <2>1, SlackPushed
  <1> QED
    BY <1>4, <1>5 DEF QueueNames

\* Main's candidate, popped for its second chance, still has its bytes.
LEMMA SecondChanceSlack ==
    ASSUME IInv, NEW h \in Hashes, SecondChance(h), NEW q \in QueueNames
    PROVE  SlackKept(q)
  <1>1. /\ h \in Entries(queues["main"])
        /\ Tail(queues["main"]) \in Seq(Hashes) /\ Distinct(Tail(queues["main"]))
        /\ Entries(Tail(queues["main"])) = Entries(queues["main"]) \ {h}
        /\ Len(Tail(queues["main"])) = Len(queues["main"]) - 1
        /\ worker.pc = "scan"
    BY CandidateTaken DEF SecondChance, QueueNames
  <1>2. /\ queues \in [QueueNames -> Seq(Hashes)] /\ len \in [QueueNames -> Int]
        /\ queues' = [queues EXCEPT !["main"] = Tail(@)]
        /\ len' = [len EXCEPT !["main"] = @ - 1]
        /\ bytes' = bytes
        /\ worker'.pc = "reinsert" /\ worker'.hash = h
    BY DEF SecondChance, IInv, TypeOK
  <1>3. CASE q = "main"
    <2>1. queues'[q] = Tail(queues[q]) /\ len'[q] = len[q] - 1
      BY <1>2, <1>3
    <2>2. Held(q)' = Held(q)
      BY <1>1, <1>2, <1>3, <2>1 DEF Held
    <2>3. /\ len[q] \in Nat /\ Len(queues[q]) \in Nat /\ bytes[q] \in Int
          /\ TotalSize(Held(q)) \in Nat
      BY Basics
    <2>4. len'[q] - Len(queues'[q]) >= len[q] - Len(queues[q]) /\ len'[q] \in Int
      BY <1>1, <1>3, <2>1, <2>3
    <2>5. bytes'[q] - TotalSize(Held(q)') >= bytes[q] - TotalSize(Held(q)) /\ bytes'[q] \in Int
      BY <1>2, <2>2, <2>3
    <2> QED
      BY <1>1, <1>3, <2>1, <2>4, <2>5 DEF SlackKept
  <1>4. CASE q # "main"
    <2>1. queues'[q] = queues[q] /\ len'[q] = len[q]
      BY <1>2, <1>4
    <2>2. Held(q)' = Held(q)
      BY <1>4, <2>1 DEF Held
    <2> QED
      BY <1>2, <2>1, <2>2, SlackSame
  <1> QED
    BY <1>3, <1>4

\* Back to main, where its bytes are counted already.
LEMMA ReinsertSlack ==
    ASSUME IInv, worker.pc = "reinsert", BackToMain(worker.hash),
           UNCHANGED bytes, worker'.pc # "reinsert",
           NEW q \in QueueNames
    PROVE  SlackKept(q)
  <1> DEFINE h == worker.hash
  <1>1. h \in Hashes
    BY DEF IInv, TypeOK, WorkerState, Idle
  <1>2. /\ queues \in [QueueNames -> Seq(Hashes)] /\ len \in [QueueNames -> Int]
        /\ queues' = [queues EXCEPT !["main"] = PushHead(@, h)]
        /\ len' = [len EXCEPT !["main"] = @ + 1]
    BY DEF BackToMain, IInv, TypeOK
  <1>3. CASE q = "main"
    <2>1. queues'[q] = PushHead(queues[q], h) /\ len'[q] = len[q] + 1
      BY <1>2, <1>3
    <2>2. /\ PushHead(queues[q], h) \in Seq(Hashes) /\ Distinct(PushHead(queues[q], h))
          /\ Entries(PushHead(queues[q], h)) = Entries(queues[q]) \cup {h}
          /\ Len(queues'[q]) <= Len(queues[q]) + 1 /\ Len(queues'[q]) \in Nat
      BY <1>1, <2>1, Basics, PushHeadEntry
    <2>3. Held(q)' = Held(q)
      BY <1>1, <1>3, <2>1, <2>2 DEF Held
    <2>4. /\ len[q] \in Nat /\ Len(queues[q]) \in Nat /\ bytes[q] \in Int
          /\ TotalSize(Held(q)) \in Nat
      BY Basics
    <2>5. len'[q] - Len(queues'[q]) >= len[q] - Len(queues[q]) /\ len'[q] \in Int
      BY <2>1, <2>2, <2>4
    <2>6. bytes'[q] - TotalSize(Held(q)') >= bytes[q] - TotalSize(Held(q)) /\ bytes'[q] \in Int
      BY <2>3, <2>4
    <2> QED
      BY <2>1, <2>2, <2>5, <2>6 DEF SlackKept
  <1>4. CASE q # "main"
    <2>1. queues'[q] = queues[q] /\ len'[q] = len[q]
      BY <1>2, <1>4
    <2>2. Held(q)' = Held(q)
      BY <1>4, <2>1 DEF Held
    <2> QED
      BY <2>1, <2>2, SlackSame
  <1> QED
    BY <1>3, <1>4

LEMMA RestoreSlack ==
    ASSUME IInv, Restore, NEW q \in QueueNames
    PROVE  SlackKept(q)
  <1> DEFINE r == worker.queue
             h == worker.hash
  <1>1. /\ r \in QueueNames /\ h \in Hashes /\ worker.pc = "restore"
    BY DEF Restore, IInv, TypeOK, WorkerState, Idle
  <1>2. /\ queues \in [QueueNames -> Seq(Hashes)] /\ len \in [QueueNames -> Int]
        /\ bytes \in [QueueNames -> Int]
        /\ queues' = [queues EXCEPT ![r] = PushHead(@, h)]
        /\ IF h \in Entries(queues[r]) THEN UNCHANGED <<bytes, len>> ELSE CountIn(r, h)
        /\ worker'.pc # "reinsert"
    BY DEF Restore, IInv, TypeOK, Idle
  <1>3. CASE q = r
    <2>1. queues'[q] = PushHead(queues[q], h)
      BY <1>1, <1>2, <1>3
    <2>2. \/ len'[q] = len[q] + 1 /\ bytes'[q] = bytes[q] + Size[h]
          \/ h \in Entries(queues[q]) /\ len'[q] = len[q] /\ bytes'[q] = bytes[q]
      BY <1>1, <1>2, <1>3 DEF CountIn
    <2> QED
      BY <1>1, <1>2, <2>1, <2>2, SlackPushed
  <1>4. CASE q # r
    <2>1. queues'[q] = queues[q] /\ len'[q] = len[q] /\ bytes'[q] = bytes[q]
      BY <1>1, <1>2, <1>4 DEF CountIn
    <2>2. Held(q)' = Held(q)
      BY <1>1, <1>2, <2>1 DEF Held
    <2> QED
      BY <2>1, <2>2, SlackSame
  <1> QED
    BY <1>3, <1>4

\* Every step uses up at most one unit of one bound.
LEMMA UsedStep ==
    ASSUME [Next]_vars
    PROVE  \/ used' = used
           \/ \E k \in {"ops", "faults", "restarts"} : used' = [used EXCEPT ![k] = @ + 1]
  <1> USE DEF UseOp, Fault
  <1>1. CASE PutterNext
    BY <1>1 DEF PutterNext, BeginPut, StoreBlob, CheckGhost, CheckGhostFails, Admit, AdmitFails
  <1>2. CASE RowNext
    BY <1>2 DEF RowNext, TouchBlob, PinBlob, UnpinBlob, SetRefCount
  <1>3. CASE CollectorNext
    BY <1>3 DEF CollectorNext, CollectBlob, CollectOrphan, CollectStep, CollectFile,
                CollectRow, CollectHook, CollectFails
  <1>4. CASE WorkerStep
    BY <1>4 DEF WorkerStep, MaybeEvict, EndScan, PopEmptyQueue, DropOrphan, SkipPinned,
                SelectVictim, Promote, SecondChance, Reinsert, DeleteFile, DeleteRow,
                Finish, Restore
  <1>5. CASE WorkerFault
    BY <1>5 DEF WorkerFault, CandidateFails, CandidateLost, PassFails, ReinsertFails,
                DeleteFails, RestoreFails, FinishFails
  <1>6. ASSUME NEW popped \in BOOLEAN, Restart(popped)
        PROVE  used' = [used EXCEPT !["restarts"] = @ + 1]
    BY <1>6 DEF Restart
  <1> QED
    BY <1>1, <1>2, <1>3, <1>4, <1>5, <1>6 DEF Next, vars

LEMMA NotReinserting ==
    /\ Idle.pc = "idle"
    /\ \A r, n : Scan(r, n).pc = "scan"
    /\ \A pc, r, h : Pending(pc, r, h).pc = pc
  BY DEF Idle, Scan, Pending

LEMMA WorkerMovesOn ==
    ASSUME IInv, NEW pc, worker.pc \in {"file", "row"},
           worker' = [worker EXCEPT !.pc = pc]
    PROVE  worker'.pc = pc
  BY DEF IInv, TypeOK, WorkerState, Idle

\* Only a second chance leaves the worker with a candidate out of main.
LEMMA WorkerLeavesMain ==
    ASSUME IInv, WorkerStep \/ WorkerFault, ~\E h \in Hashes : SecondChance(h)
    PROVE  worker'.pc # "reinsert"
  <1>1. ASSUME NEW h \in Hashes, NEW q \in QueueNames,
               \/ DropOrphan(q, h) \/ SkipPinned(q, h) \/ SelectVictim(q, h)
               \/ CandidateFails(q, h) \/ CandidateLost(q, h) \/ Promote(h)
        PROVE  worker'.pc # "reinsert"
    <2>1. \/ worker' = Idle \/ worker' = Scan(q, worker.attempts - 1)
          \/ worker' = Pending("file", q, h)
      BY <1>1 DEF DropOrphan, SkipPinned, SelectVictim, CandidateFails, CandidateLost,
                  Promote, Decided
    <2>2. Pending("file", q, h).pc # "reinsert"
      BY DEF Pending
    <2> QED
      BY <2>1, <2>2, NotReinserting
  <1>2. CASE MaybeEvict \/ EndScan \/ DeleteFile \/ DeleteRow \/ DeleteFails
    <2>1. CASE MaybeEvict \/ EndScan
      BY <2>1, NotReinserting DEF MaybeEvict, EndScan
    <2>2. CASE DeleteFile \/ DeleteRow \/ DeleteFails
      BY <2>2, WorkerMovesOn DEF DeleteFile, DeleteRow, DeleteFails
    <2> QED
      BY <1>2, <2>1, <2>2
  <1>3. CASE \/ PopEmptyQueue \/ Reinsert \/ Finish \/ Restore
             \/ PassFails \/ ReinsertFails \/ RestoreFails \/ FinishFails
    <2>1. worker' = Idle
      BY <1>3 DEF PopEmptyQueue, Reinsert, Finish, Restore, PassFails, ReinsertFails,
                  RestoreFails, FinishFails, Decided
    <2> QED
      BY <2>1, NotReinserting
  <1>4. "main" \in QueueNames
    BY DEF QueueNames
  <1> QED
    BY <1>1, <1>2, <1>3, <1>4 DEF WorkerStep, WorkerFault

\* The worker's steps.
LEMMA WorkerSlack ==
    ASSUME IInv, WorkerStep \/ WorkerFault, NEW q \in QueueNames
    PROVE  SlackKept(q)
  <1>1. ASSUME UNCHANGED <<queues, bytes, len>>,
               worker.pc # "reinsert", worker'.pc # "reinsert"
        PROVE  SlackKept(q)
    BY <1>1, SlackSame DEF Held
  <1>2. ASSUME MaybeEvict \/ EndScan \/ PopEmptyQueue PROVE SlackKept(q)
    <2>1. UNCHANGED <<queues, bytes, len>> /\ worker.pc # "reinsert"
      BY <1>2, NotReinserting DEF MaybeEvict, EndScan, PopEmptyQueue, Selecting, counters
    <2>2. worker'.pc # "reinsert"
      BY <1>2, NotReinserting DEF MaybeEvict, EndScan, PopEmptyQueue, Decided
    <2> QED
      BY <1>1, <2>1, <2>2
  <1>3. ASSUME DeleteFile \/ DeleteRow \/ Finish PROVE SlackKept(q)
    <2>1. UNCHANGED <<queues, bytes, len>> /\ worker.pc # "reinsert"
      BY <1>3 DEF DeleteFile, DeleteRow, Finish, counters
    <2>2. worker'.pc # "reinsert"
      BY <1>3, NotReinserting, WorkerMovesOn DEF DeleteFile, DeleteRow, Finish, Decided
    <2> QED
      BY <1>1, <2>1, <2>2
  <1>4. ASSUME PassFails \/ DeleteFails \/ RestoreFails \/ FinishFails PROVE SlackKept(q)
    <2>1. UNCHANGED <<queues, bytes, len>> /\ worker.pc # "reinsert"
      BY <1>4 DEF PassFails, Selecting, DeleteFails, RestoreFails, FinishFails, counters
    <2>2. worker'.pc # "reinsert"
      BY <1>4, NotReinserting, WorkerMovesOn
         DEF PassFails, DeleteFails, RestoreFails, FinishFails, Decided
    <2> QED
      BY <1>1, <2>1, <2>2
  <1>5. ASSUME NEW h \in Hashes, NEW r \in QueueNames,
               DropOrphan(r, h) \/ SelectVictim(r, h) \/ CandidateLost(r, h)
        PROVE  SlackKept(q)
    <2>1. worker'.pc # "reinsert"
      <3>1. worker' = Idle \/ worker' = Pending("file", r, h)
        BY <1>5 DEF DropOrphan, SelectVictim, CandidateLost, Decided
      <3>2. Pending("file", r, h).pc # "reinsert"
        BY DEF Pending
      <3> QED
        BY <3>1, <3>2, NotReinserting
    <2>2. /\ Candidate(r, h)
          /\ queues' = [queues EXCEPT ![r] = Tail(@)]
          /\ len' = [len EXCEPT ![r] = @ - 1]
          /\ bytes' = [bytes EXCEPT ![r] = @ - Size[h]] \/ bytes' = bytes
      BY <1>5 DEF DropOrphan, SelectVictim, CandidateLost
    <2> QED
      BY <2>1, <2>2, PoppedSlack
  <1>6. ASSUME NEW h \in Hashes, NEW r \in QueueNames, SkipPinned(r, h)
        PROVE  SlackKept(q)
    BY <1>6, PutBackSlack DEF SkipPinned, Scan, counters
  <1>7. ASSUME NEW h \in Hashes, NEW r \in QueueNames, CandidateFails(r, h)
        PROVE  SlackKept(q)
    <2>1. Candidate(r, h) /\ UNCHANGED <<len, bytes>> /\ worker'.pc # "reinsert"
      BY <1>7 DEF CandidateFails, Idle, counters
    <2>2. CASE queues' = [queues EXCEPT ![r] = PushHead(@, h)]
      BY <2>1, <2>2, PutBackSlack
    <2>3. CASE queues' = [queues EXCEPT ![r] = Tail(@)]
      BY <2>1, <2>3, PoppedSlack
    <2> QED
      BY <1>7, <2>2, <2>3 DEF CandidateFails
  <1>8. ASSUME Reinsert \/ ReinsertFails PROVE SlackKept(q)
    <2>1. /\ worker.pc = "reinsert" /\ BackToMain(worker.hash) /\ UNCHANGED bytes
          /\ worker' = Idle
      BY <1>8 DEF Reinsert, ReinsertFails, Decided
    <2> QED
      BY <2>1, NotReinserting, ReinsertSlack
  <1> QED
    BY <1>2, <1>3, <1>4, <1>5, <1>6, <1>7, <1>8, PromoteSlack, SecondChanceSlack,
       RestoreSlack DEF WorkerStep, WorkerFault

\* A restart counts every entry, and the bytes of those that have a row.
LEMMA RestartSlack ==
    ASSUME IInv, NEW popped \in BOOLEAN, Restart(popped), NEW q \in QueueNames
    PROVE  SlackKept(q)
  <1>1. queues'[q] \in Seq(Hashes) /\ Distinct(queues'[q])
    <2>1. queues[q] \in Seq(Hashes) /\ Distinct(queues[q]) /\ queues \in [QueueNames -> Seq(Hashes)]
      BY Basics DEF IInv, TypeOK
    <2>2. \/ queues'[q] = queues[q]
          \/ queues[q] # <<>> /\ queues'[q] = Tail(queues[q])
      BY <2>1 DEF Restart
    <2> QED
      BY <2>1, <2>2, TailEntry
  <1>2. len'[q] = Len(queues'[q]) /\ len'[q] \in Int
    BY <1>1 DEF Restart
  <1>3. used'["restarts"] # 0
    BY DEF Restart, Fault, IInv, TypeOK
  <1>4. bytes'[q] \in Int
    <2>1. {h \in Entries(queues'[q]) : HasRow(h)} \in SUBSET Hashes
      BY <1>1, EntriesType
    <2>2. bytes'[q] = TotalSize({h \in Entries(queues'[q]) : HasRow(h)})
      BY DEF Restart, RecomputedBytes
    <2> QED
      BY <2>1, <2>2, TotalSizeType
  <1> QED
    BY <1>1, <1>2, <1>3, <1>4 DEF SlackKept

LEMMA QueueStep ==
    ASSUME IInv, [Next]_vars, NEW q \in QueueNames
    PROVE  SlackKept(q)
  <1>1. CASE RowNext
    <2>1. UNCHANGED <<queues, bytes, len, worker>>
      BY <1>1 DEF RowNext, TouchBlob, PinBlob, UnpinBlob, SetRefCount, counters
    <2> QED
      BY <2>1, SlackSame DEF Held
  <1>2. CASE UNCHANGED vars
    <2>1. UNCHANGED <<queues, bytes, len, worker>>
      BY <1>2 DEF vars, counters
    <2> QED
      BY <2>1, SlackSame DEF Held
  <1> QED
    BY <1>1, <1>2, PutterSlack, CollectorSlack, WorkerSlack, RestartSlack DEF Next
-----------------------------------------------------------------------------
(* The parts of the invariant.                                             *)

LEMMA CountersPreserved ==
    ASSUME IInv, [Next]_vars
    PROVE  (LenCoversQueues /\ BytesCoverHeld)'
  <1>1. ASSUME NEW q \in QueueNames PROVE len'[q] >= Len(queues'[q])
    <2>1. SlackKept(q)
      BY <1>1, QueueStep
    <2>2. len[q] >= Len(queues[q]) /\ len[q] \in Nat /\ Len(queues[q]) \in Nat
      BY Basics DEF IInv, LenCoversQueues
    <2>3. Len(queues'[q]) \in Nat /\ len'[q] \in Int
      BY <2>1 DEF SlackKept
    <2> QED
      BY <2>1, <2>2, <2>3 DEF SlackKept
  <1>2. ASSUME NEW q \in QueueNames, used'["restarts"] = 0
        PROVE  bytes'[q] >= TotalSize(Held(q)')
    <2>1. SlackKept(q)
      BY <1>2, QueueStep
    <2>2. used["restarts"] = 0
      <3>1. used \in [{"ops", "faults", "restarts"} -> Nat]
        BY DEF IInv, TypeOK
      <3>2. \/ used' = used
            \/ \E k \in {"ops", "faults", "restarts"} : used' = [used EXCEPT ![k] = @ + 1]
        BY UsedStep
      <3> QED
        BY <1>2, <3>1, <3>2
    <2>3. bytes[q] >= TotalSize(Held(q)) /\ bytes[q] \in Int /\ TotalSize(Held(q)) \in Nat
      BY <2>2, Basics DEF IInv, BytesCoverHeld
    <2>4. TotalSize(Held(q)') \in Nat
      <3>1. Held(q)' \in SUBSET Hashes
        BY <2>1, EntriesType DEF SlackKept, Held
      <3> QED
        BY <3>1, TotalSizeType
    <2>5. bytes'[q] - TotalSize(Held(q)') >= bytes[q] - TotalSize(Held(q)) /\ bytes'[q] \in Int
      BY <1>2, <2>1 DEF SlackKept
    <2> QED
      BY <2>3, <2>4, <2>5
  <1>3. LenCoversQueues'
    BY <1>1 DEF LenCoversQueues
  <1>4. BytesCoverHeld'
    BY <1>2 DEF BytesCoverHeld
  <1> QED
    BY <1>3, <1>4

\* The queues and their counters stay functions of the queue's name.
ByQueue(f) == f = [q \in QueueNames |-> f[q]]
AllByQueue == ByQueue(queues) /\ ByQueue(bytes) /\ ByQueue(len)

LEMMA QueueFunctions ==
    ASSUME IInv, [Next]_vars
    PROVE  AllByQueue'
  <1>1. ByQueue(queues) /\ ByQueue(bytes) /\ ByQueue(len)
    BY DEF IInv, TypeOK, ByQueue
  <1>2. ASSUME NEW f, ByQueue(f), NEW q, NEW x PROVE ByQueue([f EXCEPT ![q] = x])
    BY <1>2 DEF ByQueue
  <1>3. ASSUME NEW x, NEW y PROVE ByQueue([small |-> x, main |-> y])
    BY DEF QueueNames, ByQueue
  <1>4. ASSUME NEW h, CountIn("small", h) \/ CountIn("main", h) \/ UNCHANGED <<bytes, len>>
        PROVE  ByQueue(bytes') /\ ByQueue(len')
    BY <1>1, <1>2, <1>4 DEF CountIn, ByQueue
  <1> USE DEF AllByQueue
  <1>5. CASE PutterNext
    <2>1. ASSUME NEW p \in Putters, Admit(p) PROVE AllByQueue'
      BY <1>1, <1>2, <1>4, <2>1 DEF ByQueue, Admit, AdmitToSmall, AdmitGhostHit, counters
    <2>2. CASE ~\E p \in Putters : Admit(p)
      BY <1>1, <1>5, <2>2 DEF PutterNext, BeginPut, StoreBlob, CheckGhost, CheckGhostFails,
                              AdmitFails, counters
    <2> QED
      BY <2>1, <2>2
  <1>6. CASE RowNext
    BY <1>1, <1>6 DEF RowNext, TouchBlob, PinBlob, UnpinBlob, SetRefCount, counters
  <1>7. CASE CollectorNext
    <2>1. ASSUME NEW places \in SUBSET Places, CollectHook(places) PROVE AllByQueue'
      BY <2>1 DEF CollectHook, Remove, ByQueue
    <2>2. CASE ~\E places \in SUBSET Places : CollectHook(places)
      BY <1>1, <1>7, <2>2 DEF CollectorNext, CollectBlob, CollectOrphan, CollectStep,
                              CollectFile, CollectRow, CollectFails, counters
    <2> QED
      BY <2>1, <2>2
  <1>8. ASSUME NEW h \in Hashes, Promote(h) \/ SecondChance(h) PROVE AllByQueue'
    BY <1>1, <1>2, <1>3, <1>8 DEF ByQueue, Promote, SecondChance
  <1>9. ASSUME NEW h \in Hashes, NEW q \in QueueNames,
               \/ DropOrphan(q, h) \/ SkipPinned(q, h) \/ SelectVictim(q, h)
               \/ CandidateFails(q, h) \/ CandidateLost(q, h)
        PROVE  AllByQueue'
    BY <1>1, <1>2, <1>9
       DEF ByQueue, DropOrphan, SkipPinned, SelectVictim, CandidateFails, CandidateLost, counters
  <1>10. CASE Reinsert \/ ReinsertFails
    BY <1>1, <1>2, <1>10 DEF ByQueue, Reinsert, ReinsertFails, BackToMain
  <1>11. CASE Restore
    <2>1. ByQueue(queues')
      BY <1>1, <1>2, <1>11 DEF ByQueue, Restore
    <2>2. ByQueue(bytes') /\ ByQueue(len')
      BY <1>1, <1>2, <1>11 DEF ByQueue, Restore, CountIn
    <2> QED
      BY <2>1, <2>2
  <1>12. CASE \/ MaybeEvict \/ EndScan \/ PopEmptyQueue \/ DeleteFile \/ DeleteRow \/ Finish
              \/ PassFails \/ DeleteFails \/ RestoreFails \/ FinishFails
    BY <1>1, <1>12 DEF MaybeEvict, EndScan, PopEmptyQueue, DeleteFile, DeleteRow, Finish,
                       PassFails, DeleteFails, RestoreFails, FinishFails, counters
  <1>13. ASSUME NEW popped \in BOOLEAN, Restart(popped) PROVE AllByQueue'
    <2>1. ByQueue(bytes') /\ ByQueue(len')
      BY <1>13 DEF Restart, ByQueue
    <2>2. ByQueue(queues')
      BY <1>1, <1>2, <1>13, Zenon DEF Restart
    <2> QED
      BY <2>1, <2>2
  <1>14. CASE UNCHANGED vars
    BY <1>1, <1>14 DEF vars, counters
  <1> QED
    BY <1>5, <1>6, <1>7, <1>8, <1>9, <1>10, <1>11, <1>12, <1>13, <1>14
       DEF Next, WorkerStep, WorkerFault

LEMMA QueuesPreserved ==
    ASSUME IInv, [Next]_vars
    PROVE  /\ queues' \in [QueueNames -> Seq(Hashes)]
           /\ bytes' \in [QueueNames -> Int] /\ len' \in [QueueNames -> Int]
           /\ \A q \in QueueNames : Distinct(queues'[q])
  <1>1. \A q \in QueueNames : /\ queues'[q] \in Seq(Hashes) /\ Distinct(queues'[q])
                              /\ bytes'[q] \in Int /\ len'[q] \in Int
    BY QueueStep DEF SlackKept
  <1> QED
    BY <1>1, QueueFunctions DEF AllByQueue, ByQueue

\* One row is written, deleted, or none.
Row == BlobEntry \cup {NoRow}

LEMMA RowsPreserved ==
    ASSUME IInv, [Next]_vars
    PROVE  rows' \in [Hashes -> Row]
  <1>1. rows \in [Hashes -> Row] /\ NoRow \notin BlobEntry /\ MaxAccess \in Nat
    BY S3FifoAssumption DEF IInv, TypeOK, Row
  <1>2. ASSUME NEW h, NEW row \in Row, rows' = [rows EXCEPT ![h] = row]
        PROVE  rows' \in [Hashes -> Row]
    BY <1>1, <1>2
  <1>3. ASSUME UNCHANGED rows PROVE rows' \in [Hashes -> Row]
    BY <1>1, <1>3
  <1>4. CASE PutterNext
    <2>1. ASSUME NEW p \in Putters, StoreBlob(p) PROVE rows' \in [Hashes -> Row]
      <3>1. [RefCount |-> 0, AccessCount |-> 0] \in Row
        BY <1>1 DEF BlobEntry, Row
      <3>2. rows' = [rows EXCEPT ![putters[p].hash] = [RefCount |-> 0, AccessCount |-> 0]]
        BY <2>1 DEF StoreBlob
      <3> QED
        BY <1>2, <3>1, <3>2
    <2>2. CASE ~\E p \in Putters : StoreBlob(p)
      BY <1>3, <1>4, <2>2 DEF PutterNext, BeginPut, CheckGhost, CheckGhostFails, Admit, AdmitFails
    <2> QED
      BY <2>1, <2>2
  <1>5. CASE RowNext
    <2>1. ASSUME NEW h \in Hashes, TouchBlob(h) PROVE rows' \in [Hashes -> Row]
      <3>1. rows[h] \in BlobEntry
        BY <1>1, <2>1 DEF TouchBlob, HasRow, Row
      <3>2. [rows[h] EXCEPT !.AccessCount = @ + 1] \in Row
        BY <1>1, <2>1, <3>1 DEF BlobEntry, Row, TouchBlob
      <3>3. rows' = [rows EXCEPT ![h] = [rows[h] EXCEPT !.AccessCount = @ + 1]]
        BY <2>1 DEF TouchBlob
      <3> QED
        BY <1>2, <3>2, <3>3
    <2>2. ASSUME NEW h \in Hashes, NEW n \in 0..1, SetRefCount(h, n)
          PROVE  rows' \in [Hashes -> Row]
      <3>1. rows[h] \in BlobEntry
        BY <1>1, <2>2 DEF SetRefCount, HasRow, Row
      <3>2. [rows[h] EXCEPT !.RefCount = n] \in Row
        BY <2>2, <3>1 DEF BlobEntry, Row
      <3>3. rows' = [rows EXCEPT ![h] = [rows[h] EXCEPT !.RefCount = n]]
        BY <2>2 DEF SetRefCount
      <3> QED
        BY <1>2, <3>2, <3>3
    <2> QED
      BY <1>5, <2>1, <2>2 DEF RowNext, PinBlob, UnpinBlob
  <1>6. CASE CollectorNext
    BY <1>1, <1>6 DEF Row, CollectorNext, CollectBlob, CollectOrphan, CollectStep, CollectFile,
                      CollectRow, CollectHook, CollectFails
  <1>7. CASE Reinsert
    <2>1. worker.row \in BlobEntry /\ worker.row.AccessCount > 0
      BY <1>7 DEF Reinsert, IInv, TypeOK, ReinsertsHit, WorkerState, Idle
    <2>2. [worker.row EXCEPT !.AccessCount = @ - 1] \in Row
      BY <1>1, <2>1 DEF BlobEntry, Row
    <2> DEFINE row == [worker.row EXCEPT !.AccessCount = @ - 1]
               h == worker.hash
    <2>3. rows' = [rows EXCEPT ![h] = row] /\ row \in Row
      BY <1>7, <2>2 DEF Reinsert
    <2> HIDE DEF row, h
    <2> QED
      BY <1>2, <2>3
  <1>8. ASSUME NEW h \in Hashes, NEW q \in QueueNames, CandidateLost(q, h)
        PROVE  rows' \in [Hashes -> Row]
    <2>1. CASE Pinned(h)
      BY <1>3, <1>8, <2>1 DEF CandidateLost
    <2>2. CASE ~Pinned(h)
      <3>1. rows[h] \in BlobEntry /\ rows[h].AccessCount > 0
        BY <1>1, <1>8, <2>2 DEF CandidateLost, HasRow, Row
      <3>2. [rows[h] EXCEPT !.AccessCount = @ - 1] \in Row
        BY <1>1, <3>1 DEF BlobEntry, Row
      <3>3. rows' = [rows EXCEPT ![h] = [rows[h] EXCEPT !.AccessCount = @ - 1]]
        BY <1>8, <2>2 DEF CandidateLost
      <3> QED
        BY <1>2, <3>2, <3>3
    <2> QED
      BY <2>1, <2>2
  <1>9. CASE DeleteRow
    BY <1>1, <1>9 DEF DeleteRow, Row
  <1>10. ASSUME NEW h \in Hashes, NEW q \in QueueNames,
                \/ DropOrphan(q, h) \/ SkipPinned(q, h) \/ SelectVictim(q, h)
                \/ CandidateFails(q, h) \/ Promote(h) \/ SecondChance(h)
         PROVE  rows' \in [Hashes -> Row]
    BY <1>3, <1>10 DEF DropOrphan, SkipPinned, SelectVictim, CandidateFails, Promote, SecondChance
  <1>11. CASE \/ MaybeEvict \/ EndScan \/ PopEmptyQueue \/ DeleteFile \/ Finish \/ Restore
              \/ PassFails \/ ReinsertFails \/ DeleteFails \/ RestoreFails \/ FinishFails
    BY <1>3, <1>11 DEF MaybeEvict, EndScan, PopEmptyQueue, DeleteFile, Finish, Restore,
                       PassFails, ReinsertFails, DeleteFails, RestoreFails, FinishFails
  <1>12. ASSUME NEW popped \in BOOLEAN, Restart(popped) PROVE UNCHANGED rows
    BY <1>12 DEF Restart
  <1>13. CASE UNCHANGED vars
    BY <1>3, <1>13 DEF vars
  <1>14. "main" \in QueueNames
    BY DEF QueueNames
  <1>15. CASE WorkerStep
    BY <1>7, <1>9, <1>10, <1>11, <1>14, <1>15 DEF WorkerStep
  <1>16. CASE WorkerFault
    BY <1>8, <1>10, <1>11, <1>16 DEF WorkerFault
  <1> QED
    BY <1>3, <1>4, <1>5, <1>6, <1>12, <1>13, <1>15, <1>16 DEF Next

LEMMA FilesPreserved ==
    ASSUME IInv, [Next]_vars
    PROVE  files' \subseteq Hashes
  <1>1. files \subseteq Hashes
    BY DEF IInv, TypeOK
  <1>2. ASSUME files' \subseteq files PROVE files' \subseteq Hashes
    BY <1>1, <1>2
  <1>3. CASE PutterNext
    <2>1. ASSUME NEW p \in Putters, StoreBlob(p) PROVE files' \subseteq Hashes
      <3>1. putters[p].hash \in Hashes
        BY <2>1 DEF StoreBlob, IInv, TypeOK, PutterState, Idle
      <3> QED
        BY <1>1, <2>1, <3>1 DEF StoreBlob
    <2>2. CASE ~\E p \in Putters : StoreBlob(p)
      BY <1>2, <1>3, <2>2 DEF PutterNext, BeginPut, CheckGhost, CheckGhostFails, Admit, AdmitFails
    <2> QED
      BY <2>1, <2>2
  <1>4. CASE RowNext
    BY <1>1, <1>4 DEF RowNext, TouchBlob, PinBlob, UnpinBlob, SetRefCount
  <1>5. CASE CollectorNext
    BY <1>1, <1>5 DEF CollectorNext, CollectBlob, CollectOrphan, CollectStep, CollectFile,
                      CollectRow, CollectHook, CollectFails
  <1>6. CASE WorkerStep
    BY <1>1, <1>6 DEF WorkerStep, MaybeEvict, EndScan, PopEmptyQueue, DropOrphan, SkipPinned,
                SelectVictim, Promote, SecondChance, Reinsert, DeleteFile, DeleteRow,
                Finish, Restore
  <1>7. CASE WorkerFault
    BY <1>1, <1>7 DEF WorkerFault, CandidateFails, CandidateLost, PassFails, ReinsertFails,
                DeleteFails, RestoreFails, FinishFails
  <1>8. ASSUME NEW popped \in BOOLEAN, Restart(popped) PROVE UNCHANGED files
    BY <1>8 DEF Restart
  <1>9. CASE UNCHANGED vars
    BY <1>1, <1>9 DEF vars
  <1> QED
    BY <1>1, <1>3, <1>4, <1>5, <1>6, <1>7, <1>8, <1>9 DEF Next

\* The ghost set stays a set; its length counter may exceed it, never sinks
\* below zero.
GhostOK == ghost \in Seq(Hashes) /\ Distinct(ghost) /\ ghostLen \in Nat

LEMMA GhostPreserved ==
    ASSUME IInv, [Next]_vars
    PROVE  GhostOK'
  <1>1. GhostOK
    BY DEF IInv, TypeOK, AllDistinct, GhostOK
  <1>2. ASSUME UNCHANGED <<ghost, ghostLen>> PROVE GhostOK'
    BY <1>1, <1>2 DEF GhostOK
  <1>3. ASSUME NEW h, ghost' = Without(ghost, h), ghostLen' = FloorSub(ghostLen, 1)
        PROVE  GhostOK'
    BY <1>1, <1>3, WithoutEntry DEF GhostOK, FloorSub
  <1>4. GhostMax \in Nat
    BY Basics, S3FifoAssumption DEF GhostMax, QueueNames
  <1>5. CASE PutterNext
    <2>1. ASSUME NEW p \in Putters, Admit(p) PROVE GhostOK'
      BY <1>2, <1>3, <2>1 DEF Admit, AdmitToSmall, AdmitGhostHit, counters
    <2>2. CASE ~\E p \in Putters : Admit(p)
      BY <1>2, <1>5, <2>2 DEF PutterNext, BeginPut, StoreBlob, CheckGhost, CheckGhostFails,
                              AdmitFails, counters
    <2> QED
      BY <2>1, <2>2
  <1>6. CASE RowNext
    BY <1>2, <1>6 DEF RowNext, TouchBlob, PinBlob, UnpinBlob, SetRefCount, counters
  <1>7. CASE CollectorNext
    <2>1. ASSUME NEW places \in SUBSET Places, CollectHook(places) PROVE GhostOK'
      BY <1>2, <1>3, <2>1 DEF CollectHook, Remove
    <2>2. CASE ~\E places \in SUBSET Places : CollectHook(places)
      BY <1>2, <1>7, <2>2 DEF CollectorNext, CollectBlob, CollectOrphan, CollectStep,
                              CollectFile, CollectRow, CollectFails, counters
    <2> QED
      BY <2>1, <2>2
  <1>8. CASE Finish \/ FinishFails
    <2> DEFINE h == worker.hash
    <2>1. h \in Hashes
      BY <1>8 DEF Finish, FinishFails, IInv, TypeOK, WorkerState, Idle
    <2>2. PushHead(ghost, h) \in Seq(Hashes) /\ Distinct(PushHead(ghost, h))
      BY <1>1, <2>1, PushHeadEntry DEF GhostOK
    <2>3. /\ \/ ghost' = ghost \/ ghost' = PushHead(ghost, h)
             \/ ghost' = Trim(ghost, GhostMax) \/ ghost' = Trim(PushHead(ghost, h), GhostMax)
          /\ ghostLen' \in {ghostLen, ghostLen + 1, GhostMax}
      BY <1>8 DEF Finish, FinishFails
    <2>4. ghost' \in Seq(Hashes) /\ Distinct(ghost')
      BY <1>1, <1>4, <2>2, <2>3, TrimEntry DEF GhostOK
    <2> QED
      BY <1>1, <1>4, <2>3, <2>4 DEF GhostOK
  <1>9. CASE WorkerStep /\ ~Finish
    BY <1>2, <1>9 DEF WorkerStep, MaybeEvict, EndScan, PopEmptyQueue, DropOrphan, SkipPinned,
                SelectVictim, Promote, SecondChance, Reinsert, DeleteFile, DeleteRow,
                Restore, counters
  <1>10. CASE WorkerFault /\ ~FinishFails
    BY <1>2, <1>10 DEF WorkerFault, CandidateFails, CandidateLost, PassFails, ReinsertFails,
                DeleteFails, RestoreFails, counters
  <1>11. ASSUME NEW popped \in BOOLEAN, Restart(popped) PROVE GhostOK'
    BY <1>1, <1>11 DEF Restart, GhostOK
  <1>12. CASE UNCHANGED vars
    BY <1>2, <1>12 DEF vars, counters
  <1> QED
    BY <1>5, <1>6, <1>7, <1>8, <1>9, <1>10, <1>11, <1>12 DEF Next

\* The goroutine's place, and what it holds there.
WorkerOK == worker \in WorkerState /\ ReinsertsHit

LEMMA WorkerPreserved ==
    ASSUME IInv, [Next]_vars
    PROVE  WorkerOK'
  <1> USE DEF WorkerOK, ReinsertsHit
  <1>1. WorkerOK
    BY DEF IInv, TypeOK
  <1>2. CASE UNCHANGED worker
    BY <1>1, <1>2
  <1>3. CASE worker' = Idle
    BY <1>3 DEF WorkerState, Idle
  <1>4. ASSUME NEW q \in QueueNames, NEW n \in Nat, worker' = Scan(q, n) PROVE WorkerOK'
    BY <1>4 DEF WorkerState, Scan
  <1>5. ASSUME NEW q \in QueueNames, NEW h \in Hashes, worker' = Pending("file", q, h)
        PROVE  WorkerOK'
    BY <1>5 DEF WorkerState, Pending
  <1>6. ASSUME NEW pc \in {"row", "finish", "restore"}, worker.pc \in {"file", "row"},
               worker' = [worker EXCEPT !.pc = pc]
        PROVE  WorkerOK'
    BY <1>1, <1>6 DEF WorkerState, Idle
  <1>7. CASE PutterNext \/ RowNext
    BY <1>2, <1>7 DEF PutterNext, BeginPut, StoreBlob, CheckGhost, CheckGhostFails, Admit,
                      AdmitFails, RowNext, TouchBlob, PinBlob, UnpinBlob, SetRefCount
  <1>8. CASE CollectorNext
    BY <1>2, <1>8 DEF CollectorNext, CollectBlob, CollectOrphan, CollectStep, CollectFile,
                      CollectRow, CollectHook, CollectFails
  <1>9. /\ \A q \in QueueNames : len[q] \in Nat
        /\ {"small", "main"} \subseteq QueueNames
    BY Basics DEF QueueNames
  <1>10. CASE MaybeEvict \/ EndScan
    BY <1>3, <1>4, <1>9, <1>10 DEF MaybeEvict, EndScan
  <1>11. ASSUME NEW h \in Hashes, NEW q \in QueueNames, SkipPinned(q, h) PROVE WorkerOK'
    <2>1. worker.pc = "scan" /\ worker.attempts # 0 /\ worker' = Scan(q, worker.attempts - 1)
      BY <1>11 DEF SkipPinned, Candidate, Selecting, ScanOver
    <2>2. worker.attempts \in Nat
      BY <1>1, <2>1 DEF WorkerState, Idle
    <2> QED
      BY <1>4, <2>1, <2>2
  <1>12. ASSUME NEW h \in Hashes, SecondChance(h) PROVE WorkerOK'
    <2>1. rows[h] \in BlobEntry /\ rows[h].AccessCount > 0
      BY <1>12 DEF SecondChance, HasRow, IInv, TypeOK
    <2>2. worker' = [pc |-> "reinsert", hash |-> h, row |-> rows[h]]
      BY <1>12 DEF SecondChance
    <2> QED
      BY <1>12, <2>1, <2>2 DEF WorkerState
  <1>13. ASSUME NEW h \in Hashes, NEW q \in QueueNames, SelectVictim(q, h) PROVE WorkerOK'
    BY <1>5, <1>13 DEF SelectVictim
  <1>14. CASE DeleteFile \/ DeleteRow \/ DeleteFails
    BY <1>6, <1>14 DEF DeleteFile, DeleteRow, DeleteFails
  <1>15. ASSUME NEW h \in Hashes, NEW q \in QueueNames,
                \/ DropOrphan(q, h) \/ Promote(h) \/ CandidateFails(q, h) \/ CandidateLost(q, h)
         PROVE  WorkerOK'
    BY <1>3, <1>15 DEF DropOrphan, Promote, CandidateFails, CandidateLost, Decided
  <1>16. CASE \/ PopEmptyQueue \/ Reinsert \/ Finish \/ Restore
              \/ PassFails \/ ReinsertFails \/ RestoreFails \/ FinishFails
    BY <1>3, <1>16 DEF PopEmptyQueue, Reinsert, Finish, Restore, PassFails, ReinsertFails,
                       RestoreFails, FinishFails, Decided
  <1>17. ASSUME NEW popped \in BOOLEAN, Restart(popped) PROVE WorkerOK'
    BY <1>3, <1>17 DEF Restart
  <1>18. CASE UNCHANGED vars
    BY <1>2, <1>18 DEF vars
  <1> HIDE DEF WorkerOK
  <1> QED
    BY <1>7, <1>8, <1>9, <1>10, <1>11, <1>12, <1>13, <1>14, <1>15, <1>16, <1>17, <1>18
       DEF Next, WorkerStep, WorkerFault

\* The collector's place, with a size its blob has or zero.
CollectorOK == collector \in CollectorState /\ CollectorSizes

LEMMA CollectorPreserved ==
    ASSUME IInv, [Next]_vars
    PROVE  CollectorOK'
  <1>1. CollectorOK
    BY DEF IInv, TypeOK, CollectorOK
  <1>2. CASE UNCHANGED collector
    BY <1>1, <1>2 DEF CollectorOK, CollectorSizes
  <1>3. CASE collector' = Idle
    BY <1>3 DEF CollectorOK, CollectorSizes, CollectorState, Idle
  <1>4. ASSUME NEW h \in Hashes, CollectBlob(h) PROVE CollectorOK'
    BY <1>4 DEF CollectBlob, CollectorOK, CollectorSizes, CollectorState
  <1>5. CASE CollectFile
    <2>1. collector.hash \in Hashes
      BY <1>1, <1>5 DEF CollectFile, CollectorOK, CollectorState, Idle
    <2>2. Size[collector.hash] \in Nat
      BY <2>1, Basics
    <2>3. collector' = [pc |-> "row", hash |-> collector.hash,
                        size |-> IF HasRow(collector.hash) THEN Size[collector.hash] ELSE 0]
      BY <1>5 DEF CollectFile
    <2> QED
      BY <2>1, <2>2, <2>3 DEF CollectorOK, CollectorSizes, CollectorState
  <1>6. CASE CollectRow
    BY <1>1, <1>6 DEF CollectRow, CollectorOK, CollectorSizes, CollectorState, Idle
  <1>7. CASE CollectorNext
    BY <1>2, <1>3, <1>4, <1>5, <1>6, <1>7
       DEF CollectorNext, CollectOrphan, CollectStep, CollectHook, CollectFails
  <1>8. CASE PutterNext \/ RowNext
    BY <1>2, <1>8 DEF PutterNext, BeginPut, StoreBlob, CheckGhost, CheckGhostFails, Admit,
                      AdmitFails, RowNext, TouchBlob, PinBlob, UnpinBlob, SetRefCount
  <1>9. CASE WorkerStep
    BY <1>2, <1>9 DEF WorkerStep, MaybeEvict, EndScan, PopEmptyQueue, DropOrphan, SkipPinned,
                SelectVictim, Promote, SecondChance, Reinsert, DeleteFile, DeleteRow,
                Finish, Restore
  <1>10. CASE WorkerFault
    BY <1>2, <1>10 DEF WorkerFault, CandidateFails, CandidateLost, PassFails, ReinsertFails,
                DeleteFails, RestoreFails, FinishFails
  <1>11. ASSUME NEW popped \in BOOLEAN, Restart(popped) PROVE CollectorOK'
    BY <1>3, <1>11 DEF Restart
  <1>12. CASE UNCHANGED vars
    BY <1>2, <1>12 DEF vars
  <1> QED
    BY <1>7, <1>8, <1>9, <1>10, <1>11, <1>12 DEF Next

\* The uploads, and the lock the uploads and the worker share: no upload is
\* past its ghost check while the worker has a candidate out of main.
UploadsOK == putters \in [Putters -> PutterState] /\ LocksExclude

LEMMA UploadsPreserved ==
    ASSUME IInv, [Next]_vars
    PROVE  UploadsOK'
  <1>1. UploadsOK
    BY DEF IInv, TypeOK, UploadsOK
  <1> USE DEF SharedLocked, ExclusiveLocked
  <1>2. CASE UNCHANGED <<putters, worker>>
    BY <1>1, <1>2 DEF UploadsOK, LocksExclude
  <1>3. ASSUME UNCHANGED putters, worker'.pc # "reinsert" PROVE UploadsOK'
    BY <1>1, <1>3 DEF UploadsOK, LocksExclude
  <1>4. CASE PutterNext
    <2>1. PICK p \in Putters :
              \/ \E h \in Hashes : BeginPut(p, h)
              \/ StoreBlob(p) \/ CheckGhost(p) \/ CheckGhostFails(p)
              \/ Admit(p) \/ AdmitFails(p)
      BY <1>4 DEF PutterNext
    <2>2. putters \in [Putters -> PutterState] /\ worker' = worker
      BY <2>1, <1>1 DEF UploadsOK, BeginPut, StoreBlob, CheckGhost, CheckGhostFails, Admit, AdmitFails
    <2>3. ASSUME NEW new \in PutterState, putters' = [putters EXCEPT ![p] = new],
                 new.pc # "checked" \/ ~ExclusiveLocked
          PROVE  UploadsOK'
      <3>1. putters' \in [Putters -> PutterState]
        BY <2>2, <2>3
      <3>2. LocksExclude'
        BY <1>1, <2>2, <2>3 DEF UploadsOK, LocksExclude
      <3> QED
        BY <3>1, <3>2 DEF UploadsOK
    <2>4. ASSUME NEW h \in Hashes, BeginPut(p, h) PROVE UploadsOK'
      <3>1. [pc |-> "write", hash |-> h] \in PutterState
        BY DEF PutterState
      <3> QED
        BY <2>3, <2>4, <3>1 DEF BeginPut
    <2>5. CASE StoreBlob(p) \/ CheckGhost(p) \/ CheckGhostFails(p)
      <3> DEFINE h == putters[p].hash
      <3>1. h \in Hashes
        BY <2>2, <2>5 DEF StoreBlob, CheckGhost, CheckGhostFails, PutterState, Idle
      <3>2. CASE StoreBlob(p)
        <4>1. [pc |-> "admit", hash |-> h] \in PutterState
          BY <3>1 DEF PutterState
        <4>2. putters' = [putters EXCEPT ![p] = [pc |-> "admit", hash |-> h]]
          BY <3>2 DEF StoreBlob
        <4> HIDE DEF h
        <4> QED
          BY <2>3, <4>1, <4>2
      <3>3. CASE CheckGhost(p) \/ CheckGhostFails(p)
        <4>1. PICK b \in BOOLEAN :
                 putters' = [putters EXCEPT ![p] = [pc |-> "checked", hash |-> h, inGhost |-> b]]
          <5>1. (h \in Entries(ghost)) \in BOOLEAN
            OBVIOUS
          <5> QED
            BY <3>3, <5>1 DEF CheckGhost, CheckGhostFails
        <4>2. [pc |-> "checked", hash |-> h, inGhost |-> b] \in PutterState
          BY <3>1 DEF PutterState
        <4>3. ~ExclusiveLocked
          BY <3>3 DEF CheckGhost, CheckGhostFails
        <4> HIDE DEF h
        <4> QED
          BY <2>3, <4>1, <4>2, <4>3
      <3> QED
        BY <2>5, <3>2, <3>3
    <2>6. CASE Admit(p) \/ AdmitFails(p)
      <3>1. Idle \in PutterState /\ Idle.pc # "checked"
        BY DEF PutterState, Idle
      <3> QED
        BY <2>3, <2>6, <3>1 DEF Admit, AdmitFails
    <2> QED
      BY <2>1, <2>4, <2>5, <2>6
  <1>5. CASE RowNext
    BY <1>2, <1>5 DEF RowNext, TouchBlob, PinBlob, UnpinBlob, SetRefCount
  <1>6. CASE CollectorNext
    BY <1>2, <1>6 DEF CollectorNext, CollectBlob, CollectOrphan, CollectStep, CollectFile,
                      CollectRow, CollectHook, CollectFails
  <1>7. ASSUME NEW h \in Hashes, SecondChance(h) PROVE UploadsOK'
    <2>1. ~SharedLocked /\ UNCHANGED putters
      BY <1>7 DEF SecondChance, Candidate, Selecting, CanLock
    <2> QED
      BY <1>1, <2>1 DEF UploadsOK, LocksExclude
  <1>8. CASE (WorkerStep \/ WorkerFault) /\ ~\E h \in Hashes : SecondChance(h)
    <2>1. UNCHANGED putters
      BY <1>8 DEF WorkerStep, MaybeEvict, EndScan, PopEmptyQueue, DropOrphan, SkipPinned,
                SelectVictim, Promote, Reinsert, DeleteFile, DeleteRow, Finish, Restore,
                WorkerFault, CandidateFails, CandidateLost, PassFails, ReinsertFails,
                DeleteFails, RestoreFails, FinishFails
    <2>2. worker'.pc # "reinsert"
      BY <1>8, WorkerLeavesMain
    <2> QED
      BY <1>3, <2>1, <2>2
  <1>9. ASSUME NEW popped \in BOOLEAN, Restart(popped) PROVE UploadsOK'
    <2>1. putters' = [p \in Putters |-> Idle] /\ Idle \in PutterState /\ Idle.pc # "checked"
      BY <1>9 DEF Restart, PutterState, Idle
    <2> QED
      BY <2>1 DEF UploadsOK, LocksExclude
  <1>10. CASE UNCHANGED vars
    BY <1>2, <1>10 DEF vars
  <1> QED
    BY <1>4, <1>5, <1>6, <1>7, <1>8, <1>9, <1>10 DEF Next, WorkerStep

\* The wake-up channel holds a signal or none.
LEMMA SignalPreserved ==
    ASSUME IInv, [Next]_vars
    PROVE  evictCh' \in BOOLEAN
  <1>1. evictCh \in BOOLEAN
    BY DEF IInv, TypeOK
  <1>2. ASSUME UNCHANGED evictCh \/ SignalIf(TRUE) PROVE evictCh' \in BOOLEAN
    BY <1>1, <1>2 DEF SignalIf, OverLimit
  <1>3. CASE PutterNext
    BY <1>2, <1>3 DEF PutterNext, BeginPut, StoreBlob, CheckGhost, CheckGhostFails, Admit,
                      AdmitFails, AdmitToSmall, AdmitGhostHit
  <1>4. CASE RowNext \/ CollectorNext
    BY <1>2, <1>4 DEF RowNext, TouchBlob, PinBlob, UnpinBlob, SetRefCount,
                      CollectorNext, CollectBlob, CollectOrphan, CollectStep, CollectFile,
                      CollectRow, CollectHook, CollectFails
  <1>5. CASE MaybeEvict
    BY <1>1, <1>5 DEF MaybeEvict
  <1>6. CASE WorkerStep /\ ~MaybeEvict
    BY <1>2, <1>6 DEF WorkerStep, EndScan, PopEmptyQueue, DropOrphan, SkipPinned,
                SelectVictim, Promote, SecondChance, Reinsert, DeleteFile, DeleteRow,
                Finish, Restore, Decided
  <1>7. CASE WorkerFault
    BY <1>2, <1>7 DEF WorkerFault, CandidateFails, CandidateLost, PassFails, ReinsertFails,
                DeleteFails, RestoreFails, FinishFails, Decided
  <1>8. ASSUME NEW popped \in BOOLEAN, Restart(popped) PROVE evictCh' \in BOOLEAN
    BY <1>8 DEF Restart, OverLimit
  <1>9. CASE UNCHANGED vars
    BY <1>2, <1>9 DEF vars
  <1> QED
    BY <1>3, <1>4, <1>5, <1>6, <1>7, <1>8, <1>9 DEF Next

LEMMA IInvInit == Init => IInv
  <1> SUFFICES ASSUME Init PROVE IInv
    OBVIOUS
  <1> USE DEF Init
  <1>1. TypeOK
    <2>1. worker \in WorkerState /\ putters \in [Putters -> PutterState]
          /\ collector \in CollectorState
      BY DEF WorkerState, PutterState, CollectorState
    <2>2. used \in [{"ops", "faults", "restarts"} -> Nat]
      OBVIOUS
    <2>3. rows \in [Hashes -> BlobEntry \cup {NoRow}] /\ files \subseteq Hashes
      OBVIOUS
    <2>5. /\ bytes \in [QueueNames -> Int] /\ len \in [QueueNames -> Int]
          /\ ghostLen \in Nat
      OBVIOUS
    <2>6. evictCh \in BOOLEAN
      OBVIOUS
    <2>4. queues \in [QueueNames -> Seq(Hashes)] /\ ghost \in Seq(Hashes)
      OBVIOUS
    <2> QED
      BY <2>1, <2>2, <2>3, <2>4, <2>5, <2>6, Zenon DEF TypeOK
  <1>2. AllDistinct /\ LenCoversQueues
    BY DEF AllDistinct, Distinct, LenCoversQueues
  <1>3. LocksExclude /\ CollectorSizes /\ ReinsertsHit
    BY DEF LocksExclude, SharedLocked, ExclusiveLocked, CollectorSizes, ReinsertsHit, Idle
  <1>4. BytesCoverHeld
    <2>1. ASSUME NEW q \in QueueNames PROVE bytes[q] >= TotalSize(Held(q))
      <3>1. Held(q) = {}
        BY DEF Held, Entries, Idle
      <3>2. TotalSize({}) = 0
        BY TotalSizeStep
      <3> QED
        BY <3>1, <3>2
    <2> QED
      BY <2>1 DEF BytesCoverHeld
  <1> QED
    BY <1>1, <1>2, <1>3, <1>4 DEF IInv

LEMMA IInvStep == IInv /\ [Next]_vars => IInv'
  <1> SUFFICES ASSUME IInv, [Next]_vars PROVE IInv'
    OBVIOUS
  <1>1. used' \in [{"ops", "faults", "restarts"} -> Nat]
    <2>1. used \in [{"ops", "faults", "restarts"} -> Nat]
      BY DEF IInv, TypeOK
    <2> QED
      BY <2>1, UsedStep
  <1>2. TypeOK'
    BY <1>1, RowsPreserved, FilesPreserved, QueuesPreserved, GhostPreserved,
       WorkerPreserved, CollectorPreserved, UploadsPreserved, SignalPreserved
       DEF TypeOK, Row, GhostOK, WorkerOK, CollectorOK, UploadsOK
  <1>3. (AllDistinct /\ LocksExclude /\ CollectorSizes /\ ReinsertsHit)'
    BY QueuesPreserved, GhostPreserved, WorkerPreserved, CollectorPreserved, UploadsPreserved
       DEF AllDistinct, GhostOK, WorkerOK, CollectorOK, UploadsOK
  <1> QED
    BY <1>2, <1>3, CountersPreserved DEF IInv

LEMMA IInvHolds == Spec => []IInv
  BY IInvInit, IInvStep, PTL DEF Spec
-----------------------------------------------------------------------------
(* Type invariant of the eviction manager: rows, queues, counters, the     *)
(* lengths that bound a scan, and what each goroutine holds at each step.  *)
THEOREM TypeCorrect == Spec => []TypeOK
  <1>1. IInv => TypeOK
    BY DEF IInv
  <1> QED
    BY <1>1, IInvHolds, PTL

(* Each length counter is at least the length of its queue, through failed *)
(* pushes, removals and restarts: scanEvictionQueue tries as many          *)
(* candidates as the counter says, and never looks at a main queue whose   *)
(* counter is zero.                                                        *)
THEOREM LengthsCover == Spec => []LenCoversQueues
  <1>1. IInv => LenCoversQueues
    BY DEF IInv
  <1> QED
    BY <1>1, IInvHolds, PTL

(* Until the first restart, smallBytes and mainBytes are at least the      *)
(* sizes of the blobs queued, whatever Admit, Remove, promotions, second   *)
(* chances and failed deletes do to either: the cache does not outgrow its *)
(* limit unnoticed.                                                        *)
THEOREM BytesCover == Spec => []BytesCoverQueues
  <1>1. IInv => BytesCoverQueues
    <2> SUFFICES ASSUME IInv, used["restarts"] = 0, NEW q \in QueueNames
                 PROVE  bytes[q] >= RecomputedBytes(queues[q])
      BY DEF BytesCoverQueues
    <2> DEFINE S == {h \in Entries(queues[q]) : HasRow(h)}
    <2>1. S \in SUBSET Held(q) /\ Held(q) \in SUBSET Hashes /\ S \in SUBSET Hashes
      BY Basics DEF Held
    <2>2. TotalSize(S) <= TotalSize(Held(q)) /\ TotalSize(S) \in Nat /\ TotalSize(Held(q)) \in Nat
      BY <2>1, TotalSizeMonotone, TotalSizeType
    <2>3. bytes[q] >= TotalSize(Held(q)) /\ bytes[q] \in Int
      BY Basics DEF IInv, BytesCoverHeld
    <2> HIDE DEF S
    <2>4. bytes[q] >= TotalSize(S)
      BY <2>2, <2>3
    <2> QED
      BY <2>4 DEF RecomputedBytes, S
  <1> QED
    BY <1>1, IInvHolds, PTL
=============================================================================
