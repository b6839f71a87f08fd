---------------------------- MODULE WebPoolProofs ----------------------------
(***************************************************************************)
(* Proofs about the connection pools of WebService, for any replicas,      *)
(* requests, crashes and timeouts, and any pool of two connections or more *)
(* (WebAssumption): types, that a queue never waits for itself, and    *)
(* who can have the tick lock.                                             *)
(*                                                                         *)
(* The bound of a pool is not inductive alone: who has or wants which      *)
(* connection follows from where each job is (Demand), nobody queues for   *)
(* what he has, and nobody queues while a connection is free (Discipline). *)
(* Of the jobs that hold a connection and ask for a second one there is    *)
(* one, since it has the tick lock (Ticking); with a second connection in  *)
(* the pool somebody else has that, and somebody else does not wait.       *)
(***************************************************************************)
EXTENDS WebServiceProofs, FiniteSetTheorems, SequenceTheorems

\* Labels at which a job has, or queues for, a connection for its statement,
\* and for the session of the tick lock.
Working == {"mint", "start", "putback", "callback", "probe", "checkpoint"}
Locking == {"lock", "tick", "checkpoint", "unlock"}

Uses(q) ==
  {c \in {Work(q, job[q].at)} : pc[q] \in Working}
    \cup {c \in {LockConn(q, job[q].at)} : pc[q] \in Locking}

Queue(r) == {waiting[r][i] : i \in 1 .. Len(waiting[r])}
Asked == held \cup UNION {Queue(r) : r \in Replicas}

\* A pool whose queue is served first come first served.
InOrder(r) ==
  /\ \A c \in Queue(r) : c[3] = r /\ c \notin held
  /\ \A i, j \in 1 .. Len(waiting[r]) : waiting[r][i] = waiting[r][j] => i = j
  /\ Cardinality(InUse(r)) <= PoolSize
  /\ waiting[r] # <<>> => Cardinality(InUse(r)) = PoolSize

Discipline ==
  /\ held \subseteq Conns /\ IsFiniteSet(held)
  /\ waiting \in [Replicas -> Seq(Conns)]
  /\ \A r \in Replicas : InOrder(r)

Demand ==
  /\ \A c \in Asked : c[1] \in Slots /\ c \in Uses(c[1])
  /\ \A q \in Slots : Uses(q) \subseteq Asked

\* A tick that has the lock has its connection; no other job has both.
Serving == Working \cup Locking \cup {"consent"}
Ticking ==
  /\ \A q \in Slots : pc[q] \in Serving => job[q].at \in Replicas
  /\ \A q \in Slots : pc[q] \in Locking \ {"lock"} =>
                        lock = q /\ LockConn(q, job[q].at) \in held

PoolInv == Discipline /\ Demand /\ Ticking

-----------------------------------------------------------------------------
(* What the operations of the pool do to its bookkeeping. *)

LEMMA InUseFinite ==
  ASSUME Discipline, NEW r
  PROVE  IsFiniteSet(InUse(r)) /\ Cardinality(InUse(r)) \in Nat
<1>1. InUse(r) \subseteq held
  BY DEF InUse
<1> QED BY <1>1, FS_Subset, FS_CardinalityType DEF Discipline

\* A connection is added to those in use of its replica, or taken from them.
LEMMA InUseAdded ==
  ASSUME Discipline, NEW c \in Conns \ held, held' = held \cup {c}
  PROVE  /\ IsFiniteSet(held')
         /\ \A r \in Replicas : Cardinality(InUse(r)') =
              IF r = c[3] THEN Cardinality(InUse(r)) + 1 ELSE Cardinality(InUse(r))
<1>1. IsFiniteSet(held')
  BY FS_AddElement DEF Discipline
<1>2. ASSUME NEW r \in Replicas, r = c[3]
      PROVE  Cardinality(InUse(r)') = Cardinality(InUse(r)) + 1
  <2>1. InUse(r)' = InUse(r) \cup {c} /\ c \notin InUse(r)
    BY <1>2 DEF InUse
  <2> QED BY <2>1, InUseFinite, FS_AddElement
<1>3. ASSUME NEW r \in Replicas, r # c[3] PROVE InUse(r)' = InUse(r)
  BY <1>3 DEF InUse
<1> QED BY <1>1, <1>2, <1>3

LEMMA InUseTaken ==
  ASSUME Discipline, NEW c \in held, held' = held \ {c}
  PROVE  /\ IsFiniteSet(held')
         /\ \A r \in Replicas : Cardinality(InUse(r)') =
              IF r = c[3] THEN Cardinality(InUse(r)) - 1 ELSE Cardinality(InUse(r))
<1>1. IsFiniteSet(held')
  BY FS_RemoveElement DEF Discipline
<1>2. ASSUME NEW r \in Replicas, r = c[3]
      PROVE  Cardinality(InUse(r)') = Cardinality(InUse(r)) - 1
  <2>1. InUse(r)' = InUse(r) \ {c} /\ c \in InUse(r)
    BY <1>2 DEF InUse
  <2> QED BY <2>1, InUseFinite, FS_RemoveElement
<1>3. ASSUME NEW r \in Replicas, r # c[3] PROVE InUse(r)' = InUse(r)
  BY <1>3 DEF InUse
<1> QED BY <1>1, <1>2, <1>3

\* A connection given to another one's user: as many are in use.
LEMMA InUseHandedOn ==
  ASSUME Discipline, NEW c \in held, NEW d \in Conns \ held, c[3] = d[3],
         held' = (held \ {c}) \cup {d}
  PROVE  /\ IsFiniteSet(held')
         /\ \A r \in Replicas : Cardinality(InUse(r)') = Cardinality(InUse(r))
<1>1. IsFiniteSet(held')
  BY FS_RemoveElement, FS_AddElement DEF Discipline
<1>2. ASSUME NEW r \in Replicas, r = c[3]
      PROVE  Cardinality(InUse(r)') = Cardinality(InUse(r))
  <2>1. InUse(r)' = (InUse(r) \ {c}) \cup {d} /\ c \in InUse(r) /\ d \notin InUse(r) \ {c}
    BY <1>2 DEF InUse
  <2>2. /\ IsFiniteSet(InUse(r) \ {c})
        /\ Cardinality(InUse(r) \ {c}) = Cardinality(InUse(r)) - 1
    BY <2>1, InUseFinite, FS_RemoveElement
  <2>3. Cardinality(InUse(r)') = Cardinality(InUse(r) \ {c}) + 1
    BY <2>1, <2>2, FS_AddElement
  <2> QED BY <2>2, <2>3, InUseFinite
<1>3. ASSUME NEW r \in Replicas, r # c[3] PROVE InUse(r)' = InUse(r)
  BY <1>3 DEF InUse
<1> QED BY <1>1, <1>2, <1>3

LEMMA AskedOne ==
  ASSUME Discipline, NEW c \in Conns \ Asked, c[3] \in Replicas, Asks(c)
  PROVE  /\ Discipline' /\ Asked' = Asked \cup {c}
         /\ held \subseteq held'
<1> DEFINE r == c[3]
<1>1. c \notin held /\ c \notin Queue(r)
  BY DEF Asked
<1>2. CASE Cardinality(InUse(r)) < PoolSize
  <2>1. held' = held \cup {c} /\ waiting' = waiting
    BY <1>2 DEF Asks
  <2>2. /\ IsFiniteSet(held')
        /\ \A s \in Replicas : Cardinality(InUse(s)') =
             IF s = r THEN Cardinality(InUse(s)) + 1 ELSE Cardinality(InUse(s))
    BY <1>1, <2>1, InUseAdded
  <2>3. \A s \in Replicas : Queue(s)' = Queue(s) /\ c \notin Queue(s)
    BY <2>1 DEF Queue, Asked
  <2>4. Cardinality(InUse(r)) \in Nat /\ PoolSize \in Nat /\ waiting[r] = <<>>
    BY <1>2, InUseFinite, WebAssumption DEF Discipline, InOrder
  <2>5. ASSUME NEW s \in Replicas PROVE InOrder(s)'
    <3>1. InOrder(s)
      BY DEF Discipline
    <3>2. \A d \in Queue(s)' : d[3] = s /\ d \notin held'
      BY <2>1, <2>3, <3>1 DEF InOrder
    <3>3. /\ Cardinality(InUse(s)') <= PoolSize
          /\ waiting'[s] # <<>> => Cardinality(InUse(s)') = PoolSize
      BY <2>1, <2>2, <2>4, <1>2, <3>1 DEF InOrder
    <3> QED BY <2>1, <3>1, <3>2, <3>3 DEF InOrder
  <2>9. Discipline'
    BY <2>1, <2>2, <2>5 DEF Discipline
  <2>6. Asked' = Asked \cup {c}
    BY <2>1, <2>3 DEF Asked
  <2> QED BY <2>1, <2>6, <2>9
<1>3. CASE ~(Cardinality(InUse(r)) < PoolSize)
  <2>1. held' = held /\ waiting' = [waiting EXCEPT ![r] = Append(waiting[r], c)]
    BY <1>3 DEF Asks
  <2>2. Cardinality(InUse(r)) = PoolSize
    BY <1>3, InUseFinite, WebAssumption DEF Discipline, InOrder
  <2>3. waiting[r] \in Seq(Conns)
    BY DEF Discipline
  <2>4. /\ waiting'[r] \in Seq(Conns) /\ Len(waiting'[r]) = Len(waiting[r]) + 1
        /\ Len(waiting[r]) \in Nat
        /\ \A i \in 1 .. Len(waiting[r]) : waiting'[r][i] = waiting[r][i]
        /\ waiting'[r][Len(waiting[r]) + 1] = c
    BY <2>1, <2>3, AppendProperties, LenProperties DEF Discipline
  <2>5. Queue(r)' = Queue(r) \cup {c}
    <3>1. \A i \in 1 .. Len(waiting'[r]) : i \in 1 .. Len(waiting[r]) \/ i = Len(waiting[r]) + 1
      BY <2>4
    <3>2. 1 .. Len(waiting[r]) \subseteq 1 .. Len(waiting'[r])
          /\ Len(waiting[r]) + 1 \in 1 .. Len(waiting'[r])
      BY <2>4
    <3> QED BY <2>4, <3>1, <3>2 DEF Queue
  <2>6. \A s \in Replicas \ {r} : waiting'[s] = waiting[s] /\ Queue(s)' = Queue(s)
    BY <2>1 DEF Discipline, Queue
  <2>7. \A s \in Replicas : InUse(s)' = InUse(s)
    BY <2>1 DEF InUse
  <2>8. ASSUME NEW i \in 1 .. Len(waiting'[r]), NEW j \in 1 .. Len(waiting'[r]),
               waiting'[r][i] = waiting'[r][j]
        PROVE  i = j
    <3>1. \A k \in 1 .. Len(waiting[r]) : waiting'[r][k] # c
      BY <1>1, <2>4 DEF Queue
    <3>2. \A k \in 1 .. Len(waiting'[r]) : k \in 1 .. Len(waiting[r]) \/ k = Len(waiting[r]) + 1
      BY <2>4
    <3>3. ASSUME i \in 1 .. Len(waiting[r]), j \in 1 .. Len(waiting[r]) PROVE i = j
      <4>1. waiting[r][i] = waiting[r][j]
        BY <2>4, <2>8, <3>3
      <4> QED BY <3>3, <4>1 DEF Discipline, InOrder
    <3> QED BY <2>4, <2>8, <3>1, <3>2, <3>3
  <2>9. waiting' \in [Replicas -> Seq(Conns)]
    BY <2>1, <2>4 DEF Discipline
  <2>10. Discipline'
    <3>1. InOrder(r)'
      <4>1. \A d \in Queue(r)' : d[3] = r /\ d \notin held'
        BY <1>1, <2>1, <2>5 DEF Discipline, InOrder
      <4>2. Cardinality(InUse(r)') = PoolSize /\ PoolSize <= PoolSize
        BY <2>2, <2>7, WebAssumption
      <4> QED BY <2>8, <4>1, <4>2 DEF InOrder
    <3>2. ASSUME NEW s \in Replicas \ {r} PROVE InOrder(s)'
      BY <2>1, <2>6, <2>7 DEF Discipline, InOrder
    <3> QED BY <2>1, <2>9, <3>1, <3>2 DEF Discipline
  <2>11. Asked' = Asked \cup {c}
    BY <2>1, <2>5, <2>6 DEF Asked
  <2> QED BY <2>1, <2>10, <2>11
<1> QED BY <1>2, <1>3

LEMMA GivenBack ==
  ASSUME Discipline, NEW c \in held, GivesBack(c)
  PROVE  /\ Discipline' /\ Asked' = Asked \ {c}
         /\ held \ {c} \subseteq held'
<1> DEFINE r == c[3]
<1>1. r \in Replicas /\ c \in Conns /\ c \in InUse(r) /\ InOrder(r) /\ waiting[r] \in Seq(Conns)
  BY DEF Discipline, Conns, InUse
<1>2. \A s \in Replicas : c \notin Queue(s)
  BY DEF Discipline, InOrder
<1>3. CASE waiting[r] = <<>>
  <2>1. held' = held \ {c} /\ waiting' = waiting
    BY <1>3 DEF GivesBack
  <2>2. /\ IsFiniteSet(held')
        /\ \A s \in Replicas : Cardinality(InUse(s)') =
             IF s = r THEN Cardinality(InUse(s)) - 1 ELSE Cardinality(InUse(s))
    BY <2>1, InUseTaken
  <2>3. \A s \in Replicas : Queue(s)' = Queue(s)
    BY <2>1 DEF Queue
  <2>4. ASSUME NEW s \in Replicas PROVE InOrder(s)'
    <3>1. InOrder(s) /\ Cardinality(InUse(s)) \in Nat /\ PoolSize \in Nat
      BY InUseFinite, WebAssumption DEF Discipline
    <3>2. /\ Cardinality(InUse(s)') <= PoolSize
          /\ waiting'[s] # <<>> => Cardinality(InUse(s)') = PoolSize
      BY <1>3, <2>1, <2>2, <3>1 DEF InOrder
    <3>3. \A d \in Queue(s)' : d[3] = s /\ d \notin held'
      BY <2>1, <2>3, <3>1 DEF InOrder
    <3> QED BY <2>1, <3>1, <3>2, <3>3 DEF InOrder
  <2>5. Discipline'
    BY <2>1, <2>2, <2>4 DEF Discipline
  <2>6. Asked' = Asked \ {c}
    BY <1>2, <2>1, <2>3 DEF Asked
  <2> QED BY <2>1, <2>5, <2>6
<1>4. CASE waiting[r] # <<>>
  <2> DEFINE d == Head(waiting[r])
             n == Len(waiting[r])
  <2>1. /\ held' = (held \ {c}) \cup {d}
        /\ waiting' = [waiting EXCEPT ![r] = Tail(waiting[r])]
    BY <1>4 DEF GivesBack
  <2>2. /\ n \in Nat /\ d = waiting[r][1] /\ 1 \in 1 .. n
        /\ waiting'[r] \in Seq(Conns) /\ Len(waiting'[r]) = n - 1
        /\ \A i \in 1 .. Len(waiting'[r]) : waiting'[r][i] = waiting[r][i + 1]
    BY <1>1, <1>4, <2>1, HeadTailProperties, LenProperties, EmptySeq DEF Discipline
  <2> HIDE DEF d, n
  <2>3. d \in Queue(r) /\ d \in Conns /\ d[3] = r /\ d \notin held
    <3>1. d \in Queue(r)
      BY <2>2 DEF Queue, n
    <3> QED BY <1>1, <2>2, <3>1 DEF InOrder, n
  <2>4. Queue(r)' = Queue(r) \ {d}
    <3>1. ASSUME NEW i \in 1 .. Len(waiting'[r])
          PROVE  waiting'[r][i] \in Queue(r) /\ waiting'[r][i] # d
      <4>1. i + 1 \in 1 .. n /\ i + 1 # 1 /\ waiting'[r][i] = waiting[r][i + 1]
        BY <2>2
      <4> QED BY <1>1, <2>2, <4>1 DEF InOrder, Queue, n
    <3>2. ASSUME NEW i \in 1 .. n, waiting[r][i] # d
          PROVE  \E j \in 1 .. Len(waiting'[r]) : waiting'[r][j] = waiting[r][i]
      <4>1. i # 1 /\ i - 1 \in 1 .. Len(waiting'[r]) /\ (i - 1) + 1 = i
        BY <2>2, <3>2
      <4> QED BY <2>2, <4>1
    <3>3. /\ Queue(r) = {waiting[r][k] : k \in 1 .. n}
          /\ Queue(r)' = {waiting'[r][k] : k \in 1 .. Len(waiting'[r])}
      BY DEF Queue, n
    <3>4. ASSUME NEW e \in Queue(r), e # d PROVE e \in Queue(r)'
      BY <3>2, <3>3, <3>4
    <3> QED BY <3>1, <3>3, <3>4
  <2>5. \A s \in Replicas \ {r} : waiting'[s] = waiting[s] /\ Queue(s)' = Queue(s)
    BY <2>1 DEF Discipline, Queue
  <2>6. /\ IsFiniteSet(held')
        /\ \A s \in Replicas : Cardinality(InUse(s)') = Cardinality(InUse(s))
    BY <1>1, <2>1, <2>3, InUseHandedOn
  <2>7. InOrder(r)'
    <3>1. ASSUME NEW i \in 1 .. Len(waiting'[r]), NEW j \in 1 .. Len(waiting'[r]),
                 waiting'[r][i] = waiting'[r][j]
          PROVE  i = j
      <4>1. i + 1 \in 1 .. n /\ j + 1 \in 1 .. n /\ i \in Int /\ j \in Int
        BY <2>2
      <4>3. waiting[r][i + 1] = waiting[r][j + 1]
        BY <2>2, <3>1
      <4>2. i + 1 = j + 1
        BY <1>1, <4>1, <4>3 DEF InOrder, n
      <4> QED BY <4>1, <4>2
    <3>2. \A e \in Queue(r)' : e[3] = r /\ e \notin held'
      BY <1>1, <2>1, <2>4 DEF InOrder
    <3>3. Cardinality(InUse(r)') = PoolSize /\ PoolSize <= PoolSize
      BY <1>1, <1>4, <2>6, WebAssumption DEF InOrder
    <3> QED BY <3>1, <3>2, <3>3 DEF InOrder
  <2>8. ASSUME NEW s \in Replicas \ {r} PROVE InOrder(s)'
    <3>1. InOrder(s)
      BY DEF Discipline
    <3>2. \A e \in Queue(s)' : e[3] = s /\ e \notin held'
      BY <2>1, <2>3, <2>5, <3>1 DEF InOrder
    <3> QED BY <2>5, <2>6, <3>1, <3>2 DEF InOrder
  <2>9. Discipline'
    <3>1. held' \subseteq Conns /\ waiting' \in [Replicas -> Seq(Conns)]
      BY <2>1, <2>2, <2>3 DEF Discipline
    <3> QED BY <2>6, <2>7, <2>8, <3>1 DEF Discipline
  <2>10. Asked' = Asked \ {c}
    <3>1. \A s \in Replicas \ {r} : d \notin Queue(s)
      BY <2>3 DEF Discipline, InOrder
    <3>2. \A e : e \in Asked' <=> e \in (held \ {c}) \cup UNION {Queue(s) : s \in Replicas}
      BY <1>1, <2>1, <2>3, <2>4, <2>5, <3>1 DEF Asked
    <3> QED BY <1>2, <3>2 DEF Asked
  <2> QED BY <2>1, <2>9, <2>10
<1> QED BY <1>3, <1>4

\* A sequence without its i-th element.
Cut(s, i) == SubSeq(s, 1, i - 1) \o SubSeq(s, i + 1, Len(s))

LEMMA Without ==
  ASSUME NEW S, NEW s \in Seq(S), NEW i \in 1 .. Len(s), NEW t, t = Cut(s, i)
  PROVE  /\ t \in Seq(S) /\ Len(t) = Len(s) - 1
         /\ \A k \in 1 .. Len(s) - 1 : t[k] = IF k < i THEN s[k] ELSE s[k + 1]
<1> DEFINE n == Len(s)
           Before == SubSeq(s, 1, i - 1)
           After == SubSeq(s, i + 1, n)
<1>1. n \in Nat /\ i \in Nat /\ 1 <= i /\ i <= n
  BY LenProperties
<1>2. \A k \in 1 .. n : s[k] \in S
  BY ElementOfSeq
<1>3. /\ Before \in Seq(S) /\ Len(Before) = i - 1
      /\ \A k \in 1 .. i - 1 : Before[k] = s[k]
  <2>1. /\ Before \in Seq(S) /\ Len(Before) = IF 1 <= i - 1 THEN (i - 1) - 1 + 1 ELSE 0
        /\ \A k \in 1 .. (i - 1) - 1 + 1 : Before[k] = s[1 + k - 1]
    BY <1>1, <1>2, SubSeqProperties
  <2> HIDE DEF Before
  <2> QED BY <1>1, <2>1
<1>4. /\ After \in Seq(S) /\ Len(After) = n - i
      /\ \A k \in 1 .. n - i : After[k] = s[k + i]
  <2>1. /\ After \in Seq(S) /\ Len(After) = IF i + 1 <= n THEN n - (i + 1) + 1 ELSE 0
        /\ \A k \in 1 .. n - (i + 1) + 1 : After[k] = s[(i + 1) + k - 1]
    BY <1>1, <1>2, SubSeqProperties
  <2> HIDE DEF After, n
  <2> QED BY <1>1, <2>1
<1>5. t = Before \o After
  BY DEF Cut
<1> HIDE DEF Before, After, n
<1>6. /\ t \in Seq(S) /\ Len(t) = (i - 1) + (n - i)
      /\ \A k \in 1 .. (i - 1) + (n - i) :
           t[k] = IF k <= i - 1 THEN Before[k] ELSE After[k - (i - 1)]
  <2>1. /\ t \in Seq(S) /\ Len(t) = Len(Before) + Len(After)
        /\ \A k \in 1 .. Len(Before) + Len(After) :
             t[k] = IF k <= Len(Before) THEN Before[k] ELSE After[k - Len(Before)]
    <3>1. Before \in Seq(S) /\ After \in Seq(S)
      BY <1>3, <1>4
    <3> QED BY <1>5, <3>1, ConcatProperties
  <2> QED BY <1>3, <1>4, <2>1
<1>7. ASSUME NEW k \in 1 .. n - 1 PROVE t[k] = IF k < i THEN s[k] ELSE s[k + 1]
  <2>1. k \in 1 .. (i - 1) + (n - i)
    BY <1>1
  <2>2. CASE k < i
    <3>1. k <= i - 1 /\ k \in 1 .. i - 1
      BY <1>1, <2>2
    <3> QED BY <1>3, <1>6, <2>1, <2>2, <3>1
  <2>3. CASE ~(k < i)
    <3>1. k - (i - 1) \in 1 .. n - i /\ (k - (i - 1)) + i = k + 1 /\ ~(k <= i - 1)
      BY <1>1, <2>3
    <3> QED BY <1>4, <1>6, <2>1, <2>3, <3>1
  <2> QED BY <2>2, <2>3
<1>8. (i - 1) + (n - i) = n - 1
  BY <1>1
<1> QED BY <1>6, <1>7, <1>8 DEF n

\* The i-th of a queue leaves it.
LEMMA LeftQueue ==
  ASSUME Discipline, NEW r \in Replicas, NEW i \in 1 .. Len(waiting[r]), held' = held,
         waiting' = [waiting EXCEPT ![r] = SubSeq(@, 1, i - 1) \o SubSeq(@, i + 1, Len(@))]
  PROVE  Discipline' /\ Asked' = Asked \ {waiting[r][i]}
<1> DEFINE n == Len(waiting[r])
           old(k) == IF k < i THEN k ELSE k + 1
<1>1. /\ InOrder(r) /\ waiting[r] \in Seq(Conns) /\ n \in Nat
      /\ i \in Nat /\ 1 <= i /\ i <= n
  BY LenProperties DEF Discipline
<1>2. waiting'[r] = Cut(waiting[r], i)
  BY DEF Discipline, Cut
<1>3. /\ waiting'[r] \in Seq(Conns) /\ Len(waiting'[r]) = n - 1
      /\ \A k \in 1 .. n - 1 :
           waiting'[r][k] = IF k < i THEN waiting[r][k] ELSE waiting[r][k + 1]
  <2>1. waiting[r] \in Seq(Conns) /\ i \in 1 .. Len(waiting[r])
    BY <1>1
  <2> DEFINE t == Cut(waiting[r], i)
  <2>2. /\ t \in Seq(Conns) /\ Len(t) = Len(waiting[r]) - 1
        /\ \A k \in 1 .. Len(waiting[r]) - 1 :
             t[k] = IF k < i THEN waiting[r][k] ELSE waiting[r][k + 1]
    <3> HIDE DEF n, old
    <3>1. \A s \in Seq(Conns) : \A j \in 1 .. Len(s) :
            /\ Cut(s, j) \in Seq(Conns) /\ Len(Cut(s, j)) = Len(s) - 1
            /\ \A k \in 1 .. Len(s) - 1 : Cut(s, j)[k] = IF k < j THEN s[k] ELSE s[k + 1]
      BY Without
    <3> QED BY <2>1, <3>1
  <2> HIDE DEF t
  <2> QED BY <1>2, <2>2 DEF t
<1>4. \A j, k \in 1 .. n : waiting[r][j] = waiting[r][k] => j = k
  BY <1>1 DEF InOrder
<1> HIDE DEF n
<1>5. \A k \in 1 .. n - 1 : old(k) \in 1 .. n /\ old(k) # i
  BY <1>1
<1>6. \A k \in 1 .. n - 1 : waiting'[r][k] = waiting[r][old(k)]
  BY <1>3
<1>7. \A k \in 1 .. n : k # i => \E j \in 1 .. n - 1 : old(j) = k
  <2> SUFFICES ASSUME NEW k \in 1 .. n, k # i PROVE \E j \in 1 .. n - 1 : old(j) = k
    OBVIOUS
  <2>1. CASE k < i
    <3>1. k \in 1 .. n - 1 /\ old(k) = k
      BY <1>1, <2>1
    <3> QED BY <3>1
  <2>2. CASE k > i
    <3>1. k - 1 \in 1 .. n - 1 /\ old(k - 1) = k
      BY <1>1, <2>2
    <3> QED BY <3>1
  <2> QED BY <1>1, <2>1, <2>2
<1>8. \A j, k \in 1 .. n - 1 : old(j) = old(k) => j = k
  BY <1>1
<1> HIDE DEF old
<1>9. Queue(r)' = Queue(r) \ {waiting[r][i]}
  <2>1. Queue(r) = {waiting[r][k] : k \in 1 .. n}
    BY DEF Queue, n
  <2>2. Queue(r)' = {waiting[r][old(k)] : k \in 1 .. n - 1}
    BY <1>3, <1>6 DEF Queue
  <2>3. i \in 1 .. n
    BY <1>1
  <2>4. ASSUME NEW e \in Queue(r)' PROVE e \in Queue(r) /\ e # waiting[r][i]
    BY <1>4, <1>5, <2>1, <2>2, <2>3
  <2>5. ASSUME NEW e \in Queue(r), e # waiting[r][i] PROVE e \in Queue(r)'
    BY <1>7, <2>1, <2>2, <2>5
  <2> QED BY <2>4, <2>5
<1>10. \A s \in Replicas \ {r} : waiting'[s] = waiting[s] /\ Queue(s)' = Queue(s)
  BY DEF Discipline, Queue
<1>11. \A s \in Replicas : InUse(s)' = InUse(s)
  BY DEF InUse
<1>12. InOrder(r)'
  <2>1. ASSUME NEW j \in 1 .. n - 1, NEW k \in 1 .. n - 1, waiting'[r][j] = waiting'[r][k]
        PROVE  j = k
    BY <1>4, <1>5, <1>6, <1>8, <2>1
  <2>2. \A c \in Queue(r)' : c[3] = r /\ c \notin held'
    BY <1>1, <1>9 DEF InOrder
  <2>3. waiting[r] # <<>>
    BY <1>1, EmptySeq DEF n
  <2>4. Cardinality(InUse(r)') = PoolSize /\ PoolSize <= PoolSize
    BY <1>1, <1>11, <2>3, WebAssumption DEF InOrder
  <2> QED BY <1>3, <2>1, <2>2, <2>4 DEF InOrder
<1>13. ASSUME NEW s \in Replicas \ {r} PROVE InOrder(s)'
  BY <1>10, <1>11 DEF Discipline, InOrder
<1>14. waiting' \in [Replicas -> Seq(Conns)]
  BY <1>3 DEF Discipline
<1>15. Discipline'
  BY <1>12, <1>13, <1>14 DEF Discipline
<1>16. Asked' = Asked \ {waiting[r][i]}
  <2>1. waiting[r][i] \in Queue(r)
    BY DEF Queue
  <2>2. waiting[r][i] \notin held /\ \A s \in Replicas \ {r} : waiting[r][i] \notin Queue(s)
    BY <2>1 DEF Discipline, InOrder
  <2>3. \A e : e \in Asked' <=> e \in Asked /\ e # waiting[r][i]
    BY <1>9, <1>10, <2>2 DEF Asked
  <2> QED BY <2>3
<1> QED BY <1>15, <1>16

\* A machine's connections and its queue are gone.
LEMMA Cleared ==
  ASSUME Discipline, NEW a \in Machines, held' = held \ InUse(a),
         waiting' = [r \in Replicas |-> IF r = a THEN <<>> ELSE waiting[r]]
  PROVE  Discipline' /\ Asked' = {c \in Asked : c[3] # a}
<1>1. IsFiniteSet(held') /\ held' \subseteq held
  BY FS_Subset DEF Discipline
<1>2. waiting' \in [Replicas -> Seq(Conns)]
  BY EmptySeq DEF Discipline
<1>3. ASSUME NEW r \in Replicas, r # a
      PROVE  waiting'[r] = waiting[r] /\ Queue(r)' = Queue(r) /\ InUse(r)' = InUse(r)
  BY <1>3 DEF Queue, InUse
<1>4. ASSUME NEW r \in Replicas, r = a
      PROVE  waiting'[r] = <<>> /\ Queue(r)' = {} /\ InUse(r)' = {}
  <2>1. waiting'[r] = <<>>
    BY <1>4
  <2>2. Len(waiting'[r]) = 0
    BY <2>1, EmptySeq
  <2> QED BY <1>4, <2>1, <2>2 DEF Queue, InUse
<1>5. ASSUME NEW r \in Replicas PROVE InOrder(r)'
  <2>1. CASE r = a
    <3>1. waiting'[r] = <<>> /\ Queue(r)' = {} /\ Cardinality(InUse(r)') = 0
      BY <1>4, <2>1, FS_EmptySet
    <3>2. Len(waiting'[r]) = 0 /\ 0 <= PoolSize
      BY <3>1, EmptySeq, WebAssumption
    <3> QED BY <3>1, <3>2 DEF InOrder
  <2>2. CASE r # a
    BY <1>1, <1>3, <2>2 DEF Discipline, InOrder
  <2> QED BY <2>1, <2>2
<1>6. Discipline'
  BY <1>1, <1>2, <1>5 DEF Discipline
<1>7. \A c : c \in Asked' <=> c \in Asked /\ c[3] # a
  <2>1. \A r \in Replicas : \A c \in Queue(r) : c[3] = r
    BY DEF Discipline, InOrder
  <2>2. \A c : c \in held' <=> c \in held /\ c[3] # a
    BY DEF InUse
  <2> QED BY <1>3, <1>4, <2>1, <2>2 DEF Asked
<1> QED BY <1>6, <1>7
-----------------------------------------------------------------------------
(* One slot's step. *)

LEMMA OneSlot ==
  ASSUME Typed, NEW q \in Slots, NEW label, NEW j, Become(q, label, j)
  PROVE  /\ pc'[q] = label /\ job'[q] = j
         /\ Uses(q)' = {c \in {Work(q, j.at)} : label \in Working}
                         \cup {c \in {LockConn(q, j.at)} : label \in Locking}
         /\ \A p \in Slots \ {q} : pc'[p] = pc[p] /\ job'[p] = job[p] /\ Uses(p)' = Uses(p)
<1>1. /\ pc'[q] = label /\ job'[q] = j
      /\ \A p \in Slots \ {q} : pc'[p] = pc[p] /\ job'[p] = job[p]
  BY DEF Typed, Become
<1> QED BY <1>1 DEF Uses, Work, LockConn

LEMMA TickingStep ==
  ASSUME Typed, Ticking, NEW q \in Slots, NEW label, NEW j, Become(q, label, j),
         label \in Serving => j.at \in Replicas,
         label \in Locking \ {"lock"} => lock' = q /\ LockConn(q, j.at) \in held',
         lock' = lock \/ lock \in {q, NoSlot},
         \A c \in held : c[1] # q => c \in held'
  PROVE  Ticking'
<1>1. ASSUME NEW p \in Slots, pc'[p] \in Serving PROVE job'[p].at \in Replicas
  BY <1>1, OneSlot DEF Ticking
<1>2. ASSUME NEW p \in Slots, pc'[p] \in Locking \ {"lock"}
      PROVE  lock' = p /\ LockConn(p, job'[p].at) \in held'
  <2>1. CASE p = q
    BY <1>2, <2>1, OneSlot
  <2>2. CASE p # q
    <3>1. pc'[p] = pc[p] /\ job'[p] = job[p]
      BY <2>2, OneSlot
    <3>2. lock = p /\ LockConn(p, job[p].at) \in held
      BY <1>2, <3>1 DEF Ticking
    <3>3. LockConn(p, job[p].at)[1] = p
      BY DEF LockConn
    <3> QED BY <2>2, <3>1, <3>2, <3>3, WebAssumption
  <2> QED BY <2>1, <2>2
<1>3. Serving' = Serving /\ Locking' = Locking
  BY DEF Serving, Working, Locking
<1> QED BY <1>1, <1>2 DEF Ticking, LockConn

LEMMA UsesOwn ==
  \A q \in Slots : \A c \in Uses(q) : c[1] = q /\ c[3] = job[q].at
BY DEF Uses, Work, LockConn

LEMMA DemandStep ==
  ASSUME Typed, Demand, NEW q \in Slots, NEW label, NEW j, Become(q, label, j),
         \A c : c[1] # q => (c \in Asked' <=> c \in Asked),
         \A c : c[1] = q => (c \in Asked' <=> c \in Uses(q)')
  PROVE  Demand'
<1>1. \A p \in Slots \ {q} : Uses(p)' = Uses(p)
  BY OneSlot
<1>2. \A c \in Uses(q)' : c[1] = q
  BY DEF Uses, Work, LockConn
<1>3. ASSUME NEW c \in Asked' PROVE c[1] \in Slots /\ c \in Uses(c[1])'
  <2>1. CASE c[1] = q
    BY <1>3, <2>1
  <2>2. CASE c[1] # q
    <3>1. c[1] \in Slots \ {q} /\ c \in Uses(c[1])
      BY <1>3, <2>2 DEF Demand
    <3> QED BY <1>1, <3>1
  <2> QED BY <2>1, <2>2
<1>4. ASSUME NEW p \in Slots PROVE Uses(p)' \subseteq Asked'
  <2>1. CASE p = q
    BY <1>2, <2>1
  <2>2. CASE p # q
    BY <1>1, <2>2, UsesOwn DEF Demand
  <2> QED BY <2>1, <2>2
<1> QED BY <1>3, <1>4 DEF Demand

\* Who has or wants a connection is known from where he is.
LEMMA AskedIsUsed ==
  ASSUME Demand, NEW q \in Slots, NEW c, c[1] = q
  PROVE  c \in Asked <=> c \in Uses(q)
BY DEF Demand

\* A step of q that leaves the pools alone.
LEMMA PoolRests ==
  ASSUME Typed, PoolInv, NEW q \in Slots, NEW label, NEW j, Become(q, label, j),
         held' = held, waiting' = waiting, lock' = lock \/ lock \in {q, NoSlot},
         Uses(q)' = Uses(q),
         label \in Serving => j.at \in Replicas,
         label \in Locking \ {"lock"} => lock' = q /\ LockConn(q, j.at) \in held'
  PROVE  PoolInv'
<1>1. Discipline'
  BY DEF PoolInv, Discipline, InOrder, Queue, InUse
<1>2. Asked' = Asked
  BY DEF Asked, Queue
<1>3. Ticking'
  BY TickingStep DEF PoolInv
<1>4. Demand'
  BY <1>2, AskedIsUsed, DemandStep DEF PoolInv
<1> QED BY <1>1, <1>3, <1>4 DEF PoolInv

\* A step of q that asks for the connection c.
LEMMA PoolAsked ==
  ASSUME Typed, PoolInv, NEW q \in Slots, NEW label, NEW j, Become(q, label, j), lock' = lock,
         NEW c \in Conns, c[1] = q, c \notin Uses(q), Asks(c), Uses(q)' = Uses(q) \cup {c},
         label \in Serving => j.at \in Replicas,
         label \in Locking \ {"lock"} => lock = q /\ LockConn(q, j.at) \in held
  PROVE  PoolInv'
<1>1. c \notin Asked /\ c[3] \in Replicas
  BY AskedIsUsed DEF PoolInv, Conns
<1>2. Discipline' /\ Asked' = Asked \cup {c} /\ held \subseteq held'
  BY <1>1, AskedOne DEF PoolInv
<1>3. Ticking'
  BY <1>2, TickingStep DEF PoolInv
<1>4. \A d : d[1] = q => (d \in Asked' <=> d \in Uses(q)')
  BY <1>2, AskedIsUsed DEF PoolInv
<1>5. Demand'
  BY <1>2, <1>4, DemandStep DEF PoolInv
<1> QED BY <1>2, <1>3, <1>5 DEF PoolInv

\* A step of q that gives the connection c back.
LEMMA PoolGivenBack ==
  ASSUME Typed, PoolInv, NEW q \in Slots, NEW label, NEW j, Become(q, label, j),
         lock' = lock \/ lock \in {q, NoSlot},
         NEW c \in held, c[1] = q, GivesBack(c), Uses(q)' = Uses(q) \ {c},
         label \in Serving => j.at \in Replicas,
         label \in Locking \ {"lock"} =>
           lock' = q /\ LockConn(q, j.at) \in held \ {c}
  PROVE  PoolInv'
<1>1. Discipline' /\ Asked' = Asked \ {c} /\ held \ {c} \subseteq held'
  BY GivenBack DEF PoolInv
<1>2. Ticking'
  BY <1>1, TickingStep DEF PoolInv
<1>3. \A d : d[1] = q => (d \in Asked' <=> d \in Uses(q)')
  BY <1>1, AskedIsUsed DEF PoolInv
<1>4. Demand'
  BY <1>1, <1>3, DemandStep DEF PoolInv
<1> QED BY <1>1, <1>2, <1>4 DEF PoolInv

-----------------------------------------------------------------------------
(* The steps, by what they want of a pool. *)

LEMMA PoolAside ==
  ASSUME Typed, PoolInv, NEW q \in Slots, NEW label, NEW j, Become(q, label, j),
         UNCHANGED poolVars, pc[q] \notin Serving, label \notin Serving
  PROVE  PoolInv'
<1>1. Uses(q) = {} /\ Uses(q)' = {}
  BY OneSlot DEF Uses, Serving
<1>2. label \notin Locking
  BY DEF Serving
<1> QED BY <1>1, <1>2, PoolRests DEF poolVars

\* A job for which q has no connection yet.
LEMMA PoolRequest ==
  ASSUME Typed, PoolInv, NEW q \in Slots, pc[q] \notin Working \cup Locking, lock' = lock,
         NEW label \in Working \ {"checkpoint"}, NEW j, j.at \in Replicas,
         Become(q, label, j), Asks(Work(q, j.at))
  PROVE  PoolInv'
<1>1. label \notin Locking
  BY DEF Working, Locking
<1>2. Uses(q) = {} /\ Uses(q)' = {Work(q, j.at)}
  BY <1>1, OneSlot DEF Uses
<1>3. Work(q, j.at) \in Conns /\ Work(q, j.at)[1] = q
  BY DEF Work, Conns
<1> QED BY <1>1, <1>2, <1>3, PoolAsked

\* The end of a statement.
LEMMA PoolStatement ==
  ASSUME Typed, PoolInv, NEW q \in Slots, pc[q] \in Working \ {"checkpoint"}, lock' = lock,
         NEW label, label \notin Working \cup Locking, NEW j,
         label = "consent" => j.at = job[q].at,
         Become(q, label, j), Holds(q), GivesBack(Work(q, job[q].at))
  PROVE  PoolInv'
<1>1. pc[q] \notin Locking
  BY DEF Working, Locking
<1>2. Uses(q) = {Work(q, job[q].at)} /\ Uses(q)' = {}
  BY <1>1, OneSlot DEF Uses
<1>3. Work(q, job[q].at) \in held /\ Work(q, job[q].at)[1] = q
  BY DEF Work, Holds
<1>4. label \in Serving => j.at \in Replicas
  BY DEF Serving, Ticking, PoolInv
<1>5. label \notin Locking
  OBVIOUS
<1> QED BY <1>2, <1>3, <1>4, <1>5, PoolGivenBack

-----------------------------------------------------------------------------
(* Each action. *)

LEMMA PoolRequests ==
  ASSUME Typed, PoolInv, NEW q \in Slots, NEW r \in Replicas,
         Reauth(q, r) \/ Start(q, r) \/ Callback(q, r) \/ Healthz(q, r)
  PROVE  PoolInv'
<1>1. \E label \in {"mint", "start", "callback", "probe"} : \E k, csrf, code :
        Arrives(q, k, r, label, csrf, code)
  BY DEF Reauth, Start, Callback, Healthz
<1>2. PICK label \in {"mint", "start", "callback", "probe"} : \E j :
        pc[q] = "idle" /\ Become(q, label, j) /\ j.at = r
  <2>1. PICK label \in {"mint", "start", "callback", "probe"} : \E k, csrf, code :
          Arrives(q, k, r, label, csrf, code)
    BY <1>1
  <2>2. PICK k, csrf, code : Arrives(q, k, r, label, csrf, code)
    BY <2>1
  <2> DEFINE j == [NoJob EXCEPT !.kind = k, !.at = r, !.csrf = csrf, !.code = code]
  <2>3. pc[q] = "idle" /\ Become(q, label, j)
    BY <2>2 DEF Arrives
  <2>4. j.at = r
    BY DEF NoJob
  <2> HIDE DEF j
  <2> QED BY <2>3, <2>4
<1>3. PICK j : pc[q] = "idle" /\ Become(q, label, j) /\ j.at = r
  BY <1>2
<1>4. Asks(Work(q, r)) /\ lock' = lock
  BY DEF Reauth, Start, Callback, Healthz
<1>5. label \in Working \ {"checkpoint"} /\ "idle" \notin Working \cup Locking
  BY DEF Working, Locking
<1> QED BY <1>3, <1>4, <1>5, PoolRequest

LEMMA PoolConsent ==
  ASSUME Typed, PoolInv, NEW q \in Slots, Consent(q)
  PROVE  PoolInv'
<1> DEFINE j == [job[q] EXCEPT !.flow = verifiers + 1]
<1>1. pc[q] = "consent" /\ Become(q, "putback", j) /\ Asks(Work(q, job[q].at)) /\ lock' = lock
  BY DEF Consent
<1>2. j.at = job[q].at
  BY DEF Typed, Jobs
<1>3. job[q].at \in Replicas
  BY <1>1 DEF PoolInv, Ticking, Serving
<1>4. "putback" \in Working \ {"checkpoint"} /\ "consent" \notin Working \cup Locking
  BY DEF Working, Locking
<1> HIDE DEF j
<1> QED BY <1>1, <1>2, <1>3, <1>4, PoolRequest

LEMMA PoolStatements ==
  ASSUME Typed, PoolInv, NEW q \in Slots,
         Mint(q) \/ StartPop(q) \/ PutBack(q) \/ CallbackPop(q) \/ Probe(q)
  PROVE  PoolInv'
<1>1. /\ pc[q] \in {"mint", "start", "putback", "callback", "probe"} /\ lock' = lock
      /\ Holds(q) /\ GivesBack(Work(q, job[q].at))
  BY DEF Mint, StartPop, PutBack, CallbackPop, Probe
<1>2. \E label \in {"idle", "consent", "exchange"} : \E j :
        Become(q, label, j) /\ (label = "consent" => j = job[q])
  <2>1. CASE Mint(q) \/ StartPop(q) \/ PutBack(q) \/ Probe(q)
    BY <2>1 DEF Mint, StartPop, PutBack, Probe, Answer, Goto
  <2>2. CASE CallbackPop(q)
    <3> DEFINE j == [job[q] EXCEPT !.flow = flows[job[q].csrf].verifier]
    <3>1. Become(q, "idle", NoJob) \/ Become(q, "exchange", j)
      BY <2>2 DEF CallbackPop, Answer
    <3> HIDE DEF j
    <3> QED BY <3>1
  <2> QED BY <2>1, <2>2
<1>3. PICK label \in {"idle", "consent", "exchange"} : \E j :
        Become(q, label, j) /\ (label = "consent" => j = job[q])
  BY <1>2
<1>4. pc[q] \in Working \ {"checkpoint"} /\ label \notin Working \cup Locking
  BY <1>1 DEF Working, Locking
<1> QED BY <1>1, <1>3, <1>4, PoolStatement

LEMMA PoolTick ==
  ASSUME Typed, PoolInv, NEW q \in Slots,
         \/ \E r \in Replicas : Poll(q, r)
         \/ TryLock(q) \/ Checkpoint(q) \/ Saved(q) \/ Unlock(q) \/ UnlockFails(q)
  PROVE  PoolInv'
<1> USE DEF Serving, Working, Locking
<1>1. ASSUME NEW r \in Replicas, Poll(q, r) PROVE PoolInv'
  <2> DEFINE j == [NoJob EXCEPT !.kind = "poll", !.at = r, !.csrf = 0, !.code = 0]
  <2>1. pc[q] = "idle" /\ Become(q, "lock", j) /\ Asks(LockConn(q, r)) /\ lock' = lock
    BY <1>1 DEF Poll, Arrives
  <2>2. j.at = r
    BY DEF NoJob
  <2> HIDE DEF j
  <2>3. Uses(q) = {} /\ Uses(q)' = {LockConn(q, r)}
    BY <2>1, <2>2, OneSlot DEF Uses
  <2>4. LockConn(q, r) \in Conns /\ LockConn(q, r)[1] = q
    BY DEF LockConn, Conns
  <2> QED BY <2>1, <2>2, <2>3, <2>4, PoolAsked
<1>2. CASE TryLock(q)
  <2> DEFINE c == LockConn(q, job[q].at)
  <2>1. pc[q] = "lock" /\ c \in held /\ c[1] = q /\ job[q].at \in Replicas
    BY <1>2 DEF TryLock, LockConn, PoolInv, Ticking
  <2>2. Uses(q) = {c}
    BY <2>1 DEF Uses
  <2>3. CASE /\ lock = NoSlot /\ lock' = q
             /\ Become(q, "tick", job[q]) /\ held' = held /\ waiting' = waiting
    <3>1. Become(q, "tick", job[q]) /\ lock' = q /\ held' = held /\ waiting' = waiting
      BY <2>3
    <3>2. Uses(q)' = Uses(q)
      BY <2>2, <3>1, OneSlot
    <3> QED BY <2>1, <2>3, <3>1, <3>2, PoolRests
  <2>4. CASE Become(q, "idle", NoJob) /\ GivesBack(c) /\ lock' = lock
    <3>1. Become(q, "idle", NoJob) /\ GivesBack(c) /\ lock' = lock
      BY <2>4
    <3>2. Uses(q)' = {}
      BY <3>1, OneSlot
    <3> HIDE DEF c
    <3> QED BY <2>1, <2>2, <3>1, <3>2, PoolGivenBack
  <2> QED BY <1>2, <2>3, <2>4 DEF TryLock, Answer, Goto
<1>3. CASE Checkpoint(q)
  <2>1. pc[q] = "tick" /\ Become(q, "checkpoint", job[q]) /\ Asks(Work(q, job[q].at)) /\ lock' = lock
    BY <1>3 DEF Checkpoint, Goto
  <2>2. job[q].at \in Replicas /\ lock = q /\ LockConn(q, job[q].at) \in held
    BY <2>1 DEF PoolInv, Ticking
  <2>3. /\ Uses(q) = {LockConn(q, job[q].at)}
        /\ Uses(q)' = {LockConn(q, job[q].at)} \cup {Work(q, job[q].at)}
    BY <2>1, OneSlot DEF Uses
  <2>4. /\ Work(q, job[q].at) \in Conns /\ Work(q, job[q].at)[1] = q
        /\ Work(q, job[q].at) # LockConn(q, job[q].at)
    BY <2>2 DEF Work, LockConn, Conns
  <2> QED BY <2>1, <2>2, <2>3, <2>4, PoolAsked
<1>4. CASE Saved(q)
  <2>1. /\ pc[q] = "checkpoint" /\ Become(q, "unlock", job[q]) /\ lock' = lock
        /\ Work(q, job[q].at) \in held /\ GivesBack(Work(q, job[q].at))
    BY <1>4 DEF Saved, Goto, Holds
  <2>2. job[q].at \in Replicas /\ lock = q /\ LockConn(q, job[q].at) \in held
    BY <2>1 DEF PoolInv, Ticking
  <2>3. /\ Uses(q) = {Work(q, job[q].at), LockConn(q, job[q].at)}
        /\ Uses(q)' = {LockConn(q, job[q].at)}
    BY <2>1, OneSlot DEF Uses
  <2>4. Work(q, job[q].at)[1] = q /\ Work(q, job[q].at) # LockConn(q, job[q].at)
    BY DEF Work, LockConn
  <2>5. Uses(q)' = Uses(q) \ {Work(q, job[q].at)}
    BY <2>3, <2>4
  <2>6. LockConn(q, job[q].at) \in held \ {Work(q, job[q].at)}
    BY <2>2, <2>4
  <2> QED BY <2>1, <2>2, <2>4, <2>5, <2>6, PoolGivenBack
<1>5. CASE Unlock(q) \/ UnlockFails(q)
  <2> DEFINE c == LockConn(q, job[q].at)
  <2>1. /\ pc[q] = "unlock" /\ Become(q, "idle", NoJob) /\ lock' = NoSlot
        /\ GivesBack(c) /\ c[1] = q
    BY <1>5 DEF Unlock, UnlockFails, Answer, LockConn
  <2>2. lock = q /\ c \in held
    BY <2>1 DEF PoolInv, Ticking
  <2>3. Uses(q) = {c} /\ Uses(q)' = {}
    BY <2>1, OneSlot DEF Uses
  <2> HIDE DEF c
  <2> QED BY <2>1, <2>2, <2>3, PoolGivenBack
<1> QED BY <1>1, <1>2, <1>3, <1>4, <1>5

\* Everything else a job does: no connection before, and none after.
LEMMA PoolOther ==
  ASSUME Typed, PoolInv, NEW q \in Slots,
         \/ Exchange(q) \/ Truncate(q) \/ Write(q) \/ Reload(q) \/ Notify(q)
         \/ Load(q) \/ Refresh(q) \/ Serve(q) \/ TickOnce(q) \/ InstalledFlow(q)
         \/ ExchangeFails(q) \/ RefreshFails(q) \/ Run(q) \/ Cli(q)
         \/ \E r \in Replicas : Boot(q, r)
  PROVE  PoolInv'
<1> DEFINE Bare == {"idle", "exchange", "persist", "write", "reload", "told", "load",
                    "refresh", "installed flow", "serve", "tick once"}
<1>1. UNCHANGED poolVars
  BY DEF Exchange, Truncate, Write, Reload, Notify, Load, Refresh, Serve, TickOnce,
         InstalledFlow, ExchangeFails, RefreshFails, Run, Cli, Boot
<1>2. pc[q] \in Bare
  BY DEF Exchange, Truncate, Write, Reload, Notify, Load, Refresh, Serve, TickOnce,
         InstalledFlow, ExchangeFails, RefreshFails, Run, Cli, Boot, Arrives
<1>3. \E label \in Bare : \E j : Become(q, label, j)
  <2>1. CASE \/ Truncate(q) \/ Write(q) \/ Reload(q) \/ Notify(q) \/ Refresh(q)
             \/ Serve(q) \/ TickOnce(q) \/ ExchangeFails(q) \/ RefreshFails(q)
    <3>1. Answer(q) \/ \E label \in Bare : Goto(q, label)
      BY <2>1 DEF Truncate, Write, Reload, Notify, Refresh, Serve, TickOnce,
                  ExchangeFails, RefreshFails
    <3> QED BY <3>1 DEF Answer, Goto
  <2>2. CASE Exchange(q) \/ InstalledFlow(q)
    BY <2>2 DEF Exchange, InstalledFlow, Answer
  <2>3. CASE Load(q)
    BY <2>3 DEF Load, Answer, Goto
  <2>4. CASE Run(q) \/ Cli(q) \/ \E r \in Replicas : Boot(q, r)
    BY <2>4 DEF Run, Cli, Boot, Arrives
  <2> QED BY <2>1, <2>2, <2>3, <2>4
<1>4. \A label \in Bare : label \notin Serving
  BY DEF Serving, Working, Locking
<1> HIDE DEF Bare
<1> QED BY <1>1, <1>2, <1>3, <1>4, PoolAside

\* Who queues too long leaves the queue; nobody else is disturbed.
LEMMA PoolTimedOut ==
  ASSUME Typed, PoolInv, NEW q \in Slots, PoolTimeout(q)
  PROVE  PoolInv'
<1> USE DEF Serving, Working, Locking
<1>1. /\ held' = held /\ lock' = lock
      /\ IF pc[q] = "checkpoint" THEN Goto(q, "unlock") ELSE Answer(q)
  BY DEF PoolTimeout
<1>2. PICK r \in Replicas : \E i \in 1 .. Len(waiting[r]) :
        /\ waiting[r][i][1] = q
        /\ waiting' = [waiting EXCEPT ![r] = SubSeq(@, 1, i - 1) \o SubSeq(@, i + 1, Len(@))]
  BY DEF PoolTimeout
<1>3. PICK i \in 1 .. Len(waiting[r]) :
        /\ waiting[r][i][1] = q
        /\ waiting' = [waiting EXCEPT ![r] = SubSeq(@, 1, i - 1) \o SubSeq(@, i + 1, Len(@))]
  BY <1>2
<1> DEFINE c == waiting[r][i]
<1>4. Discipline' /\ Asked' = Asked \ {c}
  BY <1>1, <1>3, LeftQueue DEF PoolInv
<1>5. c \in Queue(r) /\ c \notin held /\ c[1] = q
  BY <1>3 DEF Queue, PoolInv, Discipline, InOrder
<1> HIDE DEF c
<1>6. c \in Uses(q)
  BY <1>5, AskedIsUsed DEF Asked, PoolInv
<1>7. CASE pc[q] = "checkpoint"
  <2>1. Become(q, "unlock", job[q])
    BY <1>1, <1>7 DEF Goto
  <2>2. job[q].at \in Replicas /\ lock = q /\ LockConn(q, job[q].at) \in held
    BY <1>7 DEF PoolInv, Ticking
  <2>3. c = Work(q, job[q].at)
    BY <1>5, <1>6, <2>2 DEF Uses
  <2>4. Uses(q)' = Uses(q) \ {c}
    <3>1. Work(q, job[q].at) # LockConn(q, job[q].at)
      BY DEF Work, LockConn
    <3>2. /\ Uses(q) = {Work(q, job[q].at), LockConn(q, job[q].at)}
          /\ Uses(q)' = {LockConn(q, job[q].at)}
      BY <1>7, <2>1, OneSlot DEF Uses
    <3> QED BY <2>3, <3>1, <3>2
  <2>5. Ticking'
    BY <1>1, <2>1, <2>2, TickingStep DEF PoolInv
  <2>6. Demand'
    <3>1. \A d : d[1] = q => (d \in Asked' <=> d \in Uses(q)')
      BY <1>4, <2>4, AskedIsUsed DEF PoolInv
    <3> QED BY <1>4, <1>5, <2>1, <3>1, DemandStep DEF PoolInv
  <2> QED BY <1>4, <2>5, <2>6 DEF PoolInv
<1>8. CASE pc[q] # "checkpoint"
  <2>1. Become(q, "idle", NoJob)
    BY <1>1, <1>8 DEF Answer
  <2>2. pc[q] \in {"tick", "unlock"} => LockConn(q, job[q].at) \in held
    BY DEF PoolInv, Ticking
  <2>3. Uses(q) = {c} /\ Uses(q)' = {}
    BY <1>5, <1>6, <1>8, <2>1, <2>2, OneSlot DEF Uses
  <2>4. Ticking'
    BY <1>1, <2>1, TickingStep DEF PoolInv
  <2>5. Demand'
    <3>1. \A d : d[1] = q => (d \in Asked' <=> d \in Uses(q)')
      BY <1>4, <2>3, AskedIsUsed DEF PoolInv
    <3> QED BY <1>4, <1>5, <2>1, <3>1, DemandStep DEF PoolInv
  <2> QED BY <1>4, <2>4, <2>5 DEF PoolInv
<1> QED BY <1>7, <1>8

\* With a machine go its jobs, their connections and its queue.
LEMMA PoolCrash ==
  ASSUME Typed, PoolInv, NEW a \in Machines, Crash(a)
  PROVE  PoolInv'
<1> DEFINE dead == {q \in Slots : pc[q] # "idle" /\ job[q].at = a}
<1>1. /\ held' = held \ InUse(a)
      /\ waiting' = [r \in Replicas |-> IF r = a THEN <<>> ELSE waiting[r]]
      /\ lock' = IF lock \in dead THEN NoSlot ELSE lock
  BY DEF Crash
<1>2. /\ \A q \in dead : pc'[q] = "idle"
      /\ \A q \in Slots \ dead : pc'[q] = pc[q] /\ job'[q] = job[q]
  BY DEF Crash
<1>3. Discipline' /\ Asked' = {c \in Asked : c[3] # a}
  BY <1>1, Cleared DEF PoolInv
<1>4. \A q \in dead : Uses(q)' = {} /\ job[q].at = a
  BY <1>2 DEF Uses, Working, Locking
<1>5. \A q \in Slots \ dead : Uses(q)' = Uses(q)
  BY <1>2 DEF Uses, Work, LockConn
<1>6. \A q \in Slots \ dead : pc[q] # "idle" => job[q].at # a
  OBVIOUS
<1>7. "idle" \notin Serving /\ "idle" \notin Locking /\ "idle" \notin Working
  BY DEF Serving, Working, Locking
<1>8. dead \subseteq Slots
  OBVIOUS
<1> HIDE DEF dead
<1>9. ASSUME NEW q \in Slots, NEW c \in Uses(q)
      PROVE  c[1] = q /\ (c[3] # a <=> q \notin dead)
  <2>1. pc[q] # "idle" /\ c[1] = q /\ c[3] = job[q].at
    BY <1>7, <1>9, UsesOwn DEF Uses
  <2> QED BY <1>4, <1>6, <2>1
<1>10. Demand'
  <2>1. ASSUME NEW c \in Asked' PROVE c[1] \in Slots /\ c \in Uses(c[1])'
    <3>1. c \in Asked /\ c[3] # a
      BY <1>3, <2>1
    <3>2. c[1] \in Slots /\ c \in Uses(c[1])
      BY <3>1 DEF PoolInv, Demand
    <3> QED BY <1>5, <1>9, <3>1, <3>2
  <2>2. ASSUME NEW q \in Slots, NEW c \in Uses(q)' PROVE c \in Asked'
    <3>1. q \notin dead /\ c \in Uses(q)
      BY <1>4, <1>5, <2>2
    <3> QED BY <1>3, <1>9, <3>1 DEF PoolInv, Demand
  <2> QED BY <2>1, <2>2 DEF Demand
<1>11. Ticking'
  <2>1. ASSUME NEW q \in Slots, pc'[q] \in Serving PROVE job'[q].at \in Replicas
    BY <1>2, <1>7, <2>1 DEF PoolInv, Ticking
  <2>2. ASSUME NEW q \in Slots, pc'[q] \in Locking \ {"lock"}
        PROVE  lock' = q /\ LockConn(q, job'[q].at) \in held'
    <3>1. q \notin dead /\ pc[q] = pc'[q] /\ job'[q] = job[q] /\ pc[q] # "idle"
      BY <1>2, <1>7, <2>2
    <3>2. lock = q /\ LockConn(q, job[q].at) \in held
      BY <2>2, <3>1 DEF PoolInv, Ticking
    <3>3. LockConn(q, job[q].at) \notin InUse(a)
      BY <1>6, <3>1 DEF InUse, LockConn
    <3> QED BY <1>1, <3>1, <3>2, <3>3
  <2>3. Serving' = Serving /\ Locking' = Locking
    BY DEF Serving, Working, Locking
  <2> QED BY <2>1, <2>2 DEF Ticking, LockConn
<1> QED BY <1>3, <1>10, <1>11 DEF PoolInv

LEMMA InitPool == Init => PoolInv
<1> SUFFICES ASSUME Init PROVE PoolInv
  OBVIOUS
<1>1. \A r \in Replicas : waiting[r] = <<>> /\ Queue(r) = {} /\ InUse(r) = {}
  BY EmptySeq DEF Init, Queue, InUse
<1>2. Discipline
  <2>1. ASSUME NEW r \in Replicas PROVE InOrder(r)
    <3>1. Cardinality(InUse(r)) = 0 /\ waiting[r] = <<>> /\ Queue(r) = {}
      BY <1>1, FS_EmptySet
    <3>2. Len(waiting[r]) = 0 /\ 0 <= PoolSize
      BY <3>1, EmptySeq, WebAssumption
    <3> QED BY <3>1, <3>2 DEF InOrder
  <2> QED BY <2>1, FS_EmptySet, EmptySeq DEF Discipline, Init
<1>3. Asked = {} /\ \A q \in Slots : Uses(q) = {}
  BY <1>1 DEF Init, Asked, Uses, Working, Locking
<1>4. Ticking
  BY DEF Init, Ticking, Serving, Working, Locking
<1> QED BY <1>2, <1>3, <1>4 DEF PoolInv, Demand

LEMMA PoolStep == Typed /\ PoolInv /\ [Next]_vars => PoolInv'
<1> SUFFICES ASSUME Typed, PoolInv, [Next]_vars PROVE PoolInv'
  OBVIOUS
<1>1. CASE \E q \in Slots : Step(q)
  <2>1. PICK q \in Slots : Step(q)
    BY <1>1
  <2> QED BY <2>1, PoolStatements, PoolConsent, PoolTick, PoolOther DEF Step
<1>2. ASSUME NEW q \in Slots, NEW r \in Replicas,
             \/ Reauth(q, r) \/ Start(q, r) \/ Callback(q, r) \/ Poll(q, r)
             \/ Healthz(q, r) \/ Boot(q, r)
      PROVE  PoolInv'
  BY <1>2, PoolRequests, PoolTick, PoolOther
<1>3. ASSUME NEW q \in Slots,
             \/ Run(q) \/ Cli(q) \/ InstalledFlow(q)
             \/ ExchangeFails(q) \/ RefreshFails(q) \/ PoolTimeout(q) \/ UnlockFails(q)
      PROVE  PoolInv'
  BY <1>3, PoolOther, PoolTimedOut, PoolTick
<1>4. CASE \/ \E k \in Kinds : Refused(k)
           \/ \E s \in Flows : Expire(s)
           \/ \E r \in Replicas : Stop(r)
           \/ SessionCloses
           \/ UNCHANGED vars
  <2>1. UNCHANGED <<held, waiting, lock, pc, job>>
    BY <1>4 DEF Refused, Expire, Stop, SessionCloses, vars, poolVars
  <2>2. Asked' = Asked /\ \A q \in Slots : Uses(q)' = Uses(q)
    BY <2>1 DEF Asked, Queue, Uses, Work, LockConn
  <2>3. Discipline'
    <3>1. \A r \in Replicas : InOrder(r)' = InOrder(r)
      BY <2>1 DEF InOrder, InUse, Queue
    <3> QED BY <2>1, <3>1 DEF PoolInv, Discipline
  <2>4. Ticking'
    BY <2>1 DEF PoolInv, Ticking, LockConn
  <2> QED BY <2>2, <2>3, <2>4 DEF PoolInv, Demand
<1>5. CASE \E a \in Machines : Crash(a)
  BY <1>5, PoolCrash
<1> QED BY <1>1, <1>2, <1>3, <1>4, <1>5 DEF Next

LEMMA PoolAlways == Spec => []PoolInv
<1>1. FlowInv => Typed
  BY DEF FlowInv
<1> QED BY <1>1, InitPool, PoolStep, FlowAlways, PTL DEF Spec
-----------------------------------------------------------------------------
(* Types: what FlowInv and PoolInv leave open. *)

\* Only the start of a replica gets to serve, and it starts one of Replicas.
Started ==
  \A q \in Slots :
    /\ job[q].kind = "boot" => job[q].at \in Replicas
    /\ pc[q] = "serve" => job[q].kind = "boot"

Rest ==
  /\ up \subseteq Replicas /\ calendar \in [Replicas -> Nat] /\ clash \subseteq Slots
  /\ lock \in Slots \cup {NoSlot} /\ left \in 0 .. MaxJobs /\ faults \in 0 .. MaxFaults
  /\ Started

LEMMA StartedStep ==
  ASSUME Typed, Started, NEW q \in Slots, NEW label, NEW j, Become(q, label, j),
         j.kind = "boot" => j.at \in Replicas, label = "serve" => j.kind = "boot"
  PROVE  Started'
BY OneSlot DEF Started

\* A job keeps its kind and its machine until it ends.
LEMMA JobGoesOn ==
  ASSUME Typed, Started, NEW q \in Slots, NEW label, NEW j, Become(q, label, j),
         j.kind = job[q].kind /\ j.at = job[q].at, label = "serve" => j.kind = "boot"
  PROVE  Started'
BY StartedStep DEF Started

LEMMA JobEnds ==
  ASSUME Typed, Started, NEW q \in Slots, Answer(q)
  PROVE  Started'
<1>1. NoJob.kind # "boot" /\ Become(q, "idle", NoJob)
  BY DEF Answer, NoJob
<1> QED BY <1>1, StartedStep

LEMMA StartedGoto ==
  ASSUME Typed, Started, NEW q \in Slots, NEW label, Goto(q, label),
         label = "serve" => job[q].kind = "boot"
  PROVE  Started'
BY JobGoesOn DEF Goto

LEMMA StartedArrival ==
  ASSUME Typed, Started, NEW q \in Slots, NEW k, NEW r, NEW label, NEW csrf, NEW code,
         Arrives(q, k, r, label, csrf, code), k = "boot" => r \in Replicas, label # "serve"
  PROVE  Started'
<1> DEFINE j == [NoJob EXCEPT !.kind = k, !.at = r, !.csrf = csrf, !.code = code]
<1>1. Become(q, label, j)
  BY DEF Arrives
<1>2. j.kind = k /\ j.at = r
  BY DEF NoJob
<1> HIDE DEF j
<1> QED BY <1>1, <1>2, StartedStep

LEMMA StartedJob ==
  ASSUME Typed, Started, NEW q \in Slots, Step(q) \/ InstalledFlow(q)
  PROVE  Started'
<1>1. CASE \/ Mint(q) \/ StartPop(q) \/ PutBack(q) \/ Truncate(q) \/ Reload(q) \/ Notify(q)
           \/ TryLock(q) \/ Checkpoint(q) \/ Saved(q) \/ Unlock(q) \/ Probe(q)
           \/ Refresh(q) \/ Serve(q) \/ TickOnce(q)
  <2>1. Answer(q) \/ \E label \in Labels \ {"serve"} : Goto(q, label)
    BY <1>1 DEF Labels, Mint, StartPop, PutBack, Truncate, Reload, Notify, TryLock,
         Checkpoint, Saved, Unlock, Probe, Refresh, Serve, TickOnce
  <2> QED BY <2>1, JobEnds, StartedGoto
<1>2. CASE Write(q)
  BY <1>2, JobEnds, StartedGoto DEF Write
<1>3. CASE Consent(q) \/ CallbackPop(q) \/ Exchange(q) \/ InstalledFlow(q) \/ Load(q)
  <2>1. job[q] \in Jobs
    BY DEF Typed
  <2>2. \A x : /\ [job[q] EXCEPT !.flow = x].kind = job[q].kind
               /\ [job[q] EXCEPT !.flow = x].at = job[q].at
               /\ [job[q] EXCEPT !.grant = x].kind = job[q].kind
               /\ [job[q] EXCEPT !.grant = x].at = job[q].at
    BY <2>1 DEF Jobs
  <2>3. \/ Answer(q) \/ Goto(q, "installed flow")
        \/ \E label \in {"putback", "exchange", "persist"} : \E x :
             \/ Become(q, label, [job[q] EXCEPT !.flow = x])
             \/ Become(q, label, [job[q] EXCEPT !.grant = x])
        \/ \E label \in {"refresh", "serve", "tick once"} : \E x :
             /\ Become(q, label, [job[q] EXCEPT !.grant = x])
             /\ label = "serve" => job[q].kind = "boot"
    <3>1. CASE Consent(q) \/ Exchange(q) \/ InstalledFlow(q)
      BY <3>1 DEF Consent, Exchange, InstalledFlow
    <3>2. CASE CallbackPop(q)
      BY <3>2 DEF CallbackPop
    <3>3. CASE Load(q)
      BY <3>3 DEF Load
    <3> QED BY <1>3, <3>1, <3>2, <3>3
  <2>4. ASSUME NEW label \in {"putback", "exchange", "persist"}, NEW x,
               \/ Become(q, label, [job[q] EXCEPT !.flow = x])
               \/ Become(q, label, [job[q] EXCEPT !.grant = x])
        PROVE  Started'
    BY <2>2, <2>4, JobGoesOn
  <2>5. ASSUME NEW label \in {"refresh", "serve", "tick once"}, NEW x,
               Become(q, label, [job[q] EXCEPT !.grant = x]),
               label = "serve" => job[q].kind = "boot"
        PROVE  Started'
    BY <2>2, <2>5, JobGoesOn
  <2> QED BY <2>3, <2>4, <2>5, JobEnds, StartedGoto
<1> QED BY <1>1, <1>2, <1>3 DEF Step

LEMMA LeftLess == \A x \in 0 .. MaxJobs : x > 0 => x - 1 \in 0 .. MaxJobs
<1>1. MaxJobs \in Nat
  BY WebAssumption
<1> QED BY <1>1

\* Arrivals.
LEMMA RestArrives ==
  ASSUME Typed, Rest,
         \/ \E q \in Slots, r \in Replicas :
              \/ Reauth(q, r) \/ Start(q, r) \/ Callback(q, r) \/ Poll(q, r)
              \/ Healthz(q, r) \/ Boot(q, r)
         \/ \E q \in Slots : Run(q) \/ Cli(q)
  PROVE  Rest'
<1>1. UNCHANGED <<up, calendar, clash, lock>>
  BY DEF memory, tokenVars, poolVars, Reauth, Start, Callback, Poll, Healthz, Boot, Run, Cli
<1>2. PICK q \in Slots, label \in {"mint", "start", "callback", "lock", "probe", "load",
                                   "installed flow"} : \E k, r, csrf, code :
        Arrives(q, k, r, label, csrf, code) /\ (k = "boot" => r \in Replicas)
  <2>1. CASE \E q \in Slots, r \in Replicas :
               \/ Reauth(q, r) \/ Start(q, r) \/ Callback(q, r) \/ Poll(q, r)
               \/ Healthz(q, r) \/ Boot(q, r)
    BY <2>1 DEF Reauth, Start, Callback, Poll, Healthz, Boot
  <2>2. CASE \E q \in Slots : Run(q) \/ Cli(q)
    <3>1. PICK q \in Slots : \/ Arrives(q, "run", Host, "load", 0, 0)
                             \/ Arrives(q, "cli", Host, "installed flow", 0, 0)
      BY <2>2 DEF Run, Cli
    <3>2. \E k, r, csrf, code, label :
            /\ label \in {"load", "installed flow"}
            /\ Arrives(q, k, r, label, csrf, code) /\ k \in {"run", "cli"}
      BY <3>1
    <3>3. PICK k, r, csrf, code, label :
            /\ label \in {"load", "installed flow"}
            /\ Arrives(q, k, r, label, csrf, code) /\ k \in {"run", "cli"}
      BY <3>2
    <3>4. k # "boot"
      BY <3>3
    <3> QED BY <3>3, <3>4
  <2> QED BY <2>1, <2>2
<1>3. PICK k, r, csrf, code :
        Arrives(q, k, r, label, csrf, code) /\ (k = "boot" => r \in Replicas)
  BY <1>2
<1>4. left' \in 0 .. MaxJobs /\ faults' = faults
  <2>1. faults' = faults
    BY <1>3 DEF Arrives
  <2>2. left > 0 /\ left' = left - 1
    BY <1>3 DEF Arrives
  <2>3. left \in 0 .. MaxJobs /\ MaxJobs \in Nat
    BY WebAssumption DEF Rest
  <2>4. left' \in 0 .. MaxJobs
    BY <2>2, <2>3, LeftLess
  <2> QED BY <2>1, <2>4
<1>5. Started'
  BY <1>2, <1>3, StartedArrival DEF Rest
<1> QED BY <1>1, <1>4, <1>5 DEF Rest

LEMMA RestStep == Typed /\ Rest /\ [Next]_vars => Rest'
<1> SUFFICES ASSUME Typed, Rest, [Next]_vars PROVE Rest'
  OBVIOUS
<1>1. ASSUME NEW q \in Slots, Step(q) \/ InstalledFlow(q) PROVE Rest'
  <2>1. Started'
    BY <1>1, StartedJob DEF Rest
  <2>2. left' = left /\ faults' = faults
    BY <1>1 DEF Step, budget, Mint, StartPop, PutBack, Truncate, Reload, Notify, TryLock,
         Checkpoint, Saved, Unlock, Probe, Refresh, Serve, TickOnce, Write, Consent,
         CallbackPop, Exchange, InstalledFlow, Load
  <2>3. lock' \in {lock, q, NoSlot}
    BY <1>1 DEF Step, poolVars, Mint, StartPop, PutBack, Truncate, Reload, Notify, TryLock,
         Checkpoint, Saved, Unlock, Probe, Refresh, Serve, TickOnce, Write, Consent,
         CallbackPop, Exchange, InstalledFlow, Load
  <2>4. clash' \subseteq clash \cup Slots
    BY <1>1 DEF Step, tokenVars, Mint, StartPop, PutBack, Truncate, Reload, Notify, TryLock,
         Checkpoint, Saved, Unlock, Probe, Refresh, Serve, TickOnce, Write, Consent,
         CallbackPop, Exchange, InstalledFlow, Load
  <2>5. up' \subseteq Replicas /\ calendar' \in [Replicas -> Nat]
    <3>1. CASE Serve(q)
      <4>1. job[q].at \in Replicas /\ job[q].grant \in Nat
        BY <3>1 DEF Serve, Rest, Started, Typed, Jobs
      <4> QED BY <3>1, <4>1 DEF Serve, Rest
    <3>2. CASE ~Serve(q)
      <4>1. up' = up /\ calendar' = calendar
        BY <1>1, <3>2 DEF Step, memory, Mint, StartPop, PutBack, Truncate, Reload, Notify,
             TryLock, Checkpoint, Saved, Unlock, Probe, Refresh, TickOnce, Write, Consent,
             CallbackPop, Exchange, InstalledFlow, Load
      <4> QED BY <4>1 DEF Rest
    <3> QED BY <3>1, <3>2
  <2> QED BY <2>1, <2>2, <2>3, <2>4, <2>5 DEF Rest
<1>2. CASE \E q \in Slots : \/ ExchangeFails(q) \/ RefreshFails(q) \/ PoolTimeout(q)
                            \/ UnlockFails(q)
  <2>1. PICK q \in Slots : \/ ExchangeFails(q) \/ RefreshFails(q) \/ PoolTimeout(q)
                          \/ UnlockFails(q)
    BY <1>2
  <2>2. UNCHANGED <<up, calendar, clash>> /\ lock' \in {lock, NoSlot} /\ Spend
    BY <2>1 DEF ExchangeFails, RefreshFails, PoolTimeout, UnlockFails, memory, tokenVars,
         poolVars
  <2>5. left' = left /\ faults' \in 0 .. MaxFaults
    BY <2>2, WebAssumption DEF Spend, Rest
  <2>3. Answer(q) \/ Goto(q, "unlock")
    BY <2>1 DEF ExchangeFails, RefreshFails, PoolTimeout, UnlockFails
  <2>4. Started'
    BY <2>3, JobEnds, StartedGoto DEF Rest
  <2> QED BY <2>2, <2>4, <2>5 DEF Rest
<1>3. CASE \/ \E k \in Kinds : Refused(k)
           \/ \E s \in Flows : Expire(s)
           \/ \E r \in Replicas : Stop(r)
           \/ SessionCloses
           \/ UNCHANGED vars
  <2>1. /\ UNCHANGED <<calendar, clash, lock, faults, pc, job>>
        /\ up' \subseteq up /\ left' \in 0 .. MaxJobs
    BY <1>3, WebAssumption DEF Refused, Expire, Stop, SessionCloses, vars, poolVars, memory,
         tokenVars, budget, Rest
  <2> QED BY <2>1 DEF Rest, Started
<1>4. ASSUME NEW a \in Machines, Crash(a) PROVE Rest'
  <2>1. /\ calendar' = calendar /\ clash' \subseteq clash /\ up' \subseteq up
        /\ lock' \in {lock, NoSlot} /\ left' = left /\ faults' \in 0 .. MaxFaults
    BY <1>4, WebAssumption DEF Crash, Spend, Rest
  <2>2. \A q \in Slots : \/ pc'[q] = "idle" /\ job'[q] = NoJob
                         \/ pc'[q] = pc[q] /\ job'[q] = job[q]
    BY <1>4 DEF Crash
  <2>3. Started'
    BY <2>2 DEF Started, Rest, NoJob
  <2> QED BY <2>1, <2>3 DEF Rest
<1> QED BY <1>1, <1>2, <1>3, <1>4, RestArrives DEF Next

LEMMA RestAlways == Spec => []Rest
<1>1. Init => Rest
  BY WebAssumption DEF Init, Rest, Started, NoJob
<1>2. FlowInv => Typed
  BY DEF FlowInv
<1> QED BY <1>1, <1>2, RestStep, FlowAlways, PTL DEF Spec
-----------------------------------------------------------------------------
(* No pool waits for itself. *)

Stalled(q) == \E r \in Replicas : \E c \in Queue(r) : c[1] = q

\* Where requests queue, somebody who waits for nothing has a connection.
SomebodyMoves ==
  \A r \in Replicas : waiting[r] # <<>> => \E c \in InUse(r) : ~Stalled(c[1])

\* Who waits with a connection in hand is the tick, at its checkpoint.
LEMMA OnlyTheTick ==
  ASSUME PoolInv, NEW c \in held, Stalled(c[1])
  PROVE  c = LockConn(lock, job[lock].at)
<1> DEFINE q == c[1]
<1>1. PICK r \in Replicas : \E d \in Queue(r) : d[1] = q
  BY DEF Stalled
<1>2. PICK d \in Queue(r) : d[1] = q
  BY <1>1
<1>3. d \notin held /\ d \in Asked /\ c \in Asked
  BY <1>2 DEF PoolInv, Discipline, InOrder, Asked
<1>4. q \in Slots /\ c \in Uses(q) /\ d \in Uses(q) /\ c # d
  BY <1>2, <1>3 DEF PoolInv, Demand
<1> HIDE DEF q
<1>5. pc[q] \in Working /\ pc[q] \in Locking
  BY <1>4 DEF Uses
<1>6. pc[q] = "checkpoint"
  BY <1>5 DEF Working, Locking
<1>7. lock = q /\ LockConn(q, job[q].at) \in held
  BY <1>4, <1>6 DEF PoolInv, Ticking, Locking
<1>8. d = Work(q, job[q].at)
  BY <1>3, <1>4, <1>7 DEF Uses
<1> QED BY <1>4, <1>7, <1>8 DEF Uses

(* The requests of a pool never all wait for each other, whatever is open   *)
(* on the replica: of those who have a connection at most one waits for     *)
(* another, the tick, and a pool has two connections or more.               *)
THEOREM NoPoolDeadlock == Spec => []SomebodyMoves
<1>1. ASSUME PoolInv PROVE SomebodyMoves
  <2> SUFFICES ASSUME NEW r \in Replicas, waiting[r] # <<>>,
                      \A c \in InUse(r) : Stalled(c[1])
               PROVE  FALSE
    BY DEF SomebodyMoves
  <2> DEFINE x == LockConn(lock, job[lock].at)
  <2>1. InUse(r) \subseteq {x}
    BY <1>1, OnlyTheTick DEF InUse
  <2> HIDE DEF x
  <2>2. IsFiniteSet({x}) /\ Cardinality({x}) = 1
    BY FS_Singleton
  <2>3. Cardinality(InUse(r)) <= 1
    BY <2>1, <2>2, FS_Subset
  <2>4. Cardinality(InUse(r)) = PoolSize
    BY <1>1 DEF PoolInv, Discipline, InOrder
  <2> QED BY <2>3, <2>4, WebAssumption
<1> QED BY <1>1, PoolAlways, PTL
-----------------------------------------------------------------------------
(* The tick lock: who has it, or had it and failed to give it back. *)

HasLock == {"tick", "checkpoint", "unlock"}
LockLive == lock # NoSlot => lock \in Slots /\ pc[lock] \in HasLock

LockHeld ==
  /\ lock # NoSlot =>
       /\ lock \in Slots /\ pc[lock] \in HasLock
       /\ LockConn(lock, job[lock].at) \in held
  /\ orphan # NoSlot =>
       orphan \in up /\ (lock # NoSlot => job[lock].at = orphan)

LEMMA LockStays ==
  ASSUME Typed, LockLive, NEW q \in Slots, NEW label, NEW j, Become(q, label, j),
         lock' = lock, pc[q] \in HasLock => label \in HasLock
  PROVE  LockLive'
BY OneSlot DEF LockLive, HasLock

\* Who queues at another label than the checkpoint has no lock yet.
LEMMA TimedOutLabel ==
  ASSUME PoolInv, NEW q \in Slots, PoolTimeout(q), pc[q] # "checkpoint"
  PROVE  pc[q] \notin HasLock
<1>1. Stalled(q)
  BY DEF PoolTimeout, Stalled, Queue
<1>2. PICK r \in Replicas : \E d \in Queue(r) : d[1] = q
  BY <1>1 DEF Stalled
<1>3. PICK d \in Queue(r) : d[1] = q
  BY <1>2
<1>4. d \notin held /\ d \in Uses(q)
  BY <1>3 DEF PoolInv, Discipline, InOrder, Asked, Demand
<1> SUFFICES ASSUME pc[q] \in {"tick", "unlock"} PROVE FALSE
  BY DEF HasLock
<1>5. LockConn(q, job[q].at) \in held /\ Uses(q) = {LockConn(q, job[q].at)}
  BY DEF PoolInv, Ticking, Uses, Working, Locking
<1> QED BY <1>4, <1>5

LEMMA LockStep == Typed /\ PoolInv /\ LockLive /\ [Next]_vars => LockLive'
<1> SUFFICES ASSUME Typed, PoolInv, LockLive, [Next]_vars PROVE LockLive'
  OBVIOUS
<1>1. ASSUME NEW q \in Slots, TryLock(q) \/ Unlock(q) \/ UnlockFails(q) PROVE LockLive'
  <2>1. CASE Become(q, "tick", job[q]) /\ lock' = q
    BY <2>1, OneSlot DEF LockLive, HasLock
  <2>2. CASE Become(q, "idle", NoJob) /\ lock' = lock /\ pc[q] = "lock"
    BY <2>2, LockStays DEF HasLock
  <2>3. CASE Unlock(q) \/ UnlockFails(q)
    BY <2>3 DEF Unlock, UnlockFails, LockLive
  <2> QED BY <1>1, <2>1, <2>2, <2>3 DEF TryLock, Goto, Answer
<1>2. ASSUME NEW q \in Slots, Checkpoint(q) \/ Saved(q) PROVE LockLive'
  <2>1. lock' = lock /\ \E label \in HasLock : Become(q, label, job[q])
    BY <1>2 DEF Checkpoint, Saved, Goto, HasLock
  <2> QED BY <2>1, LockStays
<1>3. ASSUME NEW q \in Slots, PoolTimeout(q) PROVE LockLive'
  <2>1. lock' = lock /\ IF pc[q] = "checkpoint" THEN Goto(q, "unlock") ELSE Answer(q)
    BY <1>3 DEF PoolTimeout
  <2>2. CASE pc[q] = "checkpoint"
    <3>1. Become(q, "unlock", job[q])
      BY <2>1, <2>2 DEF Goto
    <3> QED BY <2>1, <3>1, LockStays DEF HasLock
  <2>3. CASE pc[q] # "checkpoint"
    <3>1. Become(q, "idle", NoJob)
      BY <2>1, <2>3 DEF Answer
    <3> QED BY <1>3, <2>1, <2>3, <3>1, TimedOutLabel, LockStays
  <2> QED BY <2>2, <2>3
<1>4. ASSUME NEW q \in Slots, lock' = lock, pc[q] \notin HasLock, \E label, j : Become(q, label, j)
      PROVE  LockLive'
  BY <1>4, LockStays
<1>5. ASSUME NEW q \in Slots,
             \/ Mint(q) \/ StartPop(q) \/ Consent(q) \/ PutBack(q) \/ CallbackPop(q)
             \/ Exchange(q) \/ Truncate(q) \/ Write(q) \/ Reload(q) \/ Notify(q)
             \/ Probe(q) \/ Load(q) \/ Refresh(q) \/ Serve(q) \/ TickOnce(q)
             \/ InstalledFlow(q) \/ ExchangeFails(q) \/ RefreshFails(q)
      PROVE  LockLive'
  <2>1. lock' = lock /\ pc[q] \notin HasLock
    BY <1>5 DEF HasLock, poolVars, Mint, StartPop, Consent, PutBack, CallbackPop, Exchange,
         Truncate, Write, Reload, Notify, Probe, Load, Refresh, Serve, TickOnce,
         InstalledFlow, ExchangeFails, RefreshFails
  <2>2. \E label, j : Become(q, label, j)
    <3>1. CASE \/ Mint(q) \/ StartPop(q) \/ PutBack(q) \/ Truncate(q) \/ Write(q) \/ Reload(q)
               \/ Notify(q) \/ Probe(q) \/ Refresh(q) \/ Serve(q) \/ TickOnce(q)
               \/ ExchangeFails(q) \/ RefreshFails(q)
      BY <3>1 DEF Mint, StartPop, PutBack, Truncate, Write, Reload, Notify, Probe, Refresh,
           Serve, TickOnce, ExchangeFails, RefreshFails, Answer, Goto
    <3>2. CASE Consent(q) \/ CallbackPop(q) \/ Exchange(q) \/ Load(q) \/ InstalledFlow(q)
      BY <3>2 DEF Consent, CallbackPop, Exchange, Load, InstalledFlow, Answer, Goto
    <3> QED BY <1>5, <3>1, <3>2
  <2> QED BY <2>1, <2>2, <1>4
<1>6. ASSUME NEW q \in Slots,
             \/ Run(q) \/ Cli(q)
             \/ \E r \in Replicas : \/ Reauth(q, r) \/ Start(q, r) \/ Callback(q, r)
                                    \/ Poll(q, r) \/ Healthz(q, r) \/ Boot(q, r)
      PROVE  LockLive'
  <2>1. lock' = lock
    BY <1>6 DEF poolVars, Run, Cli, Reauth, Start, Callback, Poll, Healthz, Boot
  <2>2. PICK k, r, label, csrf, code : Arrives(q, k, r, label, csrf, code)
    BY <1>6 DEF Run, Cli, Reauth, Start, Callback, Poll, Healthz, Boot
  <2>3. pc[q] \notin HasLock /\ \E j : Become(q, label, j)
    BY <2>2 DEF Arrives, HasLock
  <2> QED BY <2>1, <2>3, <1>4
<1>7. CASE \/ \E k \in Kinds : Refused(k)
           \/ \E s \in Flows : Expire(s)
           \/ \E r \in Replicas : Stop(r)
           \/ SessionCloses
           \/ UNCHANGED vars
  BY <1>7 DEF Refused, Expire, Stop, SessionCloses, vars, poolVars, LockLive
<1>8. CASE \E a \in Machines : Crash(a)
  BY <1>8, WebAssumption DEF Crash, LockLive, HasLock
<1> QED BY <1>1, <1>2, <1>3, <1>5, <1>6, <1>7, <1>8 DEF Next, Step

(* What a failed unlock leaves is a session of a replica that is up, and a  *)
(* tick that runs in the meantime is that replica's.                        *)
OrphanLive ==
  /\ \A q \in Slots : pc[q] \in Locking => job[q].at \in up
  /\ orphan # NoSlot => orphan \in up /\ (lock # NoSlot => job[lock].at = orphan)

LEMMA OrphanStays ==
  ASSUME Typed, LockLive, OrphanLive, NEW q \in Slots, NEW label, NEW j, Become(q, label, j),
         UNCHANGED <<lock, orphan>>, up \subseteq up',
         label \in Locking => j.at \in up, pc[q] \in HasLock => j.at = job[q].at
  PROVE  OrphanLive'
<1>1. \A p \in Slots : pc'[p] \in Locking => job'[p].at \in up'
  BY OneSlot DEF OrphanLive
<1>2. lock # NoSlot => job'[lock].at = job[lock].at
  BY OneSlot DEF LockLive
<1> QED BY <1>1, <1>2 DEF OrphanLive, Locking

LEMMA OrphanTick ==
  ASSUME Typed, PoolInv, LockLive, OrphanLive, NEW q \in Slots,
         \/ TryLock(q) \/ Checkpoint(q) \/ Saved(q) \/ Unlock(q) \/ UnlockFails(q)
  PROVE  OrphanLive'
<1>1. pc[q] \in Locking /\ job[q].at \in up /\ up' = up
  BY DEF OrphanLive, Locking, memory, TryLock, Checkpoint, Saved, Unlock, UnlockFails
<1>2. CASE Become(q, "tick", job[q]) /\ lock' = q /\ orphan \in {NoSlot, job[q].at}
             /\ orphan' = orphan
  <2>1. \A p \in Slots : pc'[p] \in Locking => job'[p].at \in up
    BY <1>1, <1>2, OneSlot DEF OrphanLive
  <2>2. job'[q] = job[q]
    BY <1>2, OneSlot
  <2> QED BY <1>1, <1>2, <2>1, <2>2 DEF OrphanLive, Locking
<1>3. CASE /\ UNCHANGED <<lock, orphan>>
           /\ \/ Become(q, "idle", NoJob) /\ pc[q] = "lock"
              \/ \E label : Become(q, label, job[q])
  <2>1. PICK label, j : /\ Become(q, label, j) /\ (label \in Locking => j.at = job[q].at)
                        /\ (pc[q] \in HasLock => j.at = job[q].at)
    BY <1>3 DEF Locking, HasLock
  <2> QED BY <1>1, <1>3, <2>1, OrphanStays
<1>4. CASE Unlock(q) \/ UnlockFails(q)
  <2>1. Become(q, "idle", NoJob) /\ lock' = NoSlot /\ orphan' \in {orphan, job[q].at}
    BY <1>4 DEF Unlock, UnlockFails, Answer
  <2>2. \A p \in Slots : pc'[p] \in Locking => job'[p].at \in up
    BY <1>1, <2>1, OneSlot DEF OrphanLive, Locking
  <2> QED BY <1>1, <2>1, <2>2 DEF OrphanLive, Locking
<1>5. CASE Checkpoint(q) \/ Saved(q)
  BY <1>3, <1>5 DEF Checkpoint, Saved, Goto
<1> QED BY <1>2, <1>3, <1>4, <1>5 DEF TryLock, Goto, Answer

LEMMA OrphanStep == Typed /\ PoolInv /\ LockLive /\ OrphanLive /\ [Next]_vars => OrphanLive'
<1> SUFFICES ASSUME Typed, PoolInv, LockLive, OrphanLive, [Next]_vars PROVE OrphanLive'
  OBVIOUS
<1>1. ASSUME NEW q \in Slots, UNCHANGED <<lock, orphan>>, up \subseteq up',
             pc[q] \notin HasLock, \E label, j : Become(q, label, j) /\ label \notin Locking
      PROVE  OrphanLive'
  BY <1>1, OrphanStays
<1>2. ASSUME NEW q \in Slots,
             \/ Mint(q) \/ StartPop(q) \/ Consent(q) \/ PutBack(q) \/ CallbackPop(q)
             \/ Exchange(q) \/ Truncate(q) \/ Write(q) \/ Reload(q) \/ Notify(q)
             \/ Probe(q) \/ Load(q) \/ Refresh(q) \/ Serve(q) \/ TickOnce(q)
             \/ InstalledFlow(q) \/ ExchangeFails(q) \/ RefreshFails(q)
      PROVE  OrphanLive'
  <2>1. UNCHANGED <<lock, orphan>> /\ up \subseteq up' /\ pc[q] \notin HasLock
    BY <1>2 DEF HasLock, poolVars, memory, Mint, StartPop, Consent, PutBack, CallbackPop,
         Exchange, Truncate, Write, Reload, Notify, Probe, Load, Refresh, Serve, TickOnce,
         InstalledFlow, ExchangeFails, RefreshFails
  <2> DEFINE Bare == {"idle", "consent", "putback", "exchange", "persist", "write", "reload",
                      "told", "refresh", "installed flow", "serve", "tick once"}
  <2>2. \E label \in Bare : \E j : Become(q, label, j)
    <3>1. CASE \/ Mint(q) \/ StartPop(q) \/ PutBack(q) \/ Truncate(q) \/ Write(q) \/ Reload(q)
               \/ Notify(q) \/ Probe(q) \/ Refresh(q) \/ Serve(q) \/ TickOnce(q)
               \/ ExchangeFails(q) \/ RefreshFails(q)
      <4>1. Answer(q) \/ \E label \in Bare : Goto(q, label)
        BY <3>1 DEF Mint, StartPop, PutBack, Truncate, Write, Reload, Notify, Probe, Refresh,
             Serve, TickOnce, ExchangeFails, RefreshFails
      <4> QED BY <4>1 DEF Answer, Goto
    <3>2. CASE Consent(q) \/ CallbackPop(q) \/ Exchange(q) \/ InstalledFlow(q)
      BY <3>2 DEF Consent, CallbackPop, Exchange, InstalledFlow, Answer
    <3>3. CASE Load(q)
      BY <3>3 DEF Load, Answer, Goto
    <3> QED BY <1>2, <3>1, <3>2, <3>3
  <2>3. \A label \in Bare : label \notin Locking
    BY DEF Locking
  <2> HIDE DEF Bare
  <2> QED BY <2>1, <2>2, <2>3, <1>1
<1>3. ASSUME NEW q \in Slots,
             TryLock(q) \/ Checkpoint(q) \/ Saved(q) \/ Unlock(q) \/ UnlockFails(q)
      PROVE  OrphanLive'
  BY <1>3, OrphanTick
<1>4. ASSUME NEW q \in Slots, PoolTimeout(q) PROVE OrphanLive'
  <2>1. /\ UNCHANGED <<lock, orphan, up>>
        /\ IF pc[q] = "checkpoint" THEN Goto(q, "unlock") ELSE Answer(q)
    BY <1>4 DEF PoolTimeout, memory
  <2>2. CASE pc[q] = "checkpoint"
    <3>1. Become(q, "unlock", job[q]) /\ job[q].at \in up
      BY <2>1, <2>2 DEF Goto, OrphanLive, Locking
    <3> QED BY <2>1, <3>1, OrphanStays
  <2>3. CASE pc[q] # "checkpoint"
    <3>1. Become(q, "idle", NoJob) /\ pc[q] \notin HasLock
      BY <1>4, <2>1, <2>3, TimedOutLabel DEF Answer
    <3> QED BY <2>1, <3>1, <1>1 DEF Locking
  <2> QED BY <2>2, <2>3
<1>5. ASSUME NEW q \in Slots, NEW r \in Replicas,
             \/ Reauth(q, r) \/ Start(q, r) \/ Callback(q, r) \/ Poll(q, r) \/ Healthz(q, r)
      PROVE  OrphanLive'
  <2>1. UNCHANGED <<lock, orphan, up>> /\ r \in up
    BY <1>5 DEF memory, Reauth, Start, Callback, Poll, Healthz
  <2>2. PICK k, label, csrf, code : Arrives(q, k, r, label, csrf, code)
    BY <1>5 DEF Reauth, Start, Callback, Poll, Healthz
  <2> DEFINE j == [NoJob EXCEPT !.kind = k, !.at = r, !.csrf = csrf, !.code = code]
  <2>3. pc[q] \notin HasLock /\ Become(q, label, j) /\ j.at = r
    BY <2>2 DEF Arrives, HasLock, NoJob
  <2> HIDE DEF j
  <2> QED BY <2>1, <2>3, OrphanStays
<1>6. ASSUME NEW q \in Slots, Run(q) \/ Cli(q) \/ \E r \in Replicas : Boot(q, r)
      PROVE  OrphanLive'
  <2>1. UNCHANGED <<lock, orphan, up>>
    BY <1>6 DEF poolVars, memory, Run, Cli, Boot
  <2>2. \E label \in {"load", "installed flow"} : \E j :
          pc[q] \notin HasLock /\ Become(q, label, j)
    BY <1>6 DEF Run, Cli, Boot, Arrives, HasLock
  <2> QED BY <2>1, <2>2, <1>1 DEF Locking
<1>7. CASE \/ \E k \in Kinds : Refused(k)
           \/ \E s \in Flows : Expire(s)
           \/ UNCHANGED vars
  BY <1>7 DEF Refused, Expire, vars, poolVars, memory, OrphanLive
<1>8. CASE SessionCloses
  BY <1>8 DEF SessionCloses, memory, OrphanLive
<1>9. ASSUME NEW r \in Replicas, Stop(r) PROVE OrphanLive'
  <2>1. /\ UNCHANGED <<lock, pc, job>> /\ up' = up \ {r} /\ \A p \in Slots : job[p].at # r
        /\ orphan' = IF orphan = r THEN NoSlot ELSE orphan
    BY <1>9 DEF Stop
  <2>2. \A q \in Slots : pc'[q] \in Locking => job'[q].at \in up'
    BY <2>1 DEF OrphanLive
  <2>3. orphan' # NoSlot => orphan \in up /\ orphan # r /\ orphan' = orphan
    BY <2>1 DEF OrphanLive
  <2> QED BY <2>1, <2>2, <2>3 DEF OrphanLive, Locking
<1>10. ASSUME NEW a \in Machines, Crash(a) PROVE OrphanLive'
  <2> DEFINE dead == {q \in Slots : pc[q] # "idle" /\ job[q].at = a}
  <2>1. /\ \A q \in dead : pc'[q] = "idle"
        /\ \A q \in Slots \ dead : pc'[q] = pc[q] /\ job'[q] = job[q]
    BY <1>10 DEF Crash
  <2>2. /\ up' = up \ {a} /\ lock' = IF lock \in dead THEN NoSlot ELSE lock
        /\ orphan' = IF orphan = a THEN NoSlot ELSE orphan
    BY <1>10 DEF Crash
  <2>3. \A q \in Slots : pc'[q] \in Locking => job'[q].at \in up'
    BY <2>1, <2>2 DEF OrphanLive, Locking
  <2>4. lock' # NoSlot => job'[lock'] = job[lock]
    BY <2>1, <2>2 DEF LockLive
  <2> HIDE DEF dead
  <2> QED BY <2>2, <2>3, <2>4 DEF OrphanLive
<1> QED BY <1>2, <1>3, <1>4, <1>5, <1>6, <1>7, <1>8, <1>9, <1>10 DEF Next, Step

(* Whoever has the tick lock can give it back.  A tick that has it runs on  *)
(* on a connection in use.  After an unlock that failed a session of the    *)
(* pool keeps it: its replica is up, so that the pool will retire the       *)
(* session, and no tick of another replica runs until then.                 *)
THEOREM LockAccountedFor == Spec => []LockHeld
<1>1. Init => LockLive /\ OrphanLive
  BY DEF Init, LockLive, OrphanLive, Locking
<1>2. FlowInv => Typed
  BY DEF FlowInv
<1>3. PoolInv /\ LockLive /\ OrphanLive => LockHeld
  BY DEF PoolInv, Ticking, LockLive, OrphanLive, LockHeld, HasLock, Locking
<1> QED BY <1>1, <1>2, <1>3, LockStep, OrphanStep, FlowAlways, PoolAlways, PTL DEF Spec

(* Every variable keeps its type and no pool lends more connections than it *)
(* has, through every interleaving of requests, timeouts and crashes.       *)
THEOREM TypeCorrect == Spec => []TypeOK
<1>1. FlowInv /\ PoolInv /\ LockHeld /\ Rest => TypeOK
  <2> SUFFICES ASSUME FlowInv, PoolInv, LockHeld, Rest PROVE TypeOK
    OBVIOUS
  <2>1. Typed
    BY DEF FlowInv
  <2>2. /\ held \subseteq Conns /\ waiting \in [Replicas -> Seq(Conns)]
        /\ \A r \in Replicas : Cardinality(InUse(r)) <= PoolSize
    BY DEF PoolInv, Discipline, InOrder
  <2>3. minted \subseteq Nat /\ spent \subseteq Nat
    BY <2>1, WebAssumption DEF Typed
  <2>4. pages \subseteq [csrf : Nat, verifier : Nat]
    <3>1. 0 .. verifiers \subseteq Nat
      BY <2>1 DEF Typed
    <3> QED BY <2>1, <2>3, <3>1 DEF Typed
  <2>5. orphan \in Replicas \cup {NoSlot}
    BY DEF LockHeld, Rest
  <2> QED BY <2>1, <2>2, <2>3, <2>4, <2>5 DEF TypeOK, Typed, Rest, Rows
<1> QED BY <1>1, FlowAlways, PoolAlways, LockAccountedFor, RestAlways, PTL
=============================================================================
