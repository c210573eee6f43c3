-------------------------- MODULE StreamPoolProofs --------------------------
(***************************************************************************)
(* The pool of workers for every number of topics and workers and every    *)
(* cap: the streams it knows stay within MAX_STREAMS, and are divided      *)
(* among its workers.                                                      *)
(***************************************************************************)
EXTENDS StreamPool, TLAPS, FiniteSetTheorems, WellFoundedInduction

-----------------------------------------------------------------------------
(* Smallest elements *)

LEMMA LeastNat ==
    ASSUME NEW S \in SUBSET Nat, S # {}
    PROVE  \E x \in S : \A y \in S : x <= y
<1> DEFINE R == OpToRel(<, Nat)
<1>1. IsWellFoundedOn(R, Nat)
  BY NatLessThanWellFounded
<1> HIDE DEF R
<1>2. PICK x \in S : \A y \in S : ~(<<y, x>> \in R)
  BY <1>1, WFMin
<1>3. ASSUME NEW y \in S PROVE x <= y
  <2>1. y < x => <<y, x>> \in R
    BY DEF R, OpToRel
  <2> QED BY <1>2, <2>1
<1> QED BY <1>3

LEMMA MinIsMember ==
    ASSUME NEW S \in SUBSET Nat, S # {}
    PROVE  Min(S) \in S
BY LeastNat DEF Min

LEMMA KeysAreFinite ==
    ASSUME NEW S \in SUBSET Keys
    PROVE  IsFiniteSet(S) /\ Cardinality(S) \in Nat /\ S \in SUBSET Nat
<1>1. Unknown \in Nat
  BY PoolBounds DEF Unknown
<1>2. IsFiniteSet(Keys) /\ Keys \subseteq Nat
  BY <1>1, FS_Interval DEF Keys
<1>3. IsFiniteSet(S)
  BY <1>2, FS_Subset
<1> QED BY <1>2, <1>3, FS_CardinalityType

LEMMA KeyFacts ==
    /\ Default \in Keys /\ Unknown \in Keys
    /\ TriggerTopics \subseteq Keys /\ Topics \subseteq Keys
    /\ Workers # {} /\ Workers \subseteq Nat
<1>1. Default \in Keys /\ Unknown \in Keys
  BY PoolBounds DEF Keys, Default, Unknown
<1>2. Topics \subseteq Keys
  BY PoolBounds DEF Keys, Unknown, Topics
<1>3. TriggerTopics \subseteq Keys
  BY <1>2, PoolBounds DEF Topics
<1>4. 1 \in Workers /\ Workers \subseteq Nat
  BY PoolBounds DEF Workers
<1> QED BY <1>1, <1>2, <1>3, <1>4

-----------------------------------------------------------------------------
(* The sorted order of a set of streams *)

LEMMA RankIsNat ==
    ASSUME NEW S \in SUBSET Keys, NEW k
    PROVE  Rank(k, S) \in Nat
<1>1. {j \in S : j < k} \in SUBSET Keys
  OBVIOUS
<1> QED BY <1>1, KeysAreFinite DEF Rank

\* Two streams have different places.
LEMMA RankIsStrict ==
    ASSUME NEW S \in SUBSET Keys, NEW j \in S, NEW k \in S, j < k
    PROVE  Rank(j, S) < Rank(k, S)
<1> DEFINE A == {i \in S : i < j}
           B == {i \in S : i < k}
<1>0. S \subseteq Nat
  BY KeysAreFinite
<1>1. A \in SUBSET B /\ j \in B /\ j \notin A
  <2>1. ASSUME NEW i \in S, i < j PROVE i < k
    BY <1>0, <2>1
  <2>2. ~(j < j)
    BY <1>0
  <2> QED BY <2>1, <2>2
<1>2. IsFiniteSet(A) /\ IsFiniteSet(B) /\ Cardinality(A) \in Nat /\ Cardinality(B) \in Nat
  <2>1. A \in SUBSET Keys /\ B \in SUBSET Keys
    OBVIOUS
  <2> QED BY <2>1, KeysAreFinite
<1> HIDE DEF A, B
<1>3. Cardinality(A) <= Cardinality(B) /\ (Cardinality(B) = Cardinality(A) => B = A)
  BY <1>1, <1>2, FS_Subset
<1>4. Cardinality(A) < Cardinality(B)
  BY <1>1, <1>2, <1>3
<1> QED BY <1>4 DEF Rank, A, B

\* The first streams of a set are as many as they should be.
LEMMA StartStreamsAreCapped ==
    ASSUME NEW S \in SUBSET Keys
    PROVE  /\ StartStreams(S) \in SUBSET Keys
           /\ Cardinality(StartStreams(S)) <= MaxStreams
<1>1. CASE S = {}
  <2>1. Cardinality({Default}) = 1
    BY FS_Singleton
  <2> QED BY <1>1, <2>1, KeyFacts, PoolBounds DEF StartStreams
<1>2. CASE S # {}
  <2> DEFINE F == {k \in S : Rank(k, S) < MaxStreams}
             T == 0..(MaxStreams - 1)
             f == [k \in F |-> Rank(k, S)]
  <2>m. MaxStreams \in Nat \ {0}
    BY PoolBounds
  <2>1. F \in SUBSET Keys /\ S \subseteq Nat
    BY KeysAreFinite
  <2>2. f \in [F -> T]
    BY <2>m, RankIsNat
  <2>3. ASSUME NEW j \in F, NEW k \in F, f[j] = f[k] PROVE j = k
    <3>1. Rank(j, S) = Rank(k, S) /\ Rank(j, S) \in Nat
      BY <2>3, RankIsNat
    <3>2. ~(j < k)
      BY <3>1, RankIsStrict
    <3>3. ~(k < j)
      BY <3>1, RankIsStrict
    <3> QED BY <2>1, <3>2, <3>3
  <2>4. f \in Injection(F, T)
    BY <2>2, <2>3 DEF Injection, IsInjective
  <2>5. IsFiniteSet(T) /\ Cardinality(T) = MaxStreams
    BY <2>m, FS_Interval
  <2> HIDE DEF F, T, f
  <2>6. Cardinality(F) <= Cardinality(T)
    BY <2>4, <2>5, FS_Injection
  <2>7. StartStreams(S) = F
    BY <1>2 DEF StartStreams, F
  <2> QED BY <2>1, <2>5, <2>6, <2>7
<1> QED BY <1>1, <1>2

\* Round-robin divides a set of streams among the workers.
LEMMA PartitionDivides ==
    ASSUME NEW S \in SUBSET Keys
    PROVE  /\ Partition(S) \in [Workers -> SUBSET Keys]
           /\ \A v, w \in Workers : v # w => Partition(S)[v] \cap Partition(S)[w] = {}
           /\ UNION {Partition(S)[w] : w \in Workers} = S
<1>0. Workers \subseteq Nat \ {0} /\ NumWorkers \in Nat \ {0}
  BY PoolBounds DEF Workers
<1>1. Partition(S) \in [Workers -> SUBSET Keys]
  BY DEF Partition
<1>2. ASSUME NEW v \in Workers, NEW w \in Workers, v # w
      PROVE  Partition(S)[v] \cap Partition(S)[w] = {}
  BY <1>0, <1>2 DEF Partition
<1>3. ASSUME NEW k \in S PROVE \E w \in Workers : k \in Partition(S)[w]
  <2>1. Rank(k, S) % NumWorkers \in 0..(NumWorkers - 1)
    BY <1>0, RankIsNat
  <2>2. PICK w \in Workers : Rank(k, S) % NumWorkers = w - 1
    BY <1>0, <2>1 DEF Workers
  <2> QED BY <2>2 DEF Partition
<1>4. \A w \in Workers : Partition(S)[w] \subseteq S
  BY DEF Partition
<1>5. UNION {Partition(S)[w] : w \in Workers} = S
  BY <1>3, <1>4
<1> QED BY <1>1, <1>2, <1>5

-----------------------------------------------------------------------------
(* The least loaded worker *)

LEMMA LeastLoadedIsLeast ==
    ASSUME assigned \in [Workers -> SUBSET Keys]
    PROVE  LeastLoaded \in Workers /\ \A v \in Workers : Load(LeastLoaded) <= Load(v)
<1>0. \A w \in Workers : Load(w) \in Nat
  BY KeysAreFinite DEF Load
<1>1. {Load(w) : w \in Workers} \in SUBSET Nat /\ {Load(w) : w \in Workers} # {}
  BY <1>0, KeyFacts
<1>2. PICK n \in {Load(w) : w \in Workers} : \A y \in {Load(w) : w \in Workers} : n <= y
  BY <1>1, LeastNat
<1>3. PICK w \in Workers : n = Load(w)
  BY <1>2
<1> DEFINE S == {u \in Workers : \A v \in Workers : Load(u) <= Load(v)}
<1>4. w \in S
  BY <1>2, <1>3
<1>5. S \in SUBSET Nat /\ S # {}
  BY <1>4, KeyFacts
<1>6. LeastLoaded = Min(S)
  BY DEF LeastLoaded
<1>7. Min(S) \in S
  BY <1>5, MinIsMember
<1> QED BY <1>6, <1>7

-----------------------------------------------------------------------------
(* The pool *)

\* What the discovery has in hand is new to the pool, and a process that does not
\* run has nothing in hand.
TodoIsNew == todo \cap known = {} /\ (phase = "off" => todo = {})

PoolInv == TypeOK /\ PoolPartition /\ TodoIsNew

\* Steps of others leave the pool as it is.
LEMMA PoolFrame ==
    ASSUME PoolInv, UNCHANGED <<phase, known, assigned>>, todo' \cap known = {},
           phase = "off" => todo' = {}
    PROVE  PoolPartition' /\ TodoIsNew'
BY DEF PoolInv, PoolPartition, TodoIsNew, Read, AtWorkerCap, Load

LEMMA BootKeeps ==
    ASSUME PoolInv, Boot
    PROVE  PoolInv'
<1>1. PICK found \in Reads(redis, "scan"), index \in Reads(active, "db") :
        /\ published' = found /\ procIndex' = index /\ poolIndex' = index
        /\ cache' = IF index = active THEN active ELSE None
        /\ known' = StartStreams(found \cup index)
        /\ assigned' = Partition(StartStreams(found \cup index))
  BY DEF Boot
<1>2. /\ phase = "off" /\ phase' = "running" /\ worker' = [w \in Workers |-> "up"]
      /\ UNCHANGED <<redis, unread, todo, fetched, active, edits>>
  BY DEF Boot, tableVars
<1>3. found \in SUBSET Keys /\ index \in SUBSET TriggerTopics
  BY DEF Reads, PoolInv, TypeOK
<1>4. PICK streams \in SUBSET Keys : streams = StartStreams(found \cup index)
  BY <1>3, KeyFacts, StartStreamsAreCapped
<1>5. Cardinality(streams) <= MaxStreams
  BY <1>3, <1>4, KeyFacts, StartStreamsAreCapped
<1>6. known' = streams /\ assigned' = Partition(streams)
  BY <1>1, <1>4
<1>a. assigned' \in [Workers -> SUBSET Keys]
  BY <1>6, PartitionDivides
<1>b. cache' \in (SUBSET TriggerTopics) \cup {None}
  BY <1>1, <1>3
<1>c. worker' \in [Workers -> {"off", "up", "down"}]
  BY <1>2
<1>7. TypeOK'
  BY <1>1, <1>2, <1>3, <1>5, <1>6, <1>a, <1>b, <1>c DEF PoolInv, TypeOK
<1>8. PoolPartition'
  <2>1. Read' = known'
    BY <1>6, PartitionDivides DEF Read
  <2>2. \A v, w \in Workers : v # w => assigned'[v] \cap assigned'[w] = {}
    BY <1>6, PartitionDivides
  <2> QED BY <2>1, <2>2 DEF PoolPartition
<1>9. TodoIsNew'
  BY <1>2 DEF PoolInv, TodoIsNew
<1> QED BY <1>7, <1>8, <1>9 DEF PoolInv

LEMMA EndKeeps ==
    ASSUME PoolInv, End
    PROVE  PoolInv'
<1>1. /\ phase' = "off" /\ known' = {} /\ todo' = {} /\ assigned' = Idle
      /\ worker' = Ended /\ published' = {} /\ cache' = None /\ fetched' = None
      /\ poolIndex' = {} /\ procIndex' = {} /\ UNCHANGED <<redis, unread, active, edits>>
  BY DEF End, tableVars
<1>2. Cardinality({}) <= MaxStreams
  BY FS_EmptySet, PoolBounds
<1>3. TypeOK'
  BY <1>1, <1>2 DEF PoolInv, TypeOK, Idle, Ended
<1>4. Read' = {}
  BY <1>1 DEF Read, Idle
<1>5. PoolPartition'
  BY <1>1, <1>4 DEF PoolPartition, Idle
<1> QED BY <1>1, <1>3, <1>5 DEF PoolInv, TodoIsNew

LEMMA DiscoverNextKeeps ==
    ASSUME PoolInv, DiscoverNext
    PROVE  PoolInv'
<1>t. /\ phase = "running" /\ todo # {} /\ assigned \in [Workers -> SUBSET Keys]
      /\ UNCHANGED <<phase, redis, unread, published, worker, cache, fetched, poolIndex,
                     procIndex, active, edits>>
  BY DEF DiscoverNext, PoolInv, TypeOK, busVars, indexVars, tableVars
<1>1. CASE todo' = {} /\ UNCHANGED <<known, assigned>>
  <2>1. PoolPartition' /\ TodoIsNew'
    BY <1>t, <1>1, PoolFrame
  <2>2. TypeOK'
    BY <1>t, <1>1 DEF PoolInv, TypeOK
  <2> QED BY <2>1, <2>2 DEF PoolInv
<1>2. CASE /\ Cardinality(known) < MaxStreams
           /\ AddStream(Min(todo))
           /\ known' = known \cup {Min(todo)} /\ todo' = todo \ {Min(todo)}
  <2>0. todo \in SUBSET Keys /\ known \in SUBSET Keys
    BY DEF PoolInv, TypeOK
  <2>1. PICK k \in todo : k = Min(todo)
    BY <1>t, <2>0, KeysAreFinite, MinIsMember
  <2>2. k \in Keys /\ k \notin known /\ known' = known \cup {k} /\ todo' = todo \ {k}
        /\ AddStream(k)
    BY <1>2, <2>0, <2>1 DEF PoolInv, TodoIsNew
  <2>3. Cardinality(known') <= MaxStreams
    <3>1. IsFiniteSet(known) /\ Cardinality(known) \in Nat
      BY <2>0, KeysAreFinite
    <3>2. Cardinality(known \cup {k}) = Cardinality(known) + 1
      BY <2>2, <3>1, FS_AddElement
    <3> QED BY <1>2, <2>2, <3>1, <3>2, PoolBounds
  <2>4. PICK w \in Workers : w = LeastLoaded
    BY <1>t, LeastLoadedIsLeast
  <2>5. \A v \in Workers : Load(w) <= Load(v) /\ Load(v) \in Nat
    BY <1>t, <2>4, LeastLoadedIsLeast, KeysAreFinite DEF Load
  <2>6. TodoIsNew'
    BY <1>t, <2>2 DEF PoolInv, TodoIsNew
  <2>7. CASE Load(w) >= MaxPerWorker
    <3>1. assigned' = assigned
      BY <2>2, <2>4, <2>7 DEF AddStream
    <3>2. AtWorkerCap
      BY <2>5, <2>7, PoolBounds DEF AtWorkerCap
    <3>3. AtWorkerCap' /\ Read' = Read
      BY <3>1, <3>2 DEF AtWorkerCap, Load, Read
    <3>4. PoolPartition'
      BY <2>2, <3>1, <3>3 DEF PoolInv, PoolPartition
    <3>5. TypeOK'
      BY <1>t, <2>0, <2>2, <2>3, <3>1 DEF PoolInv, TypeOK
    <3> QED BY <2>6, <3>4, <3>5 DEF PoolInv
  <2>8. CASE ~(Load(w) >= MaxPerWorker)
    <3>1. assigned' = [assigned EXCEPT ![w] = @ \cup {k}]
      BY <2>2, <2>4, <2>8 DEF AddStream
    <3>2. assigned'[w] = assigned[w] \cup {k}
          /\ \A v \in Workers : v # w => assigned'[v] = assigned[v]
      BY <1>t, <3>1
    <3>3. Read = known
      BY <1>t, <2>8 DEF PoolInv, PoolPartition, AtWorkerCap
    <3>4. \A v \in Workers : k \notin assigned[v]
      BY <2>2, <3>3 DEF Read
    <3>5. Read' = Read \cup {k}
      BY <3>2 DEF Read
    <3>6. \A u, v \in Workers : u # v => assigned'[u] \cap assigned'[v] = {}
      BY <3>2, <3>4 DEF PoolInv, PoolPartition
    <3>7. PoolPartition'
      BY <2>2, <3>3, <3>5, <3>6 DEF PoolPartition
    <3>8. TypeOK'
      BY <1>t, <2>0, <2>2, <2>3, <3>1 DEF PoolInv, TypeOK
    <3> QED BY <2>6, <3>7, <3>8 DEF PoolInv
  <2> QED BY <2>7, <2>8
<1> QED BY <1>1, <1>2 DEF DiscoverNext

\* Steps that concern neither the streams of the pool nor its process.
LEMMA OtherKeeps ==
    ASSUME PoolInv, UNCHANGED <<phase, known, assigned>>, TypeOK',
           todo' = todo \/ (todo' = redis \ known /\ phase = "running")
    PROVE  PoolInv'
<1>1. todo' \cap known = {} /\ (phase = "off" => todo' = {})
  BY DEF PoolInv, TodoIsNew
<1> QED BY <1>1, PoolFrame DEF PoolInv

LEMMA BusKeeps ==
    ASSUME PoolInv,
           \/ Discover
           \/ \E k \in Topics \cup {Unknown} : Publish(k)
           \/ \E w \in Workers : Consume(w) \/ CrashWorker(w) \/ RestartWorker(w)
    PROVE  PoolInv'
<1>1. CASE Discover
  <2>1. TypeOK'
    BY <1>1 DEF Discover, PoolInv, TypeOK, busVars, indexVars, tableVars
  <2> QED BY <1>1, <2>1, OtherKeeps DEF Discover
<1>2. ASSUME NEW k \in Topics \cup {Unknown}, Publish(k) PROVE PoolInv'
  <2>1. k \in Keys /\ CheckStreamCap(k) \in Keys
    BY KeyFacts DEF CheckStreamCap
  <2>2. /\ published' \in {published, published \cup {k}}
        /\ redis' = redis \cup {CheckStreamCap(k)} /\ unread' = unread \cup {CheckStreamCap(k)}
        /\ UNCHANGED <<phase, known, assigned, worker, todo, cache, fetched, poolIndex,
                       procIndex, active, edits>>
    BY <1>2 DEF Publish, poolVars, indexVars, tableVars
  <2>3. TypeOK'
    BY <2>1, <2>2 DEF PoolInv, TypeOK
  <2>4. UNCHANGED <<phase, known, assigned>> /\ todo' = todo
    BY <2>2
  <2> QED BY <2>3, <2>4, OtherKeeps
<1>3. ASSUME NEW w \in Workers, Consume(w) PROVE PoolInv'
  <2>1. /\ redis' = redis \cup assigned[w] /\ unread' = unread \ assigned[w]
        /\ UNCHANGED <<phase, published, known, assigned, worker, todo, cache, fetched,
                       poolIndex, procIndex, active, edits>>
    BY <1>3 DEF Consume, poolVars, indexVars, tableVars
  <2>2. assigned[w] \subseteq Keys
    BY DEF PoolInv, TypeOK
  <2>3. TypeOK'
    BY <2>1, <2>2 DEF PoolInv, TypeOK
  <2>4. UNCHANGED <<phase, known, assigned>> /\ todo' = todo
    BY <2>1
  <2> QED BY <2>3, <2>4, OtherKeeps
<1>4. ASSUME NEW w \in Workers, CrashWorker(w) \/ RestartWorker(w) PROVE PoolInv'
  <2>1. TypeOK'
    BY <1>4 DEF CrashWorker, RestartWorker, PoolInv, TypeOK, busVars, indexVars, tableVars
  <2> QED BY <1>4, <2>1, OtherKeeps DEF CrashWorker, RestartWorker
<1> QED BY <1>1, <1>2, <1>3, <1>4

LEMMA IndexKeeps ==
    ASSUME PoolInv,
           \/ Expire \/ RefreshQuery \/ RefreshStore \/ RefreshFails
           \/ \E t \in TriggerTopics : Edit(t)
    PROVE  PoolInv'
<1>1. UNCHANGED <<phase, redis, unread, published, known, assigned, worker, todo>>
  BY DEF Expire, RefreshQuery, RefreshStore, RefreshFails, Edit, busVars, poolVars
<1>2. Expire => TypeOK'
  BY <1>1 DEF Expire, PoolInv, TypeOK, tableVars
<1>3. RefreshQuery => TypeOK'
  BY <1>1 DEF RefreshQuery, PoolInv, TypeOK, tableVars
<1>4. RefreshStore => TypeOK'
  BY <1>1 DEF RefreshStore, Stored, PoolInv, TypeOK, tableVars
<1>5. RefreshFails => TypeOK'
  BY <1>1 DEF RefreshFails, PoolInv, TypeOK, tableVars
<1>6. ASSUME NEW t \in TriggerTopics, Edit(t) PROVE TypeOK'
  <2>1. active' \subseteq TriggerTopics /\ edits' \in 0..MaxEdits /\ cache' \in {cache, None}
        /\ UNCHANGED <<fetched, poolIndex, procIndex>>
    BY <1>6, PoolBounds DEF Edit, PoolInv, TypeOK
  <2> QED BY <1>1, <2>1 DEF PoolInv, TypeOK
<1>7. UNCHANGED <<phase, known, assigned>> /\ todo' = todo
  BY <1>1
<1>8. TypeOK'
  BY <1>2, <1>3, <1>4, <1>5, <1>6
<1> QED BY <1>7, <1>8, OtherKeeps

\* What the pool reads and knows, through crashes of workers, restarts of the
\* process and discoveries.
THEOREM PoolCorrect == Spec => []PoolInv
<1>1. Init => PoolInv
  <2> SUFFICES ASSUME Init PROVE PoolInv
    OBVIOUS
  <2>1. Cardinality({}) <= MaxStreams
    BY FS_EmptySet, PoolBounds
  <2>2. TypeOK
    BY <2>1, KeyFacts, PoolBounds DEF Init, TypeOK, Idle, Ended
  <2>3. Read = {}
    BY DEF Init, Read, Idle
  <2>4. PoolPartition /\ TodoIsNew
    BY <2>3 DEF Init, PoolPartition, TodoIsNew, Idle
  <2> QED BY <2>2, <2>4 DEF PoolInv
<1>2. PoolInv /\ [Next]_vars => PoolInv'
  <2> SUFFICES ASSUME PoolInv, [Next]_vars PROVE PoolInv'
    OBVIOUS
  <2>1. CASE UNCHANGED vars
    <3>1. TypeOK'
      BY <2>1 DEF vars, PoolInv, TypeOK, busVars, poolVars, indexVars, tableVars
    <3>2. UNCHANGED <<phase, known, assigned>> /\ todo' = todo
      BY <2>1 DEF vars, poolVars
    <3> QED BY <3>1, <3>2, OtherKeeps
  <2> QED BY <2>1, BootKeeps, EndKeeps, DiscoverNextKeeps, BusKeeps, IndexKeeps DEF Next
<1> QED BY <1>1, <1>2, PTL DEF Spec

\* The state of the process is well formed, and it never knows of more streams
\* than MAX_STREAMS, neither after a start nor after discoveries.
THEOREM PoolTypes == Spec => []TypeOK
<1>1. PoolInv => TypeOK
  BY DEF PoolInv
<1> QED BY <1>1, PoolCorrect, PTL

\* No stream has two readers, none is read that the pool does not know, and one it
\* knows lacks a reader only when every worker is full: _partition_streams and
\* add_stream divide the streams.
THEOREM StreamsAreDivided == Spec => []PoolPartition
<1>1. PoolInv => PoolPartition
  BY DEF PoolInv
<1> QED BY <1>1, PoolCorrect, PTL

-----------------------------------------------------------------------------
(* Readers and caches over time *)

\* While the process runs, a stream that was given to a worker stays with it: neither
\* a crash of the worker, nor a discovery, nor a full pool moves or drops it.
ReadersAreKept ==
    phase = "running" /\ phase' = "running" =>
        known \subseteq known' /\ \A w \in Workers : assigned[w] \subseteq assigned'[w]

\* With PoolPartition: the one reader that a stream has in a process is the same until
\* the process ends.
THEOREM ReadersStay == Spec => [][ReadersAreKept]_vars
<1>1. ASSUME PoolInv, Next PROVE ReadersAreKept
  <2> USE <1>1
  <2>1. ASSUME Boot \/ End PROVE ReadersAreKept
    BY <2>1 DEF Boot, End, ReadersAreKept
  <2>2. ASSUME DiscoverNext PROVE ReadersAreKept
    <3>1. assigned \in [Workers -> SUBSET Keys]
      BY DEF PoolInv, TypeOK
    <3>2. known \subseteq known'
          /\ \/ assigned' = assigned
             \/ \E k : assigned' = [assigned EXCEPT ![LeastLoaded] = @ \cup {k}]
      BY <2>2 DEF DiscoverNext, AddStream
    <3> QED BY <3>1, <3>2 DEF ReadersAreKept
  <2>3. ASSUME UNCHANGED <<known, assigned>> PROVE ReadersAreKept
    BY <2>3 DEF ReadersAreKept
  <2>4. ASSUME \/ Discover \/ Expire \/ RefreshQuery \/ RefreshStore \/ RefreshFails
               \/ \E k \in Topics \cup {Unknown} : Publish(k)
               \/ \E t \in TriggerTopics : Edit(t)
               \/ \E w \in Workers : Consume(w) \/ CrashWorker(w) \/ RestartWorker(w)
        PROVE  UNCHANGED <<known, assigned>>
    BY <2>4 DEF Discover, Expire, RefreshQuery, RefreshStore, RefreshFails, Publish, Edit,
                Consume, CrashWorker, RestartWorker, poolVars
  <2> QED BY <2>1, <2>2, <2>3, <2>4 DEF Next
<1> QED BY <1>1, PoolCorrect, PTL DEF Spec

\* A valid _active_triggers_cache holds what the workers' index holds: a maybe_refresh
\* that is answered from the cache changes nothing, although an edit elsewhere leaves
\* the cache as it is and a query that was overtaken fills it with an old answer.
CacheIsIndexed == cache # None => cache = poolIndex

\* Why one action for the refresh with a query is enough: the other one stutters.
THEOREM CacheAddsNothing == Spec => []CacheIsIndexed
<1>1. Init => CacheIsIndexed
  BY DEF Init, CacheIsIndexed
<1>2. ASSUME CacheIsIndexed, [Next]_vars PROVE CacheIsIndexed'
  <2> USE <1>2
  <2>1. ASSUME \/ Boot \/ End \/ Expire \/ RefreshStore
               \/ \E t \in TriggerTopics : Edit(t)
        PROVE  CacheIsIndexed'
    BY <2>1 DEF Boot, End, Expire, RefreshStore, Stored, Edit, CacheIsIndexed
  <2>2. ASSUME UNCHANGED <<cache, poolIndex>> PROVE CacheIsIndexed'
    BY <2>2 DEF CacheIsIndexed
  <2>3. ASSUME \/ UNCHANGED vars \/ Discover \/ DiscoverNext \/ RefreshQuery \/ RefreshFails
               \/ \E k \in Topics \cup {Unknown} : Publish(k)
               \/ \E w \in Workers : Consume(w) \/ CrashWorker(w) \/ RestartWorker(w)
        PROVE  UNCHANGED <<cache, poolIndex>>
    BY <2>3 DEF vars, Discover, DiscoverNext, RefreshQuery, RefreshFails, Publish, Consume,
                CrashWorker, RestartWorker, indexVars
  <2> QED BY <2>1, <2>2, <2>3 DEF Next
<1> QED BY <1>1, <1>2, PTL DEF Spec
=============================================================================
