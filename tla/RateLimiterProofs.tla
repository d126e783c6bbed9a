------------------------- MODULE RateLimiterProofs -------------------------
(***************************************************************************)
(* LimitHolds for any number of processes, threads, requests and events.   *)
(*                                                                         *)
(* The argument: whatever a place (Redis, or the memory of a process) let  *)
(* through in the window that ends now is still in its queue (QueueKeeps), *)
(* so a queue that is not full proves that the window is not. Windows that *)
(* end later hold no more than this one, and those that ended before       *)
(* change no more. When failures are counted, every request under way      *)
(* found room when it asked, and at most one is recorded for each thread   *)
(* (RoomForPending).                                                       *)
(***************************************************************************)
EXTENDS RateLimiter, FiniteSetTheorems, TLAPS

Place == Process \cup {"redis"}
Queue(s) == IF s = "redis" THEN redis ELSE memory[s]

(* Where a process counts while Redis does not fail, and who will record   *)
(* a failure there.                                                        *)
PlaceOf(p) == IF p \in shared THEN "redis" ELSE p
PendingOn(s) == {t \in pending : PlaceOf(ProcessOf[t]) = s}

Event == [at : Nat, store : Place]

TypeInv ==
  /\ usage \in {"hit", "failures"}
  /\ shared \in SUBSET Process
  /\ clock \in Nat
  /\ redis \subseteq DOMAIN events
  /\ memory \in [Process -> SUBSET DOMAIN events]
  /\ pending \subseteq Thread
  /\ events \in Seq(Event)
  /\ flaky \in BOOLEAN

EventsPast == \A i \in DOMAIN events : events[i].at <= clock /\ events[i].store \in Stores

QueueKeeps == \A s \in Place : InWindowOf(clock, s) \subseteq Queue(s)

HitsBounded ==
  usage = "hit" => \A end \in Nat, s \in Place :
                     Cardinality(InWindowOf(end, s)) <= MaxEvents

Excess == MaxEvents + Cardinality(Thread) - 1

FailuresBounded ==
  usage = "failures" /\ ~flaky =>
    \A end \in Nat, s \in Place : Cardinality(InWindowOf(end, s)) <= Excess

RoomForPending ==
  usage = "failures" /\ ~flaky =>
    \A s \in Place : PendingOn(s) # {} =>
      Cardinality(InWindowOf(clock, s)) + Cardinality(PendingOn(s)) <= Excess

OnlyFailuresPend == usage = "hit" => pending = {}

IInv ==
  /\ TypeInv
  /\ EventsPast
  /\ QueueKeeps
  /\ HitsBounded
  /\ FailuresBounded
  /\ RoomForPending
  /\ OnlyFailuresPend

-----------------------------------------------------------------------------
(* One call on the limiter, the same on Redis and in memory                *)

Kept(s) == IF s = "redis" THEN Trimmed(redis) ELSE Pruned(memory[s])

SetQueue(s, q) ==
  /\ redis' = IF s = "redis" THEN q ELSE redis
  /\ memory' = [p \in Process |-> IF p = s THEN q ELSE memory[p]]

Looked(s) == SetQueue(s, Kept(s)) /\ UNCHANGED events
Counted(s) == SetQueue(s, Kept(s) \cup {New}) /\ Let(s)

(* The process p makes its call at the place s. *)
At(s, p) == IF s = "redis" THEN OnRedis(p) ELSE s = p /\ OnMemory(p)

(* What is done on Redis, and what is done in the memory of p.             *)
LEMMA RedisShape ==
  ASSUME TypeInv, NEW q, redis' = q, UNCHANGED memory
  PROVE  SetQueue("redis", q)
<1>1. \A p \in Process : p # "redis"
  BY RateLimiterAssumption
<1> QED
  BY <1>1 DEF SetQueue, TypeInv

LEMMA MemoryShape ==
  ASSUME TypeInv, NEW p \in Process, NEW q, memory' = [memory EXCEPT ![p] = q],
         UNCHANGED redis
  PROVE  SetQueue(p, q)
<1>1. p # "redis"
  BY RateLimiterAssumption
<1> QED
  BY <1>1 DEF SetQueue, TypeInv

LEMMA HitShape ==
  ASSUME TypeInv, NEW t \in Thread, Hit(t)
  PROVE  \E s \in Place : /\ At(s, ProcessOf[t])
                          /\ IF Full(Kept(s)) THEN Looked(s) ELSE Counted(s)
<1> DEFINE p == ProcessOf[t]
<1>1. p \in Process /\ p # "redis"
  BY RateLimiterAssumption
<1>2. CASE /\ OnRedis(p)
           /\ redis' = IF Full(Trimmed(redis)) THEN Trimmed(redis)
                                               ELSE Trimmed(redis) \cup {New}
           /\ IF Full(Trimmed(redis)) THEN UNCHANGED events ELSE Let("redis")
           /\ UNCHANGED memory
  <2>1. SetQueue("redis", IF Full(Trimmed(redis)) THEN Trimmed(redis)
                          ELSE Trimmed(redis) \cup {New})
    BY <1>2, RedisShape
  <2>2. "redis" \in Place /\ At("redis", p) /\ Kept("redis") = Trimmed(redis)
    BY <1>2 DEF At, Place, Kept
  <2>3. IF Full(Kept("redis")) THEN Looked("redis") ELSE Counted("redis")
    BY <1>2, <2>1, <2>2 DEF Looked, Counted
  <2> QED
    BY <2>2, <2>3
<1>3. CASE /\ OnMemory(p)
           /\ LET q == Pruned(memory[p])
              IN  /\ memory' = [memory EXCEPT ![p] = IF Full(q) THEN q ELSE q \cup {New}]
                  /\ IF Full(q) THEN UNCHANGED events ELSE Let(p)
           /\ UNCHANGED redis
  <2> DEFINE q == Pruned(memory[p])
  <2>1. SetQueue(p, IF Full(q) THEN q ELSE q \cup {New})
    BY <1>1, <1>3, MemoryShape
  <2>2. p \in Place /\ At(p, p) /\ Kept(p) = q
    BY <1>1, <1>3 DEF At, Place, Kept
  <2>3. IF Full(q) THEN UNCHANGED events ELSE Let(p)
    BY <1>3
  <2> HIDE DEF q, p
  <2>4. IF Full(Kept(p)) THEN Looked(p) ELSE Counted(p)
    BY <2>1, <2>2, <2>3 DEF Looked, Counted
  <2> QED
    BY <2>2, <2>4 DEF p
<1> QED
  BY <1>2, <1>3 DEF Hit

LEMMA IsLimitedShape ==
  ASSUME TypeInv, NEW t \in Thread, IsLimited(t)
  PROVE  \E s \in Place :
           /\ At(s, ProcessOf[t])
           /\ Looked(s)
           /\ pending' = IF Full(Kept(s)) THEN pending ELSE pending \cup {t}
<1> DEFINE p == ProcessOf[t]
<1>1. p \in Process /\ p # "redis" /\ UNCHANGED events
  BY RateLimiterAssumption DEF IsLimited
<1>2. CASE /\ OnRedis(p)
           /\ redis' = Trimmed(redis)
           /\ pending' = IF Full(Trimmed(redis)) THEN pending ELSE pending \cup {t}
           /\ UNCHANGED memory
  <2>1. SetQueue("redis", Trimmed(redis))
    BY <1>2, RedisShape
  <2>2. "redis" \in Place /\ At("redis", p) /\ Kept("redis") = Trimmed(redis)
    BY <1>2 DEF At, Place, Kept
  <2> QED
    BY <1>1, <1>2, <2>1, <2>2 DEF Looked
<1>3. CASE /\ OnMemory(p)
           /\ memory' = [memory EXCEPT ![p] = Pruned(@)]
           /\ pending' = IF Full(Pruned(memory[p])) THEN pending ELSE pending \cup {t}
           /\ UNCHANGED redis
  <2>1. SetQueue(p, Pruned(memory[p]))
    BY <1>1, <1>3, MemoryShape
  <2>2. p \in Place /\ At(p, p) /\ Kept(p) = Pruned(memory[p])
    BY <1>1, <1>3 DEF At, Place, Kept
  <2> QED
    BY <1>1, <1>3, <2>1, <2>2 DEF Looked
<1> QED
  BY <1>2, <1>3 DEF IsLimited

LEMMA RecordShape ==
  ASSUME TypeInv, NEW t \in Thread, Record(t)
  PROVE  \E s \in Place : At(s, ProcessOf[t]) /\ Counted(s)
<1> DEFINE p == ProcessOf[t]
<1>1. p \in Process /\ p # "redis"
  BY RateLimiterAssumption
<1>2. CASE /\ OnRedis(p)
           /\ redis' = Trimmed(redis) \cup {New}
           /\ Let("redis")
           /\ UNCHANGED memory
  <2>1. SetQueue("redis", Trimmed(redis) \cup {New})
    BY <1>2, RedisShape
  <2>2. "redis" \in Place /\ At("redis", p) /\ Kept("redis") = Trimmed(redis)
    BY <1>2 DEF At, Place, Kept
  <2> QED
    BY <1>2, <2>1, <2>2 DEF Counted
<1>3. CASE /\ OnMemory(p)
           /\ memory' = [memory EXCEPT ![p] = Pruned(@) \cup {New}]
           /\ Let(p)
           /\ UNCHANGED redis
  <2>1. SetQueue(p, Pruned(memory[p]) \cup {New})
    BY <1>1, <1>3, MemoryShape
  <2>2. p \in Place /\ At(p, p) /\ Kept(p) = Pruned(memory[p])
    BY <1>1, <1>3 DEF At, Place, Kept
  <2> QED
    BY <1>3, <2>1, <2>2 DEF Counted
<1> QED
  BY <1>2, <1>3 DEF Record

-----------------------------------------------------------------------------
(* Counting *)

(* Sets of events are finite. *)
LEMMA EventsFinite ==
  ASSUME TypeInv, NEW E \in SUBSET DOMAIN events
  PROVE  IsFiniteSet(E) /\ Cardinality(E) \in Nat
<1>1. DOMAIN events = 1..Len(events) /\ Len(events) \in Nat
  BY DEF TypeInv
<1>2. IsFiniteSet(DOMAIN events)
  BY <1>1, FS_Interval
<1> QED
  BY <1>2, FS_Subset, FS_CardinalityType

LEMMA WindowType ==
  ASSUME NEW end, NEW s
  PROVE  InWindowOf(end, s) \in SUBSET DOMAIN events
BY DEF InWindowOf, InWindow

LEMMA EventType ==
  ASSUME TypeInv, NEW i \in DOMAIN events
  PROVE  events[i] \in Event /\ events[i].at \in Nat /\ events[i].store \in Place
<1>1. events \in Seq(Event)
  BY DEF TypeInv
<1>2. events[i] \in Event
  BY <1>1
<1> QED
  BY <1>2 DEF Event

(* A window that ends later than now has nothing that is not in this one.  *)
LEMMA LaterWindow ==
  ASSUME TypeInv, EventsPast, NEW end \in Nat, end >= clock, NEW s
  PROVE  InWindowOf(end, s) \subseteq InWindowOf(clock, s)
<1> SUFFICES ASSUME NEW i \in InWindowOf(end, s) PROVE i \in InWindowOf(clock, s)
  OBVIOUS
<1>1. i \in DOMAIN events /\ events[i].at \in Nat /\ events[i].at <= clock
  BY EventType DEF InWindowOf, InWindow, EventsPast
<1>2. Window \in Nat /\ clock \in Nat /\ events[i].at + Window > end
  BY RateLimiterAssumption DEF InWindowOf, InWindow, TypeInv
<1>3. events[i].at + Window > clock
  BY <1>1, <1>2
<1> QED
  BY <1>1, <1>3 DEF InWindowOf, InWindow

(* What the queue keeps includes the whole window that ends now.           *)
LEMMA KeptHolds ==
  ASSUME TypeInv, QueueKeeps, NEW s \in Place
  PROVE  /\ InWindowOf(clock, s) \subseteq Kept(s)
         /\ Kept(s) \in SUBSET DOMAIN events
         /\ ~Full(Kept(s)) => Cardinality(InWindowOf(clock, s)) < MaxEvents
<1>1. Queue(s) \in SUBSET DOMAIN events
  BY DEF Queue, TypeInv, Place
<1>2. Kept(s) \in SUBSET DOMAIN events
  BY <1>1 DEF Kept, Queue, Trimmed, Pruned
<1>3. ASSUME NEW i \in InWindowOf(clock, s) PROVE i \in Kept(s)
  <2>1. i \in Queue(s) /\ i \in DOMAIN events
    BY <1>3 DEF QueueKeeps, InWindowOf, InWindow
  <2>2. events[i].at \in Nat /\ events[i].at + Window > clock
    BY <1>3, <2>1, EventType DEF InWindowOf, InWindow
  <2>3. events[i].at + Window >= clock
    BY <2>2, RateLimiterAssumption DEF TypeInv
  <2> QED
    BY <2>1, <2>2, <2>3 DEF Kept, Queue, Trimmed, Pruned
<1>4. ASSUME ~Full(Kept(s)) PROVE Cardinality(InWindowOf(clock, s)) < MaxEvents
  <2>1. IsFiniteSet(Kept(s)) /\ Cardinality(Kept(s)) \in Nat
    BY <1>2, EventsFinite
  <2>2. Cardinality(InWindowOf(clock, s)) <= Cardinality(Kept(s))
    BY <1>3, <2>1, FS_Subset
  <2>3. Cardinality(InWindowOf(clock, s)) \in Nat
    BY WindowType, EventsFinite
  <2> QED
    BY <1>4, <2>1, <2>2, <2>3, RateLimiterAssumption DEF Full
<1> QED
  BY <1>2, <1>3, <1>4

(* The event that is let through joins the windows of its place, from now. *)
LEMMA LetWindows ==
  ASSUME TypeInv, EventsPast, NEW s \in Place, Let(s)
  PROVE  /\ events' \in Seq(Event)
         /\ DOMAIN events' = DOMAIN events \cup {New} /\ New \notin DOMAIN events
         /\ events'[New] = [at |-> clock, store |-> s]
         /\ \A i \in DOMAIN events : events'[i] = events[i]
         /\ \A end \in Nat, r \in Place :
              InWindowOf(end, r)' \subseteq
                InWindowOf(end, r) \cup (IF end >= clock /\ r = s THEN {New} ELSE {})
<1>1. /\ events \in Seq(Event) /\ clock \in Nat
      /\ [at |-> clock, store |-> s] \in Event
  BY DEF TypeInv, Event
<1>2. /\ events' \in Seq(Event)
      /\ DOMAIN events' = DOMAIN events \cup {New} /\ New \notin DOMAIN events
      /\ events'[New] = [at |-> clock, store |-> s]
      /\ \A i \in DOMAIN events : events'[i] = events[i]
  BY <1>1 DEF Let, New
<1>3. ASSUME NEW end \in Nat, NEW r \in Place, NEW i \in InWindowOf(end, r)'
      PROVE  i \in InWindowOf(end, r) \/ (i = New /\ end >= clock /\ r = s)
  <2>1. /\ i \in DOMAIN events' /\ events'[i].at <= end
        /\ events'[i].at + Window > end /\ events'[i].store = r
    BY <1>3 DEF InWindowOf, InWindow
  <2>2. CASE i \in DOMAIN events
    BY <1>2, <2>1, <2>2 DEF InWindowOf, InWindow
  <2>3. CASE i = New
    BY <1>1, <1>2, <2>1, <2>3
  <2> QED
    BY <1>2, <2>1, <2>2, <2>3
<1> QED
  BY <1>2, <1>3

-----------------------------------------------------------------------------
(* The steps *)

(* What a call changes whether it counts or only looks.                    *)
LEMMA SetQueueKeeps ==
  ASSUME TypeInv, NEW s \in Place, NEW q, SetQueue(s, q)
  PROVE  \A r \in Place : Queue(r)' = IF r = s THEN q ELSE Queue(r)
BY DEF SetQueue, Queue, Place

LEMMA SetQueueType ==
  ASSUME TypeInv, NEW s \in Place, NEW D, DOMAIN events \subseteq D,
         NEW q \in SUBSET D, SetQueue(s, q)
  PROVE  redis' \subseteq D /\ memory' \in [Process -> SUBSET D]
BY DEF SetQueue, TypeInv

(* The place of a call is one of those that the limit counts.              *)
LEMMA PlaceCounts ==
  ASSUME TypeInv, NEW t \in Thread, NEW s \in Place, At(s, ProcessOf[t]), shared' = shared
  PROVE  /\ s \in Stores' /\ Stores \subseteq Stores'
         /\ flaky' \in BOOLEAN /\ (~flaky' => ~flaky /\ s = PlaceOf(ProcessOf[t]))
<1>1. ProcessOf[t] \in Process /\ ProcessOf[t] # "redis"
  BY RateLimiterAssumption
<1>2. CASE s = "redis"
  BY <1>1, <1>2 DEF At, OnRedis, Stores, PlaceOf, TypeInv
<1>3. CASE s # "redis"
  BY <1>1, <1>3 DEF At, OnMemory, Stores, PlaceOf, TypeInv
<1> QED
  BY <1>2, <1>3

LEMMA LookedIInv ==
  ASSUME IInv, NEW t \in Thread, NEW s \in Place, At(s, ProcessOf[t]), Looked(s),
         UNCHANGED <<usage, shared, clock>>
  PROVE  /\ redis' \subseteq DOMAIN events'
         /\ memory' \in [Process -> SUBSET DOMAIN events']
         /\ EventsPast' /\ QueueKeeps'
         /\ \A end, r : InWindowOf(end, r)' = InWindowOf(end, r)
<1> USE DEF IInv
<1>1. \A end, r : InWindowOf(end, r)' = InWindowOf(end, r)
  BY DEF Looked, InWindowOf, InWindow
<1>2. events' = events /\ Kept(s) \in SUBSET DOMAIN events
  BY KeptHolds DEF Looked
<1>3. redis' \subseteq DOMAIN events' /\ memory' \in [Process -> SUBSET DOMAIN events']
  BY <1>2, SetQueueType DEF Looked
<1>4. EventsPast'
  BY <1>2, PlaceCounts DEF EventsPast
<1>5. \A r \in Place : Queue(r)' = IF r = s THEN Kept(s) ELSE Queue(r)
  BY SetQueueKeeps DEF Looked
<1>6. QueueKeeps'
  BY <1>1, <1>5, KeptHolds DEF QueueKeeps
<1> QED
  BY <1>1, <1>3, <1>4, <1>6

LEMMA CountedIInv ==
  ASSUME IInv, NEW t \in Thread, NEW s \in Place, At(s, ProcessOf[t]), Counted(s),
         UNCHANGED <<usage, shared, clock>>
  PROVE  /\ redis' \subseteq DOMAIN events'
         /\ memory' \in [Process -> SUBSET DOMAIN events']
         /\ events' \in Seq(Event)
         /\ EventsPast' /\ QueueKeeps'
<1> USE DEF IInv
<1>1. Let(s)
  BY DEF Counted
<1>2. /\ events' \in Seq(Event)
      /\ DOMAIN events' = DOMAIN events \cup {New}
      /\ events'[New] = [at |-> clock, store |-> s]
      /\ \A i \in DOMAIN events : events'[i] = events[i]
  BY <1>1, LetWindows
<1>3. Kept(s) \cup {New} \in SUBSET DOMAIN events'
  BY <1>2, KeptHolds
<1>4. redis' \subseteq DOMAIN events' /\ memory' \in [Process -> SUBSET DOMAIN events']
  BY <1>2, <1>3, SetQueueType DEF Counted
<1>5. EventsPast'
  BY <1>2, PlaceCounts DEF EventsPast, TypeInv
<1>6. \A r \in Place : Queue(r)' = IF r = s THEN Kept(s) \cup {New} ELSE Queue(r)
  BY SetQueueKeeps DEF Counted
<1>7. ASSUME NEW r \in Place PROVE InWindowOf(clock, r)' \subseteq Queue(r)'
  <2> SUFFICES ASSUME NEW i \in InWindowOf(clock, r)' PROVE i \in Queue(r)'
    OBVIOUS
  <2>1. clock \in Nat /\ clock' = clock
    BY DEF TypeInv
  <2>2. /\ i \in DOMAIN events' /\ events'[i].at <= clock
        /\ events'[i].at + Window > clock /\ events'[i].store = r
    BY <2>1 DEF InWindowOf, InWindow
  <2>3. i \in DOMAIN events => i \in InWindowOf(clock, r)
    BY <1>2, <2>2 DEF InWindowOf, InWindow
  <2>4. i = New => r = s
    BY <1>2, <2>2
  <2> QED
    BY <1>2, <1>6, <2>2, <2>3, <2>4, KeptHolds DEF QueueKeeps
<1> QED
  BY <1>2, <1>4, <1>5, <1>7 DEF QueueKeeps

(* How many events the windows have after one more.                        *)
LEMMA LetCounts ==
  ASSUME TypeInv, EventsPast, NEW s \in Place, Let(s), NEW end \in Nat, NEW r \in Place
  PROVE  /\ Cardinality(InWindowOf(end, r)') \in Nat
         /\ Cardinality(InWindowOf(end, r)') <=
              IF end >= clock /\ r = s THEN Cardinality(InWindowOf(clock, s)) + 1
                                       ELSE Cardinality(InWindowOf(end, r))
<1> DEFINE after == InWindowOf(end, r)'
           more == IF end >= clock /\ r = s THEN {New} ELSE {}
           now == IF end >= clock THEN InWindowOf(clock, r) ELSE InWindowOf(end, r)
<1>1. after \subseteq InWindowOf(end, r) \cup more
  BY LetWindows
<1>2. IsFiniteSet(InWindowOf(end, r)) /\ Cardinality(InWindowOf(end, r)) \in Nat
  BY WindowType, EventsFinite
<1>3. IsFiniteSet(InWindowOf(clock, r)) /\ Cardinality(InWindowOf(clock, r)) \in Nat
  BY WindowType, EventsFinite
<1> HIDE DEF after, now
<1>4. CASE ~(end >= clock /\ r = s)
  <2>1. after \subseteq InWindowOf(end, r)
    BY <1>1, <1>4
  <2> QED
    BY <1>2, <1>4, <2>1, FS_Subset, FS_CardinalityType DEF after
<1>5. CASE end >= clock /\ r = s
  <2>1. after \subseteq InWindowOf(clock, s) \cup {New}
    BY <1>1, <1>5, LaterWindow
  <2> DEFINE held == InWindowOf(clock, s)
  <2>2. IsFiniteSet(held) /\ Cardinality(held) \in Nat
    BY <1>3, <1>5
  <2> HIDE DEF held
  <2>4. IsFiniteSet(held \cup {New}) /\ Cardinality(held \cup {New}) <= Cardinality(held) + 1
    BY <2>2, FS_AddElement
  <2>3. /\ Cardinality(after) <= Cardinality(held \cup {New})
        /\ Cardinality(after) \in Nat
        /\ Cardinality(held \cup {New}) \in Nat
    BY <2>1, <2>4, FS_Subset, FS_CardinalityType DEF held
  <2> QED
    BY <1>5, <2>2, <2>3, <2>4 DEF after, held
<1> QED
  BY <1>4, <1>5

LEMMA CountType ==
  ASSUME TypeInv
  PROVE  /\ \A end, s : /\ IsFiniteSet(InWindowOf(end, s))
                        /\ Cardinality(InWindowOf(end, s)) \in Nat
         /\ \A s : IsFiniteSet(PendingOn(s)) /\ Cardinality(PendingOn(s)) \in Nat
         /\ MaxEvents \in Nat /\ Cardinality(Thread) \in Nat \ {0}
         /\ clock \in Nat
<1>1. ASSUME NEW end, NEW s
      PROVE  IsFiniteSet(InWindowOf(end, s)) /\ Cardinality(InWindowOf(end, s)) \in Nat
  BY WindowType, EventsFinite
<1>2. ASSUME NEW s PROVE IsFiniteSet(PendingOn(s)) /\ Cardinality(PendingOn(s)) \in Nat
  <2>1. PendingOn(s) \in SUBSET Thread
    BY DEF PendingOn, TypeInv
  <2> QED
    BY <2>1, RateLimiterAssumption, FS_Subset, FS_CardinalityType
<1>3. Cardinality(Thread) \in Nat \ {0}
  BY RateLimiterAssumption, FS_CardinalityType, FS_EmptySet
<1> QED
  BY <1>1, <1>2, <1>3, RateLimiterAssumption DEF TypeInv

LEMMA HitIInv ==
  ASSUME IInv, NEW t \in Thread, Hit(t)
  PROVE  IInv'
<1> USE DEF IInv
<1>1. /\ usage = "hit" /\ UNCHANGED <<usage, shared, clock, pending>>
  BY DEF Hit
<1>2. PICK s \in Place : /\ At(s, ProcessOf[t])
                         /\ IF Full(Kept(s)) THEN Looked(s) ELSE Counted(s)
  BY HitShape
<1>3. flaky' \in BOOLEAN
  BY <1>1, <1>2, PlaceCounts
<1>4. ~(usage' = "failures")
  BY <1>1
<1>5. CASE Looked(s)
  <2>1. TypeInv' /\ EventsPast' /\ QueueKeeps'
    BY <1>1, <1>2, <1>3, <1>5, LookedIInv DEF TypeInv, Looked
  <2>2. HitsBounded'
    BY <1>1, <1>2, <1>5, LookedIInv DEF HitsBounded
  <2> QED
    BY <1>1, <1>4, <2>1, <2>2 DEF FailuresBounded, RoomForPending, OnlyFailuresPend
<1>6. CASE ~Full(Kept(s)) /\ Counted(s)
  <2>1. TypeInv' /\ EventsPast' /\ QueueKeeps'
    BY <1>1, <1>2, <1>3, <1>6, CountedIInv DEF TypeInv
  <2>2. ASSUME NEW end \in Nat, NEW r \in Place
        PROVE  Cardinality(InWindowOf(end, r)') <= MaxEvents
    <3>1. Let(s)
      BY <1>6 DEF Counted
    <3>2. Cardinality(InWindowOf(clock, s)) < MaxEvents
      BY <1>6, KeptHolds
    <3>3. Cardinality(InWindowOf(end, r)) <= MaxEvents
      BY <1>1 DEF HitsBounded
    <3> QED
      BY <3>1, <3>2, <3>3, LetCounts, CountType
  <2> QED
    BY <1>1, <1>4, <2>1, <2>2 DEF HitsBounded, FailuresBounded, RoomForPending, OnlyFailuresPend
<1> QED
  BY <1>2, <1>5, <1>6

LEMMA IsLimitedIInv ==
  ASSUME IInv, NEW t \in Thread, IsLimited(t)
  PROVE  IInv'
<1> USE DEF IInv
<1>1. /\ usage = "failures" /\ UNCHANGED <<usage, shared, clock, events>>
  BY DEF IsLimited
<1>2. PICK s \in Place :
        /\ At(s, ProcessOf[t])
        /\ Looked(s)
        /\ pending' = IF Full(Kept(s)) THEN pending ELSE pending \cup {t}
  BY IsLimitedShape
<1>3. flaky' \in BOOLEAN /\ (~flaky' => ~flaky /\ s = PlaceOf(ProcessOf[t]))
  BY <1>1, <1>2, PlaceCounts
<1>4. TypeInv' /\ EventsPast' /\ QueueKeeps'
  BY <1>1, <1>2, <1>3, LookedIInv DEF TypeInv
<1>5. \A end, r : InWindowOf(end, r)' = InWindowOf(end, r)
  BY <1>1, <1>2, LookedIInv
<1>6. FailuresBounded'
  BY <1>1, <1>3, <1>5 DEF FailuresBounded, Excess
<1>7. ASSUME ~flaky', NEW r \in Place, PendingOn(r)' # {}
      PROVE  Cardinality(InWindowOf(clock, r)') + Cardinality(PendingOn(r)') <= Excess
  <2>1. CASE PendingOn(r)' = PendingOn(r)
    BY <1>1, <1>3, <1>5, <1>7, <2>1 DEF RoomForPending
  <2>2. CASE r = s /\ ~Full(Kept(s))
    <3>1. Cardinality(InWindowOf(clock, r)) < MaxEvents
      BY <2>2, KeptHolds
    <3>2. PendingOn(r)' \in SUBSET Thread
      BY <1>4 DEF PendingOn, TypeInv
    <3>3. Cardinality(PendingOn(r)') <= Cardinality(Thread) /\ Cardinality(PendingOn(r)') \in Nat
      BY <3>2, RateLimiterAssumption, FS_Subset, FS_CardinalityType
    <3> QED
      BY <1>1, <1>5, <3>1, <3>3, CountType DEF Excess
  <2>3. CASE r # s \/ Full(Kept(s))
    <3>1. PendingOn(r)' = PendingOn(r)
      BY <1>1, <1>2, <1>3, <1>7, <2>3 DEF PendingOn, PlaceOf
    <3> QED
      BY <2>1, <3>1
  <2> QED
    BY <2>2, <2>3
<1>8. RoomForPending'
  BY <1>7 DEF RoomForPending, Excess
<1> QED
  BY <1>1, <1>4, <1>6, <1>8 DEF HitsBounded, OnlyFailuresPend

(* A thread that is no longer pending makes room where it was.             *)
LEMMA FewerPending ==
  ASSUME TypeInv, NEW t \in pending, pending' = pending \ {t}, UNCHANGED shared,
         NEW r
  PROVE  /\ PendingOn(r)' = PendingOn(r) \ {t}
         /\ Cardinality(PendingOn(r)') =
              Cardinality(PendingOn(r)) - (IF t \in PendingOn(r) THEN 1 ELSE 0)
<1>1. PendingOn(r)' = PendingOn(r) \ {t}
  BY DEF PendingOn, PlaceOf
<1>2. IsFiniteSet(PendingOn(r)) /\ Cardinality(PendingOn(r)) \in Nat
  BY CountType
<1>3. Cardinality(PendingOn(r) \ {t}) =
        IF t \in PendingOn(r) THEN Cardinality(PendingOn(r)) - 1
                              ELSE Cardinality(PendingOn(r))
  BY <1>2, FS_RemoveElement, Zenon
<1> QED
  BY <1>1, <1>2, <1>3

LEMMA RecordIInv ==
  ASSUME IInv, NEW t \in Thread, Record(t)
  PROVE  IInv'
<1> USE DEF IInv
<1>1. /\ t \in pending /\ pending' = pending \ {t}
      /\ UNCHANGED <<usage, shared, clock>>
  BY DEF Record
<1>2. usage = "failures" /\ usage' = "failures"
  BY <1>1 DEF OnlyFailuresPend, TypeInv
<1>3. PICK s \in Place : At(s, ProcessOf[t]) /\ Counted(s)
  BY RecordShape
<1>4. flaky' \in BOOLEAN /\ (~flaky' => ~flaky /\ s = PlaceOf(ProcessOf[t]))
  BY <1>1, <1>3, PlaceCounts
<1>5. TypeInv' /\ EventsPast' /\ QueueKeeps'
  BY <1>1, <1>3, <1>4, CountedIInv DEF TypeInv
<1>6. Let(s)
  BY <1>3 DEF Counted
<1>7. ASSUME ~flaky'
      PROVE  /\ t \in PendingOn(s)
             /\ Cardinality(InWindowOf(clock, s)) + Cardinality(PendingOn(s)) <= Excess
             /\ Cardinality(PendingOn(s)) \in Nat \ {0}
  <2>1. t \in PendingOn(s) /\ ~flaky
    BY <1>1, <1>4, <1>7 DEF PendingOn
  <2>2. Cardinality(PendingOn(s)) # 0
    BY <2>1, CountType, FS_EmptySet
  <2> QED
    BY <1>2, <2>1, <2>2, CountType DEF RoomForPending
<1>8. ASSUME ~flaky', NEW end \in Nat, NEW r \in Place
      PROVE  Cardinality(InWindowOf(end, r)') <= Excess
  <2>1. Cardinality(InWindowOf(end, r)) <= Excess
    BY <1>2, <1>4, <1>8 DEF FailuresBounded
  <2> QED
    BY <1>6, <1>7, <1>8, <2>1, LetCounts, CountType DEF Excess
<1>9. ASSUME ~flaky', NEW r \in Place, PendingOn(r)' # {}
      PROVE  Cardinality(InWindowOf(clock, r)') + Cardinality(PendingOn(r)') <= Excess
  <2>1. /\ PendingOn(r)' = PendingOn(r) \ {t}
        /\ Cardinality(PendingOn(r)') =
             Cardinality(PendingOn(r)) - (IF t \in PendingOn(r) THEN 1 ELSE 0)
    BY <1>1, FewerPending
  <2>2. clock \in Nat /\ clock' = clock
    BY <1>1 DEF TypeInv
  <2>3. /\ Cardinality(InWindowOf(clock, r)') \in Nat
        /\ Cardinality(InWindowOf(clock, r)') <=
             IF r = s THEN Cardinality(InWindowOf(clock, s)) + 1
                      ELSE Cardinality(InWindowOf(clock, r))
    <3>1. PICK now \in Nat : now = clock /\ now = clock'
      BY <2>2
    <3>2. InWindowOf(now, r)' = InWindowOf(clock, r)'
      BY <3>1
    <3> QED
      BY <1>6, <3>1, <3>2, LetCounts
  <2>4. CASE r = s
    BY <1>7, <1>9, <2>1, <2>3, <2>4, CountType DEF Excess
  <2>5. CASE r # s
    <3>1. t \notin PendingOn(r)
      BY <1>4, <1>9, <2>5 DEF PendingOn
    <3>2. Cardinality(InWindowOf(clock, r)) + Cardinality(PendingOn(r)) <= Excess
      BY <1>2, <1>4, <1>9, <2>1 DEF RoomForPending
    <3> QED
      BY <2>1, <2>3, <2>5, <3>1, <3>2, CountType DEF Excess
  <2> QED
    BY <2>4, <2>5
<1>10. FailuresBounded'
  BY <1>8 DEF FailuresBounded, Excess
<1>11. RoomForPending'
  BY <1>9 DEF RoomForPending, Excess
<1> QED
  BY <1>2, <1>5, <1>10, <1>11 DEF HitsBounded, OnlyFailuresPend

LEMMA NotCountedIInv ==
  ASSUME IInv, NEW t \in Thread, NotCounted(t)
  PROVE  IInv'
<1> USE DEF IInv
<1>1. /\ t \in pending /\ pending' = pending \ {t}
      /\ UNCHANGED <<usage, shared, clock, redis, memory, events, flaky>>
  BY DEF NotCounted
<1>2. \A end, r : InWindowOf(end, r)' = InWindowOf(end, r)
  BY <1>1 DEF InWindowOf, InWindow
<1>3. TypeInv' /\ EventsPast' /\ OnlyFailuresPend'
  BY <1>1 DEF TypeInv, EventsPast, Stores, OnlyFailuresPend
<1>4. QueueKeeps' /\ HitsBounded' /\ FailuresBounded'
  BY <1>1, <1>2 DEF QueueKeeps, HitsBounded, FailuresBounded, Excess, Queue
<1>5. ASSUME usage = "failures", ~flaky, NEW r \in Place, PendingOn(r)' # {}
      PROVE  Cardinality(InWindowOf(clock, r)) + Cardinality(PendingOn(r)') <= Excess
  <2>1. /\ PendingOn(r) # {}
        /\ Cardinality(PendingOn(r)') =
             Cardinality(PendingOn(r)) - (IF t \in PendingOn(r) THEN 1 ELSE 0)
    BY <1>1, <1>5, FewerPending
  <2>2. Cardinality(InWindowOf(clock, r)) + Cardinality(PendingOn(r)) <= Excess
    BY <1>5, <2>1 DEF RoomForPending
  <2> QED
    BY <2>1, <2>2, CountType DEF Excess
<1>6. RoomForPending'
  BY <1>1, <1>2, <1>5 DEF RoomForPending, Excess
<1> QED
  BY <1>3, <1>4, <1>6

LEMMA TickIInv ==
  ASSUME IInv, ClockTicks
  PROVE  IInv'
<1> USE DEF IInv
<1>1. /\ clock \in Nat /\ clock' = clock + 1
      /\ UNCHANGED <<usage, shared, redis, memory, pending, events, flaky>>
  BY DEF ClockTicks, TypeInv
<1>2. \A end \in Nat : \A r : InWindowOf(end, r)' = InWindowOf(end, r)
  BY <1>1 DEF InWindowOf, InWindow
<1>3. \A r : InWindowOf(clock', r) \subseteq InWindowOf(clock, r)
  BY <1>1, LaterWindow
<1>4. \A r : InWindowOf(clock, r)' = InWindowOf(clock', r)
  BY <1>1 DEF InWindowOf, InWindow
<1>5. \A r : PendingOn(r)' = PendingOn(r)
  BY <1>1 DEF PendingOn, PlaceOf
<1>6. TypeInv' /\ OnlyFailuresPend'
  BY <1>1 DEF TypeInv, OnlyFailuresPend
<1>7. EventsPast'
  BY <1>1, EventType DEF EventsPast, Stores
<1>8. QueueKeeps'
  BY <1>1, <1>3, <1>4 DEF QueueKeeps, Queue
<1>9. HitsBounded' /\ FailuresBounded'
  BY <1>1, <1>2 DEF HitsBounded, FailuresBounded, Excess
<1>10. ASSUME usage = "failures", ~flaky, NEW r \in Place, PendingOn(r) # {}
       PROVE  Cardinality(InWindowOf(clock', r)) + Cardinality(PendingOn(r)) <= Excess
  <2>1. Cardinality(InWindowOf(clock, r)) + Cardinality(PendingOn(r)) <= Excess
    BY <1>10 DEF RoomForPending
  <2>2. Cardinality(InWindowOf(clock', r)) <= Cardinality(InWindowOf(clock, r))
    BY <1>3, CountType, FS_Subset
  <2> QED
    BY <2>1, <2>2, CountType DEF Excess
<1>11. RoomForPending'
  BY <1>1, <1>4, <1>5, <1>10 DEF RoomForPending, Excess
<1> QED
  BY <1>6, <1>7, <1>8, <1>9, <1>11

LEMMA InitIInv == LimiterInit => IInv
<1> SUFFICES ASSUME LimiterInit PROVE IInv
  OBVIOUS
<1> USE DEF LimiterInit
<1>1. DOMAIN events = {} /\ events \in Seq(Event)
  OBVIOUS
<1>2. \A end, s : InWindowOf(end, s) = {}
  BY <1>1 DEF InWindowOf, InWindow
<1>3. Cardinality({}) = 0
  BY FS_EmptySet
<1>4. TypeInv
  <2>1. memory \in [Process -> SUBSET DOMAIN events]
    BY <1>1
  <2>2. /\ usage \in {"hit", "failures"} /\ shared \in SUBSET Process /\ clock \in Nat
        /\ redis \subseteq DOMAIN events /\ pending \subseteq Thread /\ flaky \in BOOLEAN
    OBVIOUS
  <2> QED
    BY <1>1, <2>1, <2>2 DEF TypeInv
<1>5. \A s : PendingOn(s) = {}
  BY DEF PendingOn
<1>6. Excess \in Nat /\ MaxEvents \in Nat
  BY <1>4, CountType DEF Excess
<1>7. HitsBounded /\ FailuresBounded /\ RoomForPending
  <2>1. \A end, s : Cardinality(InWindowOf(end, s)) = 0
    BY <1>2, <1>3
  <2>2. \A s \in Place : ~(PendingOn(s) # {})
    BY <1>5
  <2>3. \A end, s : Cardinality(InWindowOf(end, s)) <= MaxEvents
    BY <1>6, <2>1
  <2>4. \A end, s : Cardinality(InWindowOf(end, s)) <= Excess
    BY <1>6, <2>1
  <2> QED
    BY <2>2, <2>3, <2>4 DEF HitsBounded, FailuresBounded, RoomForPending
<1>8. EventsPast /\ QueueKeeps /\ OnlyFailuresPend
  BY <1>1, <1>2 DEF EventsPast, QueueKeeps, OnlyFailuresPend
<1> QED
  BY <1>4, <1>7, <1>8 DEF IInv

LEMMA StepIInv == IInv /\ [LimiterNext]_limiterVars => IInv'
<1> SUFFICES ASSUME IInv, [LimiterNext]_limiterVars PROVE IInv'
  OBVIOUS
<1>1. CASE LimiterNext
  BY <1>1, HitIInv, IsLimitedIInv, RecordIInv, NotCountedIInv, TickIInv DEF LimiterNext
<1>2. CASE UNCHANGED limiterVars
  <2>1. UNCHANGED <<usage, shared, clock, redis, memory, pending, events, flaky>>
    BY <1>2 DEF limiterVars
  <2>2. \A end, r : InWindowOf(end, r)' = InWindowOf(end, r)
    BY <2>1 DEF InWindowOf, InWindow
  <2>3. \A r : PendingOn(r)' = PendingOn(r) /\ Queue(r)' = Queue(r)
    BY <2>1 DEF PendingOn, PlaceOf, Queue
  <2>4. InWindowOf(clock, 0)' = InWindowOf(clock, 0) /\ Excess' = Excess /\ Stores' = Stores
    BY <2>1 DEF Excess, InWindowOf, InWindow, Stores
  <2> QED
    BY <2>1, <2>2, <2>3, <2>4
       DEF IInv, TypeInv, EventsPast, QueueKeeps, HitsBounded, FailuresBounded,
           RoomForPending, OnlyFailuresPend
<1> QED
  BY <1>1, <1>2

-----------------------------------------------------------------------------
(* Each event of a window is told by its place and its rank there: no more *)
(* events than places times the limit.                                     *)
LEMMA WindowOfAllPlaces ==
  ASSUME IInv, usage = "hit", NEW end \in Nat
  PROVE  Cardinality(InWindow(end)) <= MaxEvents * Cardinality(Stores)
<1> DEFINE Rank(s) == CHOOSE f \in [InWindowOf(end, s) -> 1..MaxEvents] :
                        \A i, j \in InWindowOf(end, s) : f[i] = f[j] => i = j
           place == [i \in InWindow(end) |-> events[i].store]
           code == [i \in InWindow(end) |-> <<place[i], Rank(place[i])[i]>>]
<1>1. Stores \subseteq Place /\ IsFiniteSet(Stores) /\ Cardinality(Stores) \in Nat
  <2>1. IsFiniteSet(Place)
    BY RateLimiterAssumption, FS_AddElement DEF Place
  <2>2. Stores \subseteq Place
    BY DEF Stores, Place
  <2> QED
    BY <2>1, <2>2, FS_Subset, FS_CardinalityType
<1>2. ASSUME NEW s \in Place
      PROVE  /\ Rank(s) \in [InWindowOf(end, s) -> 1..MaxEvents]
             /\ \A i, j \in InWindowOf(end, s) : Rank(s)[i] = Rank(s)[j] => i = j
  <2> DEFINE W == InWindowOf(end, s)
             n == Cardinality(W)
  <2>1. IsFiniteSet(W) /\ n \in Nat /\ n <= MaxEvents /\ MaxEvents \in Nat
    BY CountType DEF IInv, HitsBounded
  <2>2. ExistsBijection(1..n, W)
    BY <2>1, FS_CardinalityType
  <2> HIDE DEF W, n
  <2>3. PICK g \in [1..n -> W] : /\ \A a, b \in 1..n : g[a] = g[b] => a = b
                                 /\ \A i \in W : \E a \in 1..n : g[a] = i
    BY <2>2 DEF ExistsBijection, Bijection, Injection, Surjection, IsInjective
  <2> DEFINE f == [i \in W |-> CHOOSE a \in 1..n : g[a] = i]
  <2>4. \A i \in W : f[i] \in 1..n /\ g[f[i]] = i
    BY <2>3
  <2>5. f \in [W -> 1..MaxEvents] /\ \A i, j \in W : f[i] = f[j] => i = j
    BY <2>1, <2>4
  <2> QED
    BY <2>5 DEF W
<1>3. ASSUME NEW i \in InWindow(end)
      PROVE  place[i] \in Stores /\ i \in InWindowOf(end, place[i])
  BY <1>3 DEF IInv, EventsPast, InWindow, InWindowOf
<1> HIDE DEF Rank, place
<1>4. code \in [InWindow(end) -> Stores \X (1..MaxEvents)]
  BY <1>1, <1>2, <1>3
<1>5. ASSUME NEW i \in InWindow(end), NEW j \in InWindow(end), code[i] = code[j]
      PROVE  i = j
  <2>1. place[i] = place[j] /\ Rank(place[i])[i] = Rank(place[j])[j]
    BY <1>5
  <2> QED
    BY <1>1, <1>2, <1>3, <2>1
<1>6. /\ IsFiniteSet(Stores \X (1..MaxEvents))
      /\ Cardinality(Stores \X (1..MaxEvents)) = Cardinality(Stores) * MaxEvents
  <2>1. MaxEvents \in Nat /\ IsFiniteSet(1..MaxEvents) /\ Cardinality(1..MaxEvents) = MaxEvents
    BY CountType, FS_Interval DEF IInv
  <2> QED
    BY <1>1, <2>1, FS_Product
<1> HIDE DEF code
<1>7. code \in Injection(InWindow(end), Stores \X (1..MaxEvents))
  BY <1>4, <1>5 DEF Injection, IsInjective
<1>8. Cardinality(InWindow(end)) <= Cardinality(Stores \X (1..MaxEvents))
  BY <1>6, <1>7, FS_Injection
<1>9. MaxEvents \in Nat
  BY CountType DEF IInv
<1> QED
  BY <1>1, <1>6, <1>8, <1>9

(* The inductive invariant holds in every reachable state.                 *)
THEOREM Invariance == LimiterSpec => []IInv
  BY InitIInv, StepIInv, PTL DEF LimiterSpec

(* No window lets more through than the limit for each place that counts,  *)
(* nor more failures than the threads that were verifying a key.           *)
THEOREM LimitIsKept == LimiterSpec => []LimitHolds
<1>1. IInv => LimitHolds
  <2> SUFFICES ASSUME IInv, NEW end \in 0..MaxClock
               PROVE  /\ usage = "hit" =>
                           Cardinality(InWindow(end)) <= MaxEvents * Cardinality(Stores)
                      /\ usage = "failures" /\ ~flaky =>
                           \A s \in Stores : Cardinality(InWindowOf(end, s)) <= Excess
    BY DEF LimitHolds, Excess
  <2>1. end \in Nat
    BY RateLimiterAssumption
  <2>2. Stores \subseteq Place
    BY DEF Stores, Place
  <2> QED
    BY <2>1, <2>2, WindowOfAllPlaces DEF IInv, FailuresBounded
<1> QED
  BY <1>1, Invariance, PTL
=============================================================================
