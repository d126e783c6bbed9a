---------------------------- MODULE RateLimiter ----------------------------
(***************************************************************************)
(* The sliding window that limits attempts and failures by address         *)
(* (security/ratelimit.py and security/redis_ratelimit.py), for one key:   *)
(* keys are independent. A process counts in memory, or in Redis with its  *)
(* own memory as fallback whenever a call to Redis fails.                  *)
(*                                                                         *)
(* A login counts every attempt with one atomic "hit". The keys of the API *)
(* count failures: "is_limited" first, the key is verified against its     *)
(* hash, and only then "record".                                           *)
(***************************************************************************)
EXTENDS Naturals, FiniteSets, Sequences

CONSTANTS
  Thread,      \* the threads that serve requests
  Process,     \* the worker processes
  ProcessOf,   \* the process of each thread
  MaxEvents,   \* max_events
  Window,      \* window_s, in ticks of the clock
  MaxClock,    \* last instant (model bound)
  MaxCalls     \* requests (model bound)

ASSUME RateLimiterAssumption ==
  /\ IsFiniteSet(Thread) /\ Thread # {}
  /\ IsFiniteSet(Process)
  /\ ProcessOf \in [Thread -> Process]
  /\ "redis" \notin Process
  /\ {MaxEvents, Window, MaxClock, MaxCalls} \subseteq Nat

VARIABLES
  usage,    \* "hit" or "failures": how this limiter is used
  shared,   \* the processes whose make_limiter reached Redis
  clock,    \* the time
  redis,    \* the sorted set of the key: the events it holds
  memory,   \* the queue of each process: the events it holds
  pending,  \* the threads that were not limited and verify their key
  events,   \* every event let through, with its instant and its store
  flaky     \* whether a call to Redis has failed

limiterVars == <<usage, shared, clock, redis, memory, pending, events, flaky>>

LimiterInit ==
  /\ usage \in {"hit", "failures"}
  /\ shared \in SUBSET Process
  /\ clock = 0
  /\ redis = {}
  /\ memory = [p \in Process |-> {}]
  /\ pending = {}
  /\ events = <<>>
  /\ flaky = FALSE

(* Every event is a member of its own (uuid4), here its place in events.   *)
New == Len(events) + 1

(* ZREMRANGEBYSCORE removes what happened now - window or before. Seeded   *)
(* fault: the oldest event of a full window is dropped to make room.       *)
Trimmed_MakesRoom(q) ==
  LET recent == {i \in q : events[i].at + Window > clock}
  IN  IF Cardinality(recent) >= MaxEvents
      THEN recent \ {CHOOSE i \in recent : \A j \in recent : i <= j} ELSE recent
Trimmed(q) == {i \in q : events[i].at + Window > clock}

(* The queue in memory still holds what happened exactly a window ago.     *)
Pruned(q) == {i \in q : events[i].at + Window >= clock}

Full(q) == Cardinality(q) >= MaxEvents

Let(store) == events' = Append(events, [at |-> clock, store |-> store])

(* One call on the limiter of a process: on Redis if it is shared, and on  *)
(* memory if it is not or Redis fails. Mem and Red are what is done there. *)
OnRedis(p) == p \in shared /\ UNCHANGED flaky
OnMemory(p) == \/ p \notin shared /\ UNCHANGED flaky
               \/ p \in shared /\ flaky' = TRUE

Room == Len(events) + Cardinality(pending) < MaxCalls

(* hit: refused if the window is full, registered otherwise, in one step:  *)
(* a script of Redis or the lock of the process.                           *)
Hit(t) ==
  LET p == ProcessOf[t]
  IN  /\ usage = "hit"
      /\ Room
      /\ \/ /\ OnRedis(p)
            /\ redis' = IF Full(Trimmed(redis)) THEN Trimmed(redis)
                                                ELSE Trimmed(redis) \cup {New}
            /\ IF Full(Trimmed(redis)) THEN UNCHANGED events ELSE Let("redis")
            /\ UNCHANGED memory
         \/ /\ OnMemory(p)
            /\ LET q == Pruned(memory[p])
               IN  /\ memory' = [memory EXCEPT ![p] = IF Full(q) THEN q ELSE q \cup {New}]
                   /\ IF Full(q) THEN UNCHANGED events ELSE Let(p)
            /\ UNCHANGED redis
  /\ UNCHANGED <<usage, shared, clock, pending>>

(* is_limited: who is not limited goes on to verify the key.               *)
IsLimited(t) ==
  LET p == ProcessOf[t]
  IN  /\ usage = "failures"
      /\ t \notin pending
      /\ Room
      /\ \/ /\ OnRedis(p)
            /\ redis' = Trimmed(redis)
            /\ pending' = IF Full(Trimmed(redis)) THEN pending ELSE pending \cup {t}
            /\ UNCHANGED memory
         \/ /\ OnMemory(p)
            /\ memory' = [memory EXCEPT ![p] = Pruned(@)]
            /\ pending' = IF Full(Pruned(memory[p])) THEN pending ELSE pending \cup {t}
            /\ UNCHANGED redis
  /\ UNCHANGED <<usage, shared, clock, events>>

(* record: the key was wrong; the failure is registered unconditionally.   *)
Record(t) ==
  LET p == ProcessOf[t]
  IN  /\ t \in pending
      /\ pending' = pending \ {t}
      /\ \/ /\ OnRedis(p)
            /\ redis' = Trimmed(redis) \cup {New}
            /\ Let("redis")
            /\ UNCHANGED memory
         \/ /\ OnMemory(p)
            /\ memory' = [memory EXCEPT ![p] = Pruned(@) \cup {New}]
            /\ Let(p)
            /\ UNCHANGED redis
  /\ UNCHANGED <<usage, shared, clock>>

(* The key was right, or the request failed: nothing is counted.           *)
NotCounted(t) ==
  /\ t \in pending
  /\ pending' = pending \ {t}
  /\ UNCHANGED <<usage, shared, clock, redis, memory, events, flaky>>

ClockTicks ==
  /\ clock < MaxClock
  /\ clock' = clock + 1
  /\ UNCHANGED <<usage, shared, redis, memory, pending, events, flaky>>

LimiterNext ==
  \/ \E t \in Thread : Hit(t) \/ IsLimited(t) \/ Record(t) \/ NotCounted(t)
  \/ ClockTicks

LimiterSpec == LimiterInit /\ [][LimiterNext]_limiterVars

-----------------------------------------------------------------------------
(* The events let through in the window that ends at an instant.           *)
InWindow(end) == {i \in DOMAIN events : /\ events[i].at <= end
                                        /\ events[i].at + Window > end}
InWindowOf(end, store) == {i \in InWindow(end) : events[i].store = store}

(* The places where events are counted: only Redis as long as everyone     *)
(* reaches it, and each process on its own besides otherwise.              *)
Stores == IF shared = {} THEN Process
          ELSE IF ~flaky /\ shared = Process THEN {"redis"} ELSE Process \cup {"redis"}

(* No window of time lets more attempts through than the limit, once for   *)
(* each place where they are counted: exactly the limit while all share    *)
(* Redis, at most one more for each process when it fails or never         *)
(* answered. Failures may pass it by the requests that were being verified *)
(* when it was reached, and by no more as long as Redis does not fail.     *)
LimitHolds ==
  \A end \in 0..MaxClock :
    /\ usage = "hit" => Cardinality(InWindow(end)) <= MaxEvents * Cardinality(Stores)
    /\ usage = "failures" /\ ~flaky =>
         \A s \in Stores :
           Cardinality(InWindowOf(end, s)) <= MaxEvents + Cardinality(Thread) - 1
=============================================================================
