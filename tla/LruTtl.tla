------------------------------- MODULE LruTtl -------------------------------
(***************************************************************************)
(* LruTtl (common/include/hatn/common/lruttl.h): an LRU cache whose items  *)
(* expire, swept by a repeating AsioTimer (common/src/asiotimer.cpp).      *)
(*                                                                         *)
(* Users lock the cache around each call, so a call is a step.  The timer  *)
(* lives in a thread of its own: a wait that has ended (its time is up, or *)
(* it was cancelled) is queued with the thread's io context, only then its *)
(* completion runs, and it calls the handler, which waits for the cache's  *)
(* mutex.  start() and stop() take no lock and come at any of these times. *)
(* An item's age counts time units since it was constructed or touched.    *)
(***************************************************************************)
EXTENDS Lru

CONSTANTS Keys,
          Capacity,      \* capacity of the cache
          Ttls,          \* the times to live setTtl() is called with
          MaxStarts,     \* bound: calls of start()
          MaxPending,    \* bound: timer completions that are queued
          Avoided        \* the irregular calls (see Irregular) users refrain from

ASSUME LruTtlAssumption ==
    /\ Capacity \in Nat /\ MaxStarts \in Nat /\ MaxPending \in Nat
    /\ Ttls \subseteq Nat /\ \E t \in Ttls : \A u \in Ttls : u <= t

VARIABLES lru,       \* pimpl->storage and pimpl->lru
          ttlMs,
          timer,     \* the AsioTimer and the native timer below it
          wanted,    \* the user's last word on the timer
          late,      \* it came while an earlier wait was not done with
          starts

cacheVars == <<lru, ttlMs, timer, wanted, late, starts>>

MaxAge == 1 + CHOOSE t \in Ttls : \A u \in Ttls : u <= t

IsExpired(item) == item.age > ttlMs

\* The calls with an effect no user can want:
\*   replace      an item is put under a key that is cached
\*   relink       the same with pushItem(item)
Irregular(call, k) ==
    \/ call = "emplace" /\ "replace" \in Avoided /\ k \in Cached(CheckFull(lru, Capacity))
    \/ call = "push" /\ "relink" \in Avoided /\ k \in Cached(CheckFull(lru, Capacity))

----------------------------------------------------------------------------
(* AsioTimer.  armed: a wait is outstanding; ready: what ended waits will  *)
(* be completed with; handler: m_handler is set; calling: what the handler *)
(* is being called with.                                                   *)

NewTimer == [running |-> FALSE, handler |-> FALSE, armed |-> FALSE, ready |-> <<>>,
             calling |-> "None"]

\* expires_from_now and cancel end the outstanding wait with an error.
Aborted(t) == IF t.armed THEN [t EXCEPT !.armed = FALSE, !.ready = Append(@, "Cancel")] ELSE t

TimerStart(t) == [Aborted(t) EXCEPT !.running = TRUE, !.armed = TRUE]

\* A bug: a timer that is stopped keeps its wait.
TimerStopKeepsWait(t) == [t EXCEPT !.running = FALSE]

TimerStop(t) == IF t.running THEN [Aborted(t) EXCEPT !.running = FALSE] ELSE t

\* The handler LruTtl::start() installs, on Timeout: items leave from the
\* front of the list for as long as the one in front has expired.
Sweep(l) ==
    LET expired == Cardinality({n \in DOMAIN l.queue :
                                   \A m \in 1..n : IsExpired(l.storage[l.queue[m]])})
        gone == {l.queue[n] : n \in 1..expired}
    IN  [storage |-> Restrict(l.storage, Cached(l) \ gone),
         queue   |-> SubSeq(l.queue, expired + 1, Len(l.queue))]

\* invokeHandler, up to the call of the handler.
InvokeHandler ==
    /\ timer.calling = "None" /\ timer.ready # <<>>
    /\ timer' = [timer EXCEPT !.ready = Tail(@), !.running = FALSE,
                    !.calling = IF timer.handler THEN Head(timer.ready) ELSE "None"]
    /\ UNCHANGED <<lru, ttlMs, wanted, late, starts>>

\* The handler, and the rest of invokeHandler: a repeating timer starts anew,
\* whatever was asked for in the meantime.
HandlerRuns ==
    /\ LET t == [timer EXCEPT !.calling = "None"]
       IN  \/ /\ timer.calling = "Cancel"
              /\ lru' = EmptyLru /\ timer' = [t EXCEPT !.handler = FALSE]
           \/ /\ timer.calling = "Timeout"
              /\ lru' = Sweep(lru) /\ timer' = TimerStart(t)
    /\ UNCHANGED <<ttlMs, wanted, late, starts>>

\* The time of a wait is up.
Expire ==
    /\ timer.armed /\ Len(timer.ready) < MaxPending
    /\ timer' = [timer EXCEPT !.armed = FALSE, !.ready = Append(@, "Timeout")]
    /\ UNCHANGED <<lru, ttlMs, wanted, late, starts>>

\* How the next completion will end, if nobody intervenes.
NextEnd(t) ==
    IF t.ready # <<>> THEN Head(t.ready) ELSE IF t.armed THEN "Timeout" ELSE "None"

\* The cache is swept when the current or the next completion calls the handler.
Sweeps(t) ==
    /\ t.handler
    /\ \/ t.calling = "Timeout"
       \/ t.calling = "None" /\ NextEnd(t) = "Timeout"

\* A start() is late while anything is left of an earlier wait: the timer has
\* one handler for all its waits, and a cancelled one resets it.
Start ==
    /\ starts < MaxStarts /\ Len(timer.ready) < MaxPending
    /\ timer' = TimerStart([timer EXCEPT !.handler = TRUE])
    /\ wanted' = "started" /\ starts' = starts + 1
    /\ late' = (timer.armed \/ timer.ready # <<>> \/ timer.calling # "None")
    /\ UNCHANGED <<lru, ttlMs>>

\* A stop() is late once the wait it is to end has ended by itself: its
\* completion starts the timer anew.
Stop ==
    /\ Len(timer.ready) < MaxPending
    /\ timer' = TimerStop(timer) /\ wanted' = "stopped"
    /\ late' = (Sweeps(timer) /\ (timer.calling = "Timeout" \/ timer.ready # <<>>))
    /\ UNCHANGED <<lru, ttlMs, starts>>

----------------------------------------------------------------------------
(* Calls of the users.                                                     *)

\* Of an item only its age matters here.
NewItem == [age |-> 0]

Emplace(k) ==
    /\ ~Irregular("emplace", k)
    /\ lru' = EmplaceItem(lru, Capacity, k, NewItem)
    /\ UNCHANGED <<ttlMs, timer, wanted, late, starts>>

Push(k) ==
    /\ ~Irregular("push", k)
    /\ lru' = PushItem(lru, Capacity, k, NewItem)
    /\ UNCHANGED <<ttlMs, timer, wanted, late, starts>>

\* get(key), the value a user sees.
Found(k) == k \in Cached(lru) /\ ~IsExpired(lru.storage[k])

\* getAndTouch, touch, and touchItem with an item that was found.
Touch(k) ==
    /\ Found(k)
    /\ lru' = TouchItem([lru EXCEPT !.storage[k].age = 0], k)
    /\ UNCHANGED <<ttlMs, timer, wanted, late, starts>>

RemoveKey(k) ==
    /\ Found(k)
    /\ lru' = RemoveItem(lru, k)
    /\ UNCHANGED <<ttlMs, timer, wanted, late, starts>>

Clear ==
    /\ Cached(lru) # {}
    /\ lru' = EmptyLru
    /\ UNCHANGED <<ttlMs, timer, wanted, late, starts>>

SetTtl(t) ==
    /\ t # ttlMs /\ ttlMs' = t
    /\ UNCHANGED <<lru, timer, wanted, late, starts>>

\* A unit of time on: an item of MaxAge has expired whatever the time to live.
Aged(storage) ==
    [k \in DOMAIN storage |-> [storage[k] EXCEPT !.age = IF @ < MaxAge THEN @ + 1 ELSE @]]

Elapse ==
    /\ \E k \in Cached(lru) : lru.storage[k].age < MaxAge
    /\ lru' = [lru EXCEPT !.storage = Aged(@)]
    /\ UNCHANGED <<ttlMs, timer, wanted, late, starts>>

CacheInit ==
    /\ lru = EmptyLru /\ timer = NewTimer /\ ttlMs \in Ttls
    /\ wanted = "stopped" /\ late = FALSE /\ starts = 0

CacheNext ==
    \/ InvokeHandler \/ HandlerRuns \/ Expire \/ Start \/ Stop
    \/ \E k \in Keys : Emplace(k) \/ Push(k) \/ Touch(k) \/ RemoveKey(k)
    \/ Clear \/ Elapse
    \/ \E t \in Ttls : SetTtl(t)

CacheSpec == CacheInit /\ [][CacheNext]_cacheVars

----------------------------------------------------------------------------
(* Properties.                                                             *)

\* The list holds each cached item once, within the capacity, and is ordered
\* by age, the oldest item first: this is why the sweep may stop at the first
\* item that has not expired.  checkFull compares sizes with ==, so that one
\* item too many would switch the limit off.
OldestInFront ==
    /\ {lru.queue[i] : i \in DOMAIN lru.queue} = Cached(lru)
    /\ Len(lru.queue) = Cardinality(Cached(lru))
    /\ Capacity # 0 => Cardinality(Cached(lru)) <= Capacity
    /\ \A i, j \in DOMAIN lru.queue :
          i < j => lru.storage[lru.queue[i]].age >= lru.storage[lru.queue[j]].age

\* The timer does what it was last told to, unless it was told late, and
\* whatever it was told before: a start() that meets nothing of an earlier
\* wait goes on being swept, however starts and stops have raced before, and
\* a stop() of a wait that has not ended by itself leaves nothing that starts
\* the timer anew, whether other completions are queued, a handler is being
\* called or the wait is not the only one.
TimerObeys ==
    ~late => (wanted = "started" <=> Sweeps(timer))
=============================================================================
