-------------------------- MODULE ApiClient_proofs --------------------------
(***************************************************************************)
(* Proofs about ApiClient for every set of requests and sessions, every     *)
(* depth of the queues and every bound: a request is in exactly one place,  *)
(* it is called back at most once (the specification ApiRequests), it is    *)
(* never sent twice under one id, and close() leaves behind only requests   *)
(* that raced with it.                                                      *)
(***************************************************************************)
EXTENDS ApiClient, FiniteSetTheorems, TLAPS

(***************************************************************************)
(* The inductive invariant                                                  *)
(***************************************************************************)

Injective(s) == \A i, j \in DOMAIN s : s[i] = s[j] => i = j

\* Sequences of requests, each request at most once and in that of its key:
\* the send queues by priority and the waiting queues by session.
Shelved(f, D, key) ==
    \A d \in D : Injective(f[d]) /\ \A i \in DOMAIN f[d] : key[f[d][i]] = d
On(f, D) == UNION {SetOf(f[d]) : d \in D}

\* The requests of posted tasks, each of one task and with a session.
IsFor(task, r) == task \in {RefreshTask(r), WaitTask(r)}
PostedIn(ts) == {r \in Requests : \E i \in DOMAIN ts : IsFor(ts[i], r)}
PostedOnce(ts) ==
    \A r \in Requests : \A i, j \in DOMAIN ts : IsFor(ts[i], r) /\ IsFor(ts[j], r) => i = j

\* Where requests can be.
New == {r \in Requests : exec[r] = "new"}
Calling == {r \in Requests : exec[r] \in {"check", "route", "push"}}
Queued == On(queues, Prios)
Waiting == On(waiting, Sessions)
Posted == PostedIn(tasks)
Again == {r \in Requests : busy = [op |-> "reexec", req |-> r]}
Answered == {r \in Requests : answers[r] # <<>>}

One(holds) == IF holds THEN 1 ELSE 0

\* A request is in exactly one of these places.
PlacedOnce ==
    \A r \in Requests :
        One(r \in New) + One(r \in Calling) + One(r \in Queued) + One(r \in Waiting)
          + One(r \in Posted) + One(r \in Again) + One(r \in inflight)
          + One(r \in Answered) + One(r \in dropped) = 1

\* And it is there once.
HeldOnce ==
    /\ Shelved(queues, Prios, Priority)
    /\ Shelved(waiting, Sessions, SessionOf)
    /\ PostedOnce(tasks)
    /\ \A r \in Posted : HasSession(r)
    /\ \A s \in Sessions : waiting[s] # <<>> => s \in waitingKeys
    /\ \A r \in Requests : Len(answers[r]) <= 1

\* Ids: no request was sent under an id it will be sent under.
IdInv ==
    /\ \A r \in Requests : lastSent[r] <= gen[r]
    /\ \A r \in New \cup Calling \cup Queued : lastSent[r] < gen[r]

\* close(): its handler runs once the client is closed, and later nothing is
\* queued but by the callers that had passed their check.
CloseInv ==
    /\ "close" \in SetOf(handlers) => closed
    /\ closed => \A r \in Requests : exec[r] \in {"route", "push"} => r \in racing
    /\ closed /\ "close" \notin SetOf(handlers) => Queued \cup Waiting \subseteq racing

IInv == TypeOK /\ PlacedOnce /\ HeldOnce /\ IdInv /\ CloseInv

\* What a step is to the callers: exec() of a new request, the end of some
\* requests, called back or let go, cancel(), or close().
Submits(r) ==
    r \in New /\ New' = New \ {r} /\ UNCHANGED <<Answered, dropped, cancelled, closed>>

Settles(a, d) ==
    /\ a \subseteq Requests /\ d \subseteq Requests /\ a \cap d = {}
    /\ \A r \in a \cup d : r \notin New /\ r \notin Answered /\ r \notin dropped
    /\ closed \/ d \subseteq cancelled
    /\ Answered' = Answered \cup a /\ dropped' = dropped \cup d
    /\ UNCHANGED <<New, cancelled, closed>>

Allowed ==
    \/ \E r \in Requests : Submits(r)
    \/ \E a, d \in SUBSET Requests : Settles(a, d)
    \/ \E r \in Requests :
          cancelled' = cancelled \cup {r} /\ UNCHANGED <<New, Answered, dropped, closed>>
    \/ closed' = TRUE /\ UNCHANGED <<New, Answered, dropped, cancelled>>

(***************************************************************************)
(* Sequences                                                                *)
(***************************************************************************)

\* An element added to a sequence that does not hold it.
LEMMA AppendOnce ==
    ASSUME NEW S, NEW s \in Seq(S), NEW x \in S
    PROVE  /\ SetOf(Append(s, x)) = SetOf(s) \cup {x}
           /\ Injective(s) /\ x \notin SetOf(s) => Injective(Append(s, x))
           /\ DOMAIN Append(s, x) = 1..(Len(s) + 1) /\ DOMAIN s = 1..Len(s) /\ Len(s) \in Nat
           /\ \A i \in DOMAIN s : Append(s, x)[i] = s[i]
           /\ Append(s, x)[Len(s) + 1] = x
<1>1. /\ DOMAIN Append(s, x) = 1..(Len(s) + 1) /\ DOMAIN s = 1..Len(s) /\ Len(s) \in Nat
      /\ \A i \in DOMAIN s : Append(s, x)[i] = s[i]
      /\ Append(s, x)[Len(s) + 1] = x
    OBVIOUS
<1>2. SetOf(Append(s, x)) = SetOf(s) \cup {x}
    <2>1. SetOf(Append(s, x)) \subseteq SetOf(s) \cup {x}
        BY <1>1 DEF SetOf
    <2>2. SetOf(s) \subseteq SetOf(Append(s, x))
        BY <1>1 DEF SetOf
    <2>3. x \in SetOf(Append(s, x))
        BY <1>1 DEF SetOf
    <2> QED
        BY <2>1, <2>2, <2>3
<1>3. ASSUME Injective(s), x \notin SetOf(s) PROVE Injective(Append(s, x))
    <2>1. \A i \in DOMAIN s : s[i] # x
        BY <1>3 DEF SetOf
    <2> QED
        BY <1>1, <1>3, <2>1 DEF Injective
<1> QED
    BY <1>1, <1>2, <1>3

\* The first element taken off a sequence.
LEMMA TailOnce ==
    ASSUME NEW S, NEW s \in Seq(S), s # <<>>
    PROVE  /\ Tail(s) \in Seq(S) /\ Head(s) \in S /\ Head(s) = s[1] /\ 1 \in DOMAIN s
           /\ Head(s) \in SetOf(s)
           /\ SetOf(s) = SetOf(Tail(s)) \cup {Head(s)}
           /\ Injective(s) => Injective(Tail(s)) /\ SetOf(Tail(s)) = SetOf(s) \ {Head(s)}
           /\ \A i \in DOMAIN Tail(s) : i + 1 \in DOMAIN s /\ Tail(s)[i] = s[i + 1]
           /\ \A i \in DOMAIN s : i # 1 => i - 1 \in DOMAIN Tail(s) /\ Tail(s)[i - 1] = s[i]
           /\ DOMAIN Tail(s) \subseteq Nat \ {0}
<1>1. /\ Tail(s) \in Seq(S) /\ Head(s) \in S /\ Head(s) = s[1] /\ 1 \in DOMAIN s
      /\ DOMAIN s = 1..Len(s) /\ DOMAIN Tail(s) = 1..(Len(s) - 1) /\ Len(s) \in Nat \ {0}
      /\ \A i \in 1..(Len(s) - 1) : Tail(s)[i] = s[i + 1]
    OBVIOUS
<1>2. \A i \in DOMAIN Tail(s) : i + 1 \in DOMAIN s /\ Tail(s)[i] = s[i + 1]
    BY <1>1
<1>3. \A i \in DOMAIN s : i # 1 => i - 1 \in DOMAIN Tail(s) /\ Tail(s)[i - 1] = s[i]
    <2> SUFFICES ASSUME NEW i \in DOMAIN s, i # 1
                 PROVE  i - 1 \in DOMAIN Tail(s) /\ Tail(s)[i - 1] = s[i]
        OBVIOUS
    <2>1. i - 1 \in 1..(Len(s) - 1) /\ (i - 1) + 1 = i
        BY <1>1
    <2> QED
        BY <1>1, <2>1
<1>4. SetOf(s) = SetOf(Tail(s)) \cup {Head(s)}
    <2>1. SetOf(s) \subseteq SetOf(Tail(s)) \cup {Head(s)}
        BY <1>1, <1>3 DEF SetOf
    <2>2. SetOf(Tail(s)) \subseteq SetOf(s)
        BY <1>2 DEF SetOf
    <2>3. Head(s) \in SetOf(s)
        BY <1>1 DEF SetOf
    <2> QED
        BY <2>1, <2>2, <2>3
<1>5. ASSUME Injective(s)
      PROVE  Injective(Tail(s)) /\ SetOf(Tail(s)) = SetOf(s) \ {Head(s)}
    <2>1. Injective(Tail(s))
        <3> SUFFICES ASSUME NEW i \in DOMAIN Tail(s), NEW j \in DOMAIN Tail(s),
                            Tail(s)[i] = Tail(s)[j]
                     PROVE  i = j
            BY DEF Injective
        <3>1. i + 1 = j + 1
            BY <1>2, <1>5 DEF Injective
        <3> QED
            BY <1>1, <3>1
    <2>2. Head(s) \notin SetOf(Tail(s))
        <3> SUFFICES ASSUME NEW i \in DOMAIN Tail(s), Tail(s)[i] = Head(s) PROVE FALSE
            BY DEF SetOf
        <3>1. i + 1 = 1
            BY <1>1, <1>2, <1>5 DEF Injective
        <3> QED
            BY <1>1, <3>1
    <2> QED
        BY <1>4, <2>1, <2>2
<1> QED
    BY <1>1, <1>2, <1>3, <1>4, <1>5

(***************************************************************************)
(* The send queues and the waiting queues                                   *)
(***************************************************************************)

\* What the shelves hold, after a request was put on one, and after the
\* first one of shelf d was taken.
Gains(f, g, D, r) == On(g, D) = On(f, D) \cup {r}
Loses(f, g, D, d) ==
    /\ Head(f[d]) \in Requests /\ Head(f[d]) \in On(f, D)
    /\ On(g, D) = On(f, D) \ {Head(f[d])}

\* A request that is on no shelf is put at the end of its own.
LEMMA ShelfPush ==
    ASSUME NEW D, NEW key, NEW f \in [D -> Seq(Requests)], Shelved(f, D, key),
           NEW r \in Requests, key[r] \in D, r \notin On(f, D),
           NEW g \in [D -> Seq(Requests)], g[key[r]] = Append(f[key[r]], r),
           \A d \in D : d # key[r] => g[d] = f[d]
    PROVE  Shelved(g, D, key) /\ Gains(f, g, D, r)
<1>1. /\ g[key[r]] = Append(f[key[r]], r)
      /\ \A d \in D : d # key[r] => g[d] = f[d]
    OBVIOUS
<1>2. r \notin SetOf(f[key[r]])
    BY DEF On
<1>3. Injective(g[key[r]]) /\ SetOf(g[key[r]]) = SetOf(f[key[r]]) \cup {r}
    BY <1>1, <1>2, AppendOnce DEF Shelved
<1>4. \A i \in DOMAIN g[key[r]] : key[g[key[r]][i]] = key[r]
    <2>1. f[key[r]] \in Seq(Requests)
        OBVIOUS
    <2>2. /\ DOMAIN g[key[r]] = 1..(Len(f[key[r]]) + 1)
          /\ DOMAIN f[key[r]] = 1..Len(f[key[r]]) /\ Len(f[key[r]]) \in Nat
          /\ \A i \in DOMAIN f[key[r]] : g[key[r]][i] = f[key[r]][i]
          /\ g[key[r]][Len(f[key[r]]) + 1] = r
        BY <1>1, <2>1, AppendOnce
    <2> QED
        BY <2>2 DEF Shelved
<1>5. Shelved(g, D, key)
    BY <1>1, <1>3, <1>4 DEF Shelved
<1>6. On(g, D) = On(f, D) \cup {r}
    <2>1. \A d \in D : SetOf(g[d]) = IF d = key[r] THEN SetOf(f[d]) \cup {r} ELSE SetOf(f[d])
        BY <1>1, <1>3
    <2> QED
        BY ONLY key[r] \in D, <2>1 DEF On
<1> QED
    BY <1>5, <1>6 DEF Gains

\* The first request of a shelf is taken.
LEMMA ShelfPop ==
    ASSUME NEW D, NEW key, NEW f \in [D -> Seq(Requests)], Shelved(f, D, key),
           NEW d \in D, f[d] # <<>>,
           NEW g \in [D -> Seq(Requests)], g[d] = Tail(f[d]), \A e \in D : e # d => g[e] = f[e]
    PROVE  Shelved(g, D, key) /\ Loses(f, g, D, d)
<1> DEFINE r == Head(f[d])
<1>1. f[d] \in Seq(Requests)
    OBVIOUS
<1>2. /\ Tail(f[d]) \in Seq(Requests) /\ r \in Requests /\ r = f[d][1] /\ 1 \in DOMAIN f[d]
      /\ r \in SetOf(f[d]) /\ Injective(Tail(f[d])) /\ SetOf(Tail(f[d])) = SetOf(f[d]) \ {r}
      /\ \A i \in DOMAIN Tail(f[d]) : i + 1 \in DOMAIN f[d] /\ Tail(f[d])[i] = f[d][i + 1]
    BY <1>1, TailOnce DEF Shelved
<1>3. g[d] = Tail(f[d]) /\ \A e \in D : e # d => g[e] = f[e]
    OBVIOUS
<1>4. key[r] = d /\ r \in On(f, D)
    BY <1>2 DEF Shelved, On
<1>5. \A e \in D : e # d => r \notin SetOf(f[e])
    BY <1>4 DEF Shelved, SetOf
<1>6. Shelved(g, D, key)
    <2>1. Injective(g[d]) /\ \A i \in DOMAIN g[d] : key[g[d][i]] = d
        BY <1>2, <1>3 DEF Shelved
    <2>2. ASSUME NEW e \in D, e # d
          PROVE  Injective(g[e]) /\ \A i \in DOMAIN g[e] : key[g[e][i]] = e
        BY <1>3, <2>2 DEF Shelved
    <2> QED
        BY ONLY <2>1, <2>2 DEF Shelved
<1>7. On(g, D) = On(f, D) \ {r}
    <2>1. \A e \in D : SetOf(g[e]) = SetOf(f[e]) \ {r}
        BY <1>2, <1>3, <1>5
    <2> QED
        BY ONLY <2>1 DEF On
<1> QED
    BY <1>2, <1>4, <1>6, <1>7 DEF Loses

\* A request is queued for sending.
LEMMA QueuePush ==
    ASSUME TypeOK, HeldOnce, NEW r \in Requests, r \notin Queued,
           queues' = [queues EXCEPT ![Priority[r]] = Append(@, r)]
    PROVE  /\ queues' \in [Prios -> Seq(Requests)] /\ Shelved(queues', Prios, Priority)
           /\ Queued' = Queued \cup {r}
<1>1. queues \in [Prios -> Seq(Requests)]
    BY DEF TypeOK
<1>2. Shelved(queues, Prios, Priority)
    BY DEF HeldOnce
<1>3. Priority[r] \in Prios
    BY ApiClientAssumption
<1>4. r \notin On(queues, Prios)
    BY DEF Queued
<1>5. queues' \in [Prios -> Seq(Requests)]
    BY <1>1, <1>3
<1>6. queues'[Priority[r]] = Append(queues[Priority[r]], r)
    BY <1>1, <1>3
<1>7. \A d \in Prios : d # Priority[r] => queues'[d] = queues[d]
    BY <1>1, <1>3
<1>8. Shelved(queues', Prios, Priority) /\ Gains(queues, queues', Prios, r)
    BY <1>1, <1>2, <1>3, <1>4, <1>5, <1>6, <1>7, ShelfPush, Zenon
<1> QED
    BY <1>5, <1>8 DEF Gains, Queued

\* The first request of a priority is taken.
LEMMA QueuePop ==
    ASSUME TypeOK, HeldOnce, NEW p \in Prios, queues[p] # <<>>,
           queues' = [queues EXCEPT ![p] = Tail(@)]
    PROVE  /\ queues' \in [Prios -> Seq(Requests)] /\ Shelved(queues', Prios, Priority)
           /\ Head(queues[p]) \in Requests /\ Head(queues[p]) \in Queued
           /\ Queued' = Queued \ {Head(queues[p])}
<1>1. queues \in [Prios -> Seq(Requests)]
    BY DEF TypeOK
<1>2. Shelved(queues, Prios, Priority)
    BY DEF HeldOnce
<1>3. Tail(queues[p]) \in Seq(Requests)
    BY <1>1
<1>4. queues' \in [Prios -> Seq(Requests)]
    BY <1>1, <1>3
<1>5. queues'[p] = Tail(queues[p])
    BY <1>1
<1>6. \A e \in Prios : e # p => queues'[e] = queues[e]
    BY <1>1
<1>7. Shelved(queues', Prios, Priority) /\ Loses(queues, queues', Prios, p)
    BY <1>1, <1>2, <1>4, <1>5, <1>6, ShelfPop, Zenon
<1> QED
    BY <1>4, <1>7 DEF Loses, Queued

\* A request joins those that wait for its session.
LEMMA WaitPush ==
    ASSUME TypeOK, HeldOnce, NEW r \in Requests, r \notin Waiting, HasSession(r),
           waiting' = [waiting EXCEPT ![SessionOf[r]] = Append(@, r)]
    PROVE  /\ waiting' \in [Sessions -> Seq(Requests)] /\ Shelved(waiting', Sessions, SessionOf)
           /\ Waiting' = Waiting \cup {r}
<1>1. waiting \in [Sessions -> Seq(Requests)]
    BY DEF TypeOK
<1>2. Shelved(waiting, Sessions, SessionOf)
    BY DEF HeldOnce
<1>3. SessionOf[r] \in Sessions
    BY ApiClientAssumption DEF HasSession
<1>4. r \notin On(waiting, Sessions)
    BY DEF Waiting
<1>5. waiting' \in [Sessions -> Seq(Requests)]
    BY <1>1, <1>3
<1>6. waiting'[SessionOf[r]] = Append(waiting[SessionOf[r]], r)
    BY <1>1, <1>3
<1>7. \A d \in Sessions : d # SessionOf[r] => waiting'[d] = waiting[d]
    BY <1>1, <1>3
<1>8. Shelved(waiting', Sessions, SessionOf) /\ Gains(waiting, waiting', Sessions, r)
    BY <1>1, <1>2, <1>3, <1>4, <1>5, <1>6, <1>7, ShelfPush, Zenon
<1> QED
    BY <1>5, <1>8 DEF Gains, Waiting

\* The first request that waits for a session is taken.
LEMMA WaitPop ==
    ASSUME TypeOK, HeldOnce, NEW s \in Sessions, waiting[s] # <<>>,
           waiting' = [waiting EXCEPT ![s] = Tail(@)]
    PROVE  /\ waiting' \in [Sessions -> Seq(Requests)] /\ Shelved(waiting', Sessions, SessionOf)
           /\ Head(waiting[s]) \in Requests /\ Head(waiting[s]) \in Waiting
           /\ Waiting' = Waiting \ {Head(waiting[s])}
<1>1. waiting \in [Sessions -> Seq(Requests)]
    BY DEF TypeOK
<1>2. Shelved(waiting, Sessions, SessionOf)
    BY DEF HeldOnce
<1>3. Tail(waiting[s]) \in Seq(Requests)
    BY <1>1
<1>4. waiting' \in [Sessions -> Seq(Requests)]
    BY <1>1, <1>3
<1>5. waiting'[s] = Tail(waiting[s])
    BY <1>1
<1>6. \A e \in Sessions : e # s => waiting'[e] = waiting[e]
    BY <1>1
<1>7. Shelved(waiting', Sessions, SessionOf) /\ Loses(waiting, waiting', Sessions, s)
    BY <1>1, <1>2, <1>4, <1>5, <1>6, ShelfPop, Zenon
<1> QED
    BY <1>4, <1>7 DEF Loses, Waiting

\* What the queues hold are requests.
LEMMA HeldAreRequests ==
    ASSUME TypeOK PROVE Queued \cup Waiting \subseteq Requests
<1>1. \A p \in Prios : SetOf(queues[p]) \subseteq Requests
    BY DEF TypeOK, SetOf
<1>2. \A s \in Sessions : SetOf(waiting[s]) \subseteq Requests
    BY DEF TypeOK, SetOf
<1> QED
    BY <1>1, <1>2 DEF Queued, Waiting, On

\* What close() and the network's end empty are the queues of both kinds.
LEMMA HeldIsQueuedOrWaiting ==
    ASSUME TypeOK, HeldOnce PROVE Held = Queued \cup Waiting
<1>1. \A s \in Sessions : s \notin waitingKeys => SetOf(waiting[s]) = {}
    BY DEF HeldOnce, SetOf
<1>2. waitingKeys \subseteq Sessions
    BY DEF TypeOK
<1>3. UNION {SetOf(waiting[s]) : s \in waitingKeys} = UNION {SetOf(waiting[s]) : s \in Sessions}
    BY <1>1, <1>2
<1> QED
    BY <1>3 DEF Held, Queued, Waiting, On

(***************************************************************************)
(* Posted tasks                                                             *)
(***************************************************************************)

\* A task is for one request, a dequeue for none.
LEMMA TaskKinds ==
    /\ \A q \in Requests : ~IsFor(DequeueTask, q)
    /\ \A q, r \in Requests : \A x : IsFor(x, q) /\ IsFor(x, r) => q = r
    /\ \A r \in Requests : RefreshTask(r) \in TaskType /\ WaitTask(r) \in TaskType
    /\ DequeueTask \in TaskType
    /\ \A x \in TaskType : x # DequeueTask => x.req \in Requests /\ IsFor(x, x.req)
    /\ \A x \in TaskType : x.op = "dequeue" <=> x = DequeueTask
<1>1. /\ \A q \in Requests : ~IsFor(DequeueTask, q)
      /\ \A q, r \in Requests : \A x : IsFor(x, q) /\ IsFor(x, r) => q = r
    BY DEF IsFor, DequeueTask, RefreshTask, WaitTask
<1>2. /\ \A r \in Requests : RefreshTask(r) \in TaskType /\ WaitTask(r) \in TaskType
      /\ DequeueTask \in TaskType
    BY DEF TaskType, RefreshTask, WaitTask
<1>3. ASSUME NEW x \in TaskType, x # DequeueTask
      PROVE  x.req \in Requests /\ IsFor(x, x.req) /\ x.op # "dequeue"
    <2>1. x \in [op : {"refreshSession", "pushToSessionWaitingQueue"}, req : Requests]
        BY <1>3 DEF TaskType
    <2>2. x.req \in Requests /\ x = [op |-> x.op, req |-> x.req]
        BY <2>1
    <2>3. x.op \in {"refreshSession", "pushToSessionWaitingQueue"}
        BY <2>1
    <2> QED
        BY <2>2, <2>3 DEF IsFor, RefreshTask, WaitTask
<1>4. DequeueTask.op = "dequeue"
    BY DEF DequeueTask
<1> QED
    BY <1>1, <1>2, <1>3, <1>4

\* A dequeue is posted.
LEMMA PostDequeue ==
    ASSUME NEW ts \in Seq(TaskType)
    PROVE  /\ Append(ts, DequeueTask) \in Seq(TaskType)
           /\ PostedIn(Append(ts, DequeueTask)) = PostedIn(ts)
           /\ PostedOnce(ts) => PostedOnce(Append(ts, DequeueTask))
<1> DEFINE us == Append(ts, DequeueTask)
<1>1. /\ us \in Seq(TaskType) /\ DOMAIN us = 1..(Len(ts) + 1) /\ DOMAIN ts = 1..Len(ts)
      /\ Len(ts) \in Nat /\ \A i \in DOMAIN ts : us[i] = ts[i]
      /\ us[Len(ts) + 1] = DequeueTask
    BY TaskKinds, AppendOnce
<1>2. \A r \in Requests : \A i \in DOMAIN us : IsFor(us[i], r) => i \in DOMAIN ts /\ IsFor(ts[i], r)
    BY <1>1, TaskKinds
<1>3. PostedIn(us) = PostedIn(ts)
    BY <1>1, <1>2 DEF PostedIn
<1>4. PostedOnce(ts) => PostedOnce(us)
    BY <1>2 DEF PostedOnce
<1> QED
    BY <1>1, <1>3, <1>4

\* A task for a request is posted.
LEMMA PostRequest ==
    ASSUME NEW ts \in Seq(TaskType), NEW r \in Requests, r \notin PostedIn(ts),
           NEW x \in {RefreshTask(r), WaitTask(r)}
    PROVE  /\ Append(ts, x) \in Seq(TaskType)
           /\ PostedIn(Append(ts, x)) = PostedIn(ts) \cup {r}
           /\ PostedOnce(ts) => PostedOnce(Append(ts, x))
<1> DEFINE us == Append(ts, x)
<1>1. x \in TaskType /\ IsFor(x, r)
    BY TaskKinds DEF IsFor
<1>2. /\ us \in Seq(TaskType) /\ DOMAIN us = 1..(Len(ts) + 1) /\ DOMAIN ts = 1..Len(ts)
      /\ Len(ts) \in Nat /\ \A i \in DOMAIN ts : us[i] = ts[i]
      /\ us[Len(ts) + 1] = x
    BY <1>1, AppendOnce
<1>3. ASSUME NEW q \in Requests, NEW i \in DOMAIN us, IsFor(us[i], q)
      PROVE  \/ i \in DOMAIN ts /\ IsFor(ts[i], q) /\ q # r
             \/ i = Len(ts) + 1 /\ q = r
    <2>1. CASE i \in DOMAIN ts
        <3>1. IsFor(ts[i], q)
            BY <1>2, <1>3, <2>1
        <3> QED
            BY <2>1, <3>1 DEF PostedIn
    <2>2. CASE i = Len(ts) + 1
        BY <1>1, <1>2, <1>3, <2>2, TaskKinds
    <2> QED
        BY <1>2, <2>1, <2>2
<1>4. PostedIn(us) = PostedIn(ts) \cup {r}
    <2>1. PostedIn(us) \subseteq PostedIn(ts) \cup {r}
        BY <1>3 DEF PostedIn
    <2>2. PostedIn(ts) \subseteq PostedIn(us)
        BY <1>2 DEF PostedIn
    <2>3. Len(ts) + 1 \in DOMAIN us
        BY <1>2
    <2>4. r \in PostedIn(us)
        BY <1>1, <1>2, <2>3 DEF PostedIn
    <2> QED
        BY <2>1, <2>2, <2>4
<1>5. PostedOnce(ts) => PostedOnce(us)
    BY <1>3 DEF PostedOnce
<1> QED
    BY <1>2, <1>4, <1>5

\* The client's thread takes a task.
LEMMA TakeTask ==
    ASSUME NEW ts \in Seq(TaskType), ts # <<>>, PostedOnce(ts)
    PROVE  /\ Tail(ts) \in Seq(TaskType) /\ Head(ts) \in TaskType /\ PostedOnce(Tail(ts))
           /\ Head(ts) = DequeueTask => PostedIn(Tail(ts)) = PostedIn(ts)
           /\ Head(ts) # DequeueTask =>
                /\ Head(ts).req \in PostedIn(ts) /\ Head(ts).req \in Requests
                /\ PostedIn(Tail(ts)) = PostedIn(ts) \ {Head(ts).req}
<1> DEFINE us == Tail(ts)
           h == Head(ts)
<1>1. /\ us \in Seq(TaskType) /\ h \in TaskType /\ h = ts[1] /\ 1 \in DOMAIN ts
      /\ \A i \in DOMAIN us : i + 1 \in DOMAIN ts /\ us[i] = ts[i + 1]
      /\ \A i \in DOMAIN ts : i # 1 => i - 1 \in DOMAIN us /\ us[i - 1] = ts[i]
      /\ DOMAIN us \subseteq Nat \ {0}
    BY TailOnce
<1>2. PostedOnce(us)
    <2> SUFFICES ASSUME NEW r \in Requests, NEW i \in DOMAIN us, NEW j \in DOMAIN us,
                        IsFor(us[i], r), IsFor(us[j], r)
                 PROVE  i = j
        BY DEF PostedOnce
    <2>1. i + 1 = j + 1
        BY <1>1 DEF PostedOnce
    <2> QED
        BY <1>1, <2>1
<1>3. \A r \in Requests : r \in PostedIn(us) => r \in PostedIn(ts)
    BY <1>1 DEF PostedIn
<1>4. \A r \in Requests : r \in PostedIn(ts) /\ ~IsFor(h, r) => r \in PostedIn(us)
    <2> SUFFICES ASSUME NEW r \in Requests, NEW i \in DOMAIN ts, IsFor(ts[i], r), ~IsFor(h, r)
                 PROVE  \E j \in DOMAIN us : IsFor(us[j], r)
        BY DEF PostedIn
    <2>1. i # 1
        BY <1>1
    <2> QED
        BY <1>1, <2>1
<1>5. \A r \in Requests : IsFor(h, r) => r \notin PostedIn(us)
    <2> SUFFICES ASSUME NEW r \in Requests, NEW i \in DOMAIN us, IsFor(us[i], r), IsFor(h, r)
                 PROVE  FALSE
        BY DEF PostedIn
    <2>1. i + 1 = 1
        BY <1>1 DEF PostedOnce
    <2> QED
        BY <1>1, <2>1
<1>6. h # DequeueTask => h.req \in Requests /\ IsFor(h, h.req) /\ h.req \in PostedIn(ts)
    BY <1>1, TaskKinds DEF PostedIn
<1>7. h = DequeueTask => PostedIn(us) = PostedIn(ts)
    BY <1>3, <1>4, TaskKinds DEF PostedIn
<1>8. h # DequeueTask => PostedIn(us) = PostedIn(ts) \ {h.req}
    BY <1>3, <1>4, <1>5, <1>6, TaskKinds DEF PostedIn
<1> QED
    BY <1>1, <1>2, <1>6, <1>7, <1>8

(***************************************************************************)
(* What steps have in common                                                *)
(***************************************************************************)

\* What the client's thread is in the middle of.
LEMMA BusyKinds ==
    ASSUME TypeOK
    PROVE  /\ busy = Idle => Again = {} /\ busy.op = "idle"
           /\ busy.op = "dequeue" =>
                busy \in [op : {"dequeue"}, p : Prios] /\ busy.p \in Prios /\ Again = {}
           /\ busy.op = "reexec" => busy.req \in Requests /\ Again = {busy.req}
           /\ busy.op = "drain" => busy.s \in Sessions /\ busy.ok \in BOOLEAN /\ Again = {}
<1>1. busy \in BusyType
    BY DEF TypeOK
<1>2. CASE busy = Idle
    BY <1>2 DEF Idle, Again
<1>3. CASE busy \in [op : {"dequeue"}, p : Prios]
    BY <1>3 DEF Idle, Again
<1>4. CASE busy \in [op : {"reexec"}, req : Requests]
    <2>1. /\ busy.op = "reexec" /\ busy.req \in Requests
          /\ busy = [op |-> "reexec", req |-> busy.req]
        BY <1>4
    <2>2. \A r \in Requests : busy = [op |-> "reexec", req |-> r] <=> r = busy.req
        BY <2>1
    <2> QED
        BY <2>1, <2>2 DEF Idle, Again
<1>5. CASE busy \in [op : {"drain"}, s : Sessions, ok : BOOLEAN]
    BY <1>5 DEF Idle, Again
<1> QED
    BY <1>1, <1>2, <1>3, <1>4, <1>5 DEF BusyType

\* A request that has not been answered is called back.
LEMMA AnswerOnce ==
    ASSUME TypeOK, HeldOnce, NEW r \in Requests, r \notin Answered, NEW result \in Result,
           Answer(r, result)
    PROVE  /\ answers' \in [Requests -> Seq(Result)]
           /\ Answered' = Answered \cup {r}
           /\ \A q \in Requests : Len(answers'[q]) <= 1
<1>1. /\ answers \in [Requests -> Seq(Result)] /\ answers[r] = <<>>
      /\ answers' = [answers EXCEPT ![r] = Append(@, result)]
    BY DEF TypeOK, Answered, Answer
<1>2. /\ answers' \in [Requests -> Seq(Result)] /\ answers'[r] = <<result>>
      /\ \A q \in Requests : q # r => answers'[q] = answers[q]
    BY <1>1
<1>3. <<result>> # <<>> /\ Len(<<result>>) = 1
    OBVIOUS
<1>4. Answered' = Answered \cup {r}
    BY <1>2, <1>3 DEF Answered
<1>5. ASSUME NEW q \in Requests PROVE Len(answers'[q]) <= 1
    <2>1. CASE q = r
        <3>1. answers'[q] = <<result>> /\ Len(<<result>>) = 1
            BY <1>2, <1>3, <2>1
        <3> QED
            BY ONLY <3>1
    <2>2. CASE q # r
        <3>1. Len(answers[q]) <= 1
            BY DEF HeldOnce
        <3> QED
            BY <1>2, <2>2, <3>1
    <2> QED
        BY <2>1, <2>2
<1> QED
    BY <1>2, <1>4, <1>5

\* doExec on the client's thread: the request is refused, waits for its
\* session, or is queued under a new id.
LEMMA DoExecAgainMoves ==
    ASSUME TypeOK, HeldOnce, NEW r \in Requests, NEW counts,
           r \notin Answered, r \notin Queued, r \notin Posted, DoExecAgain(r, tasks, counts)
    PROVE  /\ queues' \in [Prios -> Seq(Requests)] /\ Shelved(queues', Prios, Priority)
           /\ tasks' \in Seq(TaskType) /\ PostedOnce(tasks')
           /\ answers' \in [Requests -> Seq(Result)]
           /\ \A q \in Requests : Len(answers'[q]) <= 1
           /\ gen' \in [Requests -> Nat]
           /\ \A q \in Requests : gen'[q] >= gen[q]
           /\ \/ /\ Answered' = Answered \cup {r} /\ UNCHANGED <<Queued, Posted>>
              \/ /\ Posted' = Posted \cup {r} /\ UNCHANGED <<Queued, Answered>>
                 /\ HasSession(r) /\ ~closed
              \/ /\ Queued' = Queued \cup {r} /\ UNCHANGED <<Posted, Answered>>
                 /\ gen'[r] > gen[r] /\ ~closed
<1> DEFINE refusal == Refusal(QueueFilled(r, counts))
<1> USE ApiClientAssumption
<1>1. refusal # "none" => refusal \in Result
    BY DEF Refusal, Result
<1>2. refusal = "none" => ~closed
    BY DEF Refusal
<1>3. /\ tasks \in Seq(TaskType) /\ PostedOnce(tasks) /\ gen \in [Requests -> Nat]
      /\ queues \in [Prios -> Seq(Requests)] /\ Shelved(queues, Prios, Priority)
      /\ answers \in [Requests -> Seq(Result)] /\ \A q \in Requests : Len(answers[q]) <= 1
    BY DEF TypeOK, HeldOnce
<1>4. CASE refusal # "none" /\ Answer(r, refusal) /\ tasks' = tasks /\ UNCHANGED <<queues, gen>>
    <2>1. /\ answers' \in [Requests -> Seq(Result)] /\ Answered' = Answered \cup {r}
          /\ \A q \in Requests : Len(answers'[q]) <= 1
        BY <1>1, <1>4, AnswerOnce
    <2>2. UNCHANGED <<Queued, Posted>>
        BY <1>4 DEF Queued, Posted
    <2> QED
        BY <1>3, <1>4, <2>1, <2>2
<1>5. CASE /\ refusal = "none" /\ ~SessionReady(r) /\ tasks' = Append(tasks, WaitTask(r))
           /\ UNCHANGED <<queues, gen, answers>>
    <2>1. tasks' \in Seq(TaskType) /\ PostedOnce(tasks') /\ Posted' = Posted \cup {r}
        BY <1>3, <1>5, PostRequest DEF Posted
    <2>2. UNCHANGED <<Queued, Answered>> /\ HasSession(r)
        BY <1>5 DEF Queued, Answered, SessionReady
    <2> QED
        BY <1>2, <1>3, <1>5, <2>1, <2>2
<1>6. CASE /\ refusal = "none"
           /\ gen' = [gen EXCEPT ![r] = @ + 1]
           /\ queues' = [queues EXCEPT ![Priority[r]] = Append(@, r)]
           /\ tasks' = Append(tasks, DequeueTask) /\ UNCHANGED answers
    <2>2. /\ queues' \in [Prios -> Seq(Requests)] /\ Shelved(queues', Prios, Priority)
          /\ Queued' = Queued \cup {r}
        BY <1>6, QueuePush
    <2>3. tasks' \in Seq(TaskType) /\ PostedOnce(tasks') /\ Posted' = Posted
        BY <1>3, <1>6, PostDequeue DEF Posted
    <2>4. /\ gen' \in [Requests -> Nat] /\ gen'[r] > gen[r]
          /\ \A q \in Requests : gen'[q] >= gen[q]
        BY <1>3, <1>6
    <2>5. UNCHANGED Answered
        BY <1>6 DEF Answered
    <2> QED
        BY <1>2, <1>3, <1>6, <2>2, <2>3, <2>4, <2>5
<1> QED
    BY <1>4, <1>5, <1>6 DEF DoExecAgain

\* All queues are emptied, and what they held is called back or let go.
LEMMA AbortAllMoves ==
    ASSUME TypeOK, HeldOnce, PlacedOnce, NEW callBack \in BOOLEAN, AbortAll(callBack)
    PROVE  /\ queues' \in [Prios -> Seq(Requests)] /\ Shelved(queues', Prios, Priority)
           /\ waiting' \in [Sessions -> Seq(Requests)] /\ Shelved(waiting', Sessions, SessionOf)
           /\ \A s \in Sessions : waiting'[s] = <<>>
           /\ waitingKeys' \subseteq Sessions /\ waitCount' \in [Prios -> Nat]
           /\ answers' \in [Requests -> Seq(Result)] /\ dropped' \subseteq Requests
           /\ \A q \in Requests : Len(answers'[q]) <= 1
           /\ Queued' = {} /\ Waiting' = {}
           /\ \E aborted \in SUBSET (Queued \cup Waiting) :
                /\ Answered' = Answered \cup aborted
                /\ dropped' = dropped \cup ((Queued \cup Waiting) \ aborted)
                /\ callBack => (Queued \cup Waiting) \ aborted \subseteq cancelled
<1> DEFINE aborted == IF callBack THEN Held \ cancelled ELSE {}
<1>1. Held = Queued \cup Waiting
    BY HeldIsQueuedOrWaiting
<1>2. Queued \cup Waiting \subseteq Requests
    BY HeldAreRequests
<1>3. \A r \in Queued \cup Waiting : answers[r] = <<>>
    BY <1>2 DEF PlacedOnce, One, Answered
<1>4. /\ queues' \in [Prios -> Seq(Requests)] /\ \A p \in Prios : queues'[p] = <<>>
      /\ waiting' \in [Sessions -> Seq(Requests)] /\ \A s \in Sessions : waiting'[s] = <<>>
      /\ waitingKeys' \subseteq Sessions /\ waitCount' \in [Prios -> Nat]
    BY DEF AbortAll
<1>5. /\ Shelved(queues', Prios, Priority) /\ Shelved(waiting', Sessions, SessionOf)
      /\ Queued' = {} /\ Waiting' = {}
    BY <1>4 DEF Shelved, Injective, Queued, Waiting, On, SetOf
<1>6. /\ aborted \subseteq Queued \cup Waiting
      /\ dropped' = dropped \cup ((Queued \cup Waiting) \ aborted)
      /\ callBack => (Queued \cup Waiting) \ aborted \subseteq cancelled
    BY <1>1 DEF AbortAll
<1>7. /\ \A r \in Requests : answers'[r] = IF r \in aborted THEN Append(answers[r], "aborted")
                                           ELSE answers[r]
      /\ DOMAIN answers' = Requests
      /\ answers' = [r \in Requests |-> answers'[r]]
    BY DEF AbortAll
<1>8. \A r \in aborted : answers'[r] = <<"aborted">>
    BY <1>2, <1>3, <1>6, <1>7
<1>9. \A r \in Requests : answers'[r] \in Seq(Result) /\ Len(answers'[r]) <= 1
    <2>1. ASSUME NEW r \in aborted PROVE answers'[r] \in Seq(Result) /\ Len(answers'[r]) <= 1
        <3>1. <<"aborted">> \in Seq(Result) /\ Len(<<"aborted">>) = 1
            BY DEF Result
        <3>2. answers'[r] = <<"aborted">>
            BY <1>8
        <3> QED
            BY ONLY <3>1, <3>2
    <2>2. \A r \in Requests \ aborted : answers'[r] \in Seq(Result) /\ Len(answers'[r]) <= 1
        BY <1>7 DEF TypeOK, HeldOnce
    <2> QED
        BY <2>1, <2>2
<1>10. Answered' = Answered \cup aborted
    BY <1>2, <1>6, <1>7, <1>8 DEF Answered
<1>11. answers' \in [Requests -> Seq(Result)]
    BY <1>7, <1>9
<1>12. dropped' \subseteq Requests
    BY <1>2, <1>6 DEF TypeOK
<1> QED
    BY <1>4, <1>5, <1>6, <1>9, <1>10, <1>11, <1>12
(***************************************************************************)
(* Each action keeps the invariant                                          *)
(***************************************************************************)

\* A caller begins exec().
LEMMA ExecReadPreserves ==
    ASSUME IInv, NEW r \in Requests, ExecRead(r)
    PROVE  IInv' /\ Allowed
<1> USE DEF IInv
<1>1. UNCHANGED <<queues, waiting, waitingKeys, waitCount, tasks, handlers, busy, closed,
                     disconnected, racing, valid, refreshing, refreshCb, inflight, cancelled,
                     answers, dropped, gen, lastSent, authErrors, outsideEvents,
                     otherRefreshed>>
    BY DEF ExecRead, callerVars, waitVars, threadVars, flagVars, sessionVars, resultVars,
        idVars, boundVars
<1>2. UNCHANGED <<Queued, Waiting, Posted, Again, Answered>>
    BY <1>1 DEF Queued, Waiting, Posted, Again, Answered
<1>3. /\ exec[r] = "new" /\ exec' = [exec EXCEPT ![r] = "check"]
      /\ exec \in [Requests -> {"new", "check", "route", "push", "done"}]
    BY DEF ExecRead, TypeOK
<1>4. full' \in [Requests -> BOOLEAN]
    <2>1. QueueFilled(r, waitCount) \in BOOLEAN
        BY DEF QueueFilled
    <2> QED
        BY <2>1 DEF ExecRead, TypeOK
<1>5. New' = New \ {r} /\ Calling' = Calling \cup {r} /\ r \in New
    BY <1>3 DEF New, Calling
<1>6. TypeOK'
    BY <1>1, <1>2, <1>3, <1>4, <1>5 DEF TypeOK
<1>7. PlacedOnce'
    BY <1>1, <1>2, <1>3, <1>4, <1>5 DEF PlacedOnce, One
<1>8. HeldOnce'
    BY <1>1, <1>2, <1>3, <1>4, <1>5 DEF HeldOnce
<1>9. IdInv'
    BY <1>1, <1>2, <1>3, <1>4, <1>5 DEF IdInv
<1>10. CloseInv'
    BY <1>1, <1>2, <1>3, <1>4, <1>5 DEF TypeOK, CloseInv
<1>11. Allowed
    BY <1>1, <1>2, <1>3, <1>4, <1>5 DEF Allowed, Submits
<1> QED
    BY <1>6, <1>7, <1>8, <1>9, <1>10, <1>11

\* A caller is refused, or goes on.
LEMMA ExecCheckPreserves ==
    ASSUME IInv, NEW r \in Requests, ExecCheck(r)
    PROVE  IInv' /\ Allowed
<1> USE DEF IInv
<1>1. UNCHANGED <<full, queues, waiting, waitingKeys, waitCount, tasks, handlers, busy,
                     closed, disconnected, racing, valid, refreshing, refreshCb, inflight,
                     cancelled, dropped, gen, lastSent, authErrors, outsideEvents,
                     otherRefreshed>>
    BY DEF ExecCheck, callerVars, waitVars, threadVars, flagVars, sessionVars, resultVars,
        idVars, boundVars
<1>2. UNCHANGED <<Queued, Waiting, Posted, Again>>
    BY <1>1 DEF Queued, Waiting, Posted, Again
<1>3. exec[r] = "check" /\ exec \in [Requests -> {"new", "check", "route", "push", "done"}]
    BY DEF ExecCheck, TypeOK
<1>4. r \in Calling /\ r \notin Answered
    BY <1>3 DEF Calling, PlacedOnce, One
<1>5. \/ /\ exec' = [exec EXCEPT ![r] = "done"] /\ Calling' = Calling \ {r} /\ New' = New
         /\ Answered' = Answered \cup {r}
         /\ answers' \in [Requests -> Seq(Result)] /\ \A q \in Requests : Len(answers'[q]) <= 1
      \/ /\ exec' = [exec EXCEPT ![r] = "route"] /\ Calling' = Calling /\ New' = New
         /\ UNCHANGED <<answers, Answered>> /\ ~closed
    <2>1. CASE /\ Refusal(full[r]) # "none" /\ Answer(r, Refusal(full[r]))
               /\ exec' = [exec EXCEPT ![r] = "done"]
        <3>1. Refusal(full[r]) \in Result
            BY <2>1 DEF Refusal, Result
        <3>2. /\ answers' \in [Requests -> Seq(Result)] /\ Answered' = Answered \cup {r}
              /\ \A q \in Requests : Len(answers'[q]) <= 1
            BY <1>4, <2>1, <3>1, AnswerOnce
        <3>3. Calling' = Calling \ {r} /\ New' = New
            BY <1>3, <2>1 DEF Calling, New
        <3> QED
            BY <2>1, <3>2, <3>3
    <2>2. CASE /\ Refusal(full[r]) = "none" /\ exec' = [exec EXCEPT ![r] = "route"]
               /\ UNCHANGED answers
        <3>1. ~closed
            BY <2>2 DEF Refusal
        <3>2. Calling' = Calling /\ New' = New /\ UNCHANGED Answered
            BY <1>3, <2>2 DEF Calling, New, Answered
        <3> QED
            BY <2>2, <3>1, <3>2
    <2> QED
        BY <2>1, <2>2 DEF ExecCheck
<1>6. TypeOK'
    BY <1>1, <1>2, <1>3, <1>4, <1>5 DEF TypeOK
<1>7. PlacedOnce'
    BY <1>1, <1>2, <1>3, <1>4, <1>5 DEF PlacedOnce, One
<1>8. HeldOnce'
    BY <1>1, <1>2, <1>3, <1>4, <1>5 DEF HeldOnce
<1>9. IdInv'
    BY <1>1, <1>2, <1>3, <1>4, <1>5 DEF IdInv
<1>10. CloseInv'
    BY <1>1, <1>2, <1>3, <1>4, <1>5 DEF TypeOK, CloseInv
<1>11. Allowed
    <2>1. Settles({r}, {}) \/ Settles({}, {})
        BY <1>1, <1>2, <1>3, <1>4, <1>5 DEF Settles, PlacedOnce, One
    <2> QED
        BY <2>1 DEF Allowed
<1> QED
    BY <1>6, <1>7, <1>8, <1>9, <1>10, <1>11

\* A caller posts the request to wait for its session, or goes on.
LEMMA ExecRoutePreserves ==
    ASSUME IInv, NEW r \in Requests, ExecRoute(r)
    PROVE  IInv' /\ Allowed
<1> USE DEF IInv
<1>1. UNCHANGED <<full, queues, waiting, waitingKeys, waitCount, handlers, busy, closed,
                     disconnected, racing, valid, refreshing, refreshCb, inflight, cancelled,
                     answers, dropped, gen, lastSent, authErrors, outsideEvents,
                     otherRefreshed>>
    BY DEF ExecRoute, callerVars, waitVars, threadVars, flagVars, sessionVars, resultVars,
        idVars, boundVars
<1>2. UNCHANGED <<Queued, Waiting, Again, Answered>>
    BY <1>1 DEF Queued, Waiting, Again, Answered
<1>3. exec[r] = "route" /\ exec \in [Requests -> {"new", "check", "route", "push", "done"}]
    BY DEF ExecRoute, TypeOK
<1>4. r \in Calling /\ r \notin Posted
    BY <1>3 DEF Calling, PlacedOnce, One
<1>5. tasks \in Seq(TaskType) /\ PostedOnce(tasks)
    BY DEF TypeOK, HeldOnce
<1>6. \/ /\ exec' = [exec EXCEPT ![r] = "done"] /\ Calling' = Calling \ {r} /\ New' = New
         /\ Posted' = Posted \cup {r} /\ HasSession(r)
         /\ tasks' \in Seq(TaskType) /\ PostedOnce(tasks')
      \/ /\ exec' = [exec EXCEPT ![r] = "push"] /\ Calling' = Calling /\ New' = New
         /\ UNCHANGED <<tasks, Posted>>
    <2>1. CASE /\ ~SessionReady(r) /\ tasks' = Append(tasks, WaitTask(r))
               /\ exec' = [exec EXCEPT ![r] = "done"]
        <3>1. tasks' \in Seq(TaskType) /\ PostedOnce(tasks') /\ Posted' = Posted \cup {r}
            BY <1>4, <1>5, <2>1, PostRequest DEF Posted
        <3>2. Calling' = Calling \ {r} /\ New' = New
            BY <1>3, <2>1 DEF Calling, New
        <3> QED
            BY <2>1, <3>1, <3>2 DEF SessionReady
    <2>2. CASE exec' = [exec EXCEPT ![r] = "push"] /\ UNCHANGED tasks
        <3>1. Calling' = Calling /\ New' = New /\ UNCHANGED Posted
            BY <1>3, <2>2 DEF Calling, New, Posted
        <3> QED
            BY <2>2, <3>1
    <2> QED
        BY <2>1, <2>2 DEF ExecRoute
<1>7. TypeOK'
    BY <1>1, <1>2, <1>3, <1>4, <1>5, <1>6 DEF TypeOK
<1>8. PlacedOnce'
    BY <1>1, <1>2, <1>3, <1>4, <1>5, <1>6 DEF PlacedOnce, One
<1>9. HeldOnce'
    BY <1>1, <1>2, <1>3, <1>4, <1>5, <1>6 DEF HeldOnce
<1>10. IdInv'
    BY <1>1, <1>2, <1>3, <1>4, <1>5, <1>6 DEF IdInv
<1>11. CloseInv'
    BY <1>1, <1>2, <1>3, <1>4, <1>5, <1>6 DEF TypeOK, CloseInv
<1>12. Allowed
    <2>1. Settles({}, {})
        BY <1>1, <1>2, <1>3, <1>4, <1>5, <1>6 DEF Settles, PlacedOnce, One
    <2> QED
        BY <2>1 DEF Allowed
<1> QED
    BY <1>7, <1>8, <1>9, <1>10, <1>11, <1>12

\* A caller queues the request.
LEMMA ExecPushPreserves ==
    ASSUME IInv, NEW r \in Requests, ExecPush(r)
    PROVE  IInv' /\ Allowed
<1> USE DEF IInv
<1>1. UNCHANGED <<full, waiting, waitingKeys, waitCount, handlers, busy, closed, disconnected,
                     racing, valid, refreshing, refreshCb, inflight, cancelled, answers,
                     dropped, gen, lastSent, authErrors, outsideEvents, otherRefreshed>>
    BY DEF ExecPush, callerVars, waitVars, threadVars, flagVars, sessionVars, resultVars,
        idVars, boundVars
<1>2. UNCHANGED <<Waiting, Again, Answered>>
    BY <1>1 DEF Waiting, Again, Answered
<1>3. /\ exec[r] = "push" /\ exec' = [exec EXCEPT ![r] = "done"]
      /\ exec \in [Requests -> {"new", "check", "route", "push", "done"}]
    BY DEF ExecPush, TypeOK
<1>4. r \in Calling /\ Calling' = Calling \ {r} /\ New' = New
    BY <1>3 DEF Calling, New
<1>5. r \notin Queued
    BY <1>4 DEF PlacedOnce, One
<1>6. tasks \in Seq(TaskType) /\ PostedOnce(tasks)
    BY DEF TypeOK, HeldOnce
<1>7. /\ queues' \in [Prios -> Seq(Requests)] /\ Shelved(queues', Prios, Priority)
      /\ Queued' = Queued \cup {r}
    BY <1>5, QueuePush DEF ExecPush
<1>8. tasks' \in Seq(TaskType) /\ PostedOnce(tasks') /\ Posted' = Posted
    BY <1>6, PostDequeue DEF ExecPush, Posted
<1>9. TypeOK'
    BY <1>1, <1>2, <1>3, <1>4, <1>5, <1>6, <1>7, <1>8 DEF TypeOK
<1>10. PlacedOnce'
    BY <1>1, <1>2, <1>3, <1>4, <1>5, <1>6, <1>7, <1>8 DEF PlacedOnce, One
<1>11. HeldOnce'
    BY <1>1, <1>2, <1>3, <1>4, <1>5, <1>6, <1>7, <1>8 DEF HeldOnce
<1>12. IdInv'
    BY <1>1, <1>2, <1>3, <1>4, <1>5, <1>6, <1>7, <1>8 DEF IdInv
<1>13. CloseInv'
    BY <1>1, <1>2, <1>3, <1>4, <1>5, <1>6, <1>7, <1>8 DEF TypeOK, CloseInv
<1>14. Allowed
    <2>1. Settles({}, {})
        BY <1>1, <1>2, <1>3, <1>4, <1>5, <1>6, <1>7, <1>8 DEF Settles, PlacedOnce, One
    <2> QED
        BY <2>1 DEF Allowed
<1> QED
    BY <1>9, <1>10, <1>11, <1>12, <1>13, <1>14

\* The transport reports an error.
LEMMA SendFailedPreserves ==
    ASSUME IInv, NEW r \in Requests, SendFailed(r)
    PROVE  IInv' /\ Allowed
<1> USE DEF IInv
<1>1. UNCHANGED <<exec, full, queues, waiting, waitingKeys, waitCount, handlers, busy, closed,
                     disconnected, racing, valid, refreshing, refreshCb, cancelled, gen,
                     lastSent, authErrors, outsideEvents, otherRefreshed>>
    BY DEF SendFailed, callerVars, waitVars, threadVars, flagVars, sessionVars, resultVars,
        idVars, boundVars
<1>2. UNCHANGED <<New, Calling, Queued, Waiting, Again>>
    BY <1>1 DEF New, Calling, Queued, Waiting, Again
<1>3. r \in inflight /\ inflight' = inflight \ {r} /\ r \notin Answered
    BY DEF SendFailed, PlacedOnce, One
<1>4. tasks \in Seq(TaskType) /\ PostedOnce(tasks)
    BY DEF TypeOK, HeldOnce
<1>5. tasks' \in Seq(TaskType) /\ PostedOnce(tasks') /\ Posted' = Posted
    BY <1>4, PostDequeue DEF SendFailed, Posted
<1>6. \/ UNCHANGED <<answers, Answered>> /\ dropped' = dropped \cup {r} /\ r \in cancelled
      \/ /\ UNCHANGED dropped /\ Answered' = Answered \cup {r}
         /\ answers' \in [Requests -> Seq(Result)] /\ \A q \in Requests : Len(answers'[q]) <= 1
    <2>1. CASE r \in cancelled
        BY <2>1 DEF SendFailed, Answered
    <2>2. CASE r \notin cancelled
        <3>1. Answer(r, "failed") /\ UNCHANGED dropped /\ "failed" \in Result
            BY <2>2 DEF SendFailed, Result
        <3> QED
            BY <1>3, <3>1, AnswerOnce
    <2> QED
        BY <2>1, <2>2
<1>7. TypeOK'
    BY <1>1, <1>2, <1>3, <1>4, <1>5, <1>6 DEF TypeOK
<1>8. PlacedOnce'
    BY <1>1, <1>2, <1>3, <1>4, <1>5, <1>6 DEF PlacedOnce, One
<1>9. HeldOnce'
    BY <1>1, <1>2, <1>3, <1>4, <1>5, <1>6 DEF HeldOnce
<1>10. IdInv'
    BY <1>1, <1>2, <1>3, <1>4, <1>5, <1>6 DEF IdInv
<1>11. CloseInv'
    BY <1>1, <1>2, <1>3, <1>4, <1>5, <1>6 DEF TypeOK, CloseInv
<1>12. Allowed
    <2>1. Settles({r}, {}) \/ Settles({}, {r})
        BY <1>1, <1>2, <1>3, <1>4, <1>5, <1>6 DEF Settles, PlacedOnce, One
    <2> QED
        BY <2>1 DEF Allowed
<1> QED
    BY <1>7, <1>8, <1>9, <1>10, <1>11, <1>12

\* The transport delivers a response.
LEMMA RespondedPreserves ==
    ASSUME IInv, NEW r \in Requests, Responded(r)
    PROVE  IInv' /\ Allowed
<1> USE DEF IInv
<1>1. UNCHANGED <<exec, full, queues, waiting, waitingKeys, waitCount, handlers, busy, closed,
                     disconnected, racing, valid, refreshing, refreshCb, cancelled, gen,
                     lastSent, authErrors, outsideEvents, otherRefreshed>>
    BY DEF Responded, callerVars, waitVars, threadVars, flagVars, sessionVars, resultVars,
        idVars, boundVars
<1>2. UNCHANGED <<New, Calling, Queued, Waiting, Again>>
    BY <1>1 DEF New, Calling, Queued, Waiting, Again
<1>3. r \in inflight /\ inflight' = inflight \ {r} /\ r \notin Answered
    BY DEF Responded, PlacedOnce, One
<1>4. tasks \in Seq(TaskType) /\ PostedOnce(tasks)
    BY DEF TypeOK, HeldOnce
<1>5. tasks' \in Seq(TaskType) /\ PostedOnce(tasks') /\ Posted' = Posted
    BY <1>4, PostDequeue DEF Responded, Posted
<1>6. \/ UNCHANGED <<answers, Answered>> /\ dropped' = dropped \cup {r} /\ r \in cancelled
      \/ /\ UNCHANGED dropped /\ Answered' = Answered \cup {r}
         /\ answers' \in [Requests -> Seq(Result)] /\ \A q \in Requests : Len(answers'[q]) <= 1
    <2>1. CASE r \in cancelled
        BY <2>1 DEF Responded, Answered
    <2>2. CASE r \notin cancelled
        <3>1. Answer(r, "ok") /\ UNCHANGED dropped /\ "ok" \in Result
            BY <2>2 DEF Responded, Result
        <3> QED
            BY <1>3, <3>1, AnswerOnce
    <2> QED
        BY <2>1, <2>2
<1>7. TypeOK'
    BY <1>1, <1>2, <1>3, <1>4, <1>5, <1>6 DEF TypeOK
<1>8. PlacedOnce'
    BY <1>1, <1>2, <1>3, <1>4, <1>5, <1>6 DEF PlacedOnce, One
<1>9. HeldOnce'
    BY <1>1, <1>2, <1>3, <1>4, <1>5, <1>6 DEF HeldOnce
<1>10. IdInv'
    BY <1>1, <1>2, <1>3, <1>4, <1>5, <1>6 DEF IdInv
<1>11. CloseInv'
    BY <1>1, <1>2, <1>3, <1>4, <1>5, <1>6 DEF TypeOK, CloseInv
<1>12. Allowed
    <2>1. Settles({r}, {}) \/ Settles({}, {r})
        BY <1>1, <1>2, <1>3, <1>4, <1>5, <1>6 DEF Settles, PlacedOnce, One
    <2> QED
        BY <2>1 DEF Allowed
<1> QED
    BY <1>7, <1>8, <1>9, <1>10, <1>11, <1>12

\* The session of the request turns out to be invalid.
LEMMA AuthErrorRespondedPreserves ==
    ASSUME IInv, NEW r \in Requests, AuthErrorResponded(r)
    PROVE  IInv' /\ Allowed
<1> USE DEF IInv
<1>1. UNCHANGED <<exec, full, queues, waiting, waitingKeys, waitCount, handlers, busy, closed,
                     disconnected, racing, refreshing, refreshCb, cancelled, answers, dropped,
                     gen, lastSent, outsideEvents, otherRefreshed>>
    BY DEF AuthErrorResponded, callerVars, waitVars, threadVars, flagVars, sessionVars,
        resultVars, idVars, boundVars
<1>2. UNCHANGED <<New, Calling, Queued, Waiting, Again, Answered>>
    BY <1>1 DEF New, Calling, Queued, Waiting, Again, Answered
<1>3. r \in inflight /\ inflight' = inflight \ {r} /\ r \notin Posted
    BY DEF AuthErrorResponded, PlacedOnce, One
<1>4. tasks \in Seq(TaskType) /\ PostedOnce(tasks)
    BY DEF TypeOK, HeldOnce
<1>5. HasSession(r) /\ tasks' = Append(Append(tasks, RefreshTask(r)), DequeueTask)
    <2>1. RefreshTask(r) \in TaskType /\ DequeueTask \in TaskType
        BY TaskKinds
    <2> QED
        BY <1>4, <2>1 DEF AuthErrorResponded
<1>6. tasks' \in Seq(TaskType) /\ PostedOnce(tasks') /\ Posted' = Posted \cup {r}
    <2>1. /\ Append(tasks, RefreshTask(r)) \in Seq(TaskType)
          /\ PostedOnce(Append(tasks, RefreshTask(r)))
          /\ PostedIn(Append(tasks, RefreshTask(r))) = PostedIn(tasks) \cup {r}
        BY <1>3, <1>4, PostRequest DEF Posted
    <2> QED
        BY <1>5, <2>1, PostDequeue DEF Posted
<1>7. authErrors' \in Nat
    BY DEF AuthErrorResponded, TypeOK
<1>8. valid' \in [Sessions -> BOOLEAN]
    BY DEF AuthErrorResponded, TypeOK
<1>9. TypeOK'
    BY <1>1, <1>2, <1>3, <1>4, <1>5, <1>6, <1>7, <1>8 DEF TypeOK
<1>10. PlacedOnce'
    BY <1>1, <1>2, <1>3, <1>4, <1>5, <1>6, <1>7, <1>8 DEF PlacedOnce, One
<1>11. HeldOnce'
    BY <1>1, <1>2, <1>3, <1>4, <1>5, <1>6, <1>7, <1>8 DEF HeldOnce
<1>12. IdInv'
    BY <1>1, <1>2, <1>3, <1>4, <1>5, <1>6, <1>7, <1>8 DEF IdInv
<1>13. CloseInv'
    BY <1>1, <1>2, <1>3, <1>4, <1>5, <1>6, <1>7, <1>8 DEF TypeOK, CloseInv
<1>14. Allowed
    <2>1. Settles({}, {})
        BY <1>1, <1>2, <1>3, <1>4, <1>5, <1>6, <1>7, <1>8 DEF Settles, PlacedOnce, One
    <2> QED
        BY <2>1 DEF Allowed
<1> QED
    BY <1>9, <1>10, <1>11, <1>12, <1>13, <1>14

\* A caller loses interest.
LEMMA CancelPreserves ==
    ASSUME IInv, NEW r \in Requests, Cancel(r)
    PROVE  IInv' /\ Allowed
<1> USE DEF IInv
<1>1. UNCHANGED <<exec, full, queues, waiting, waitingKeys, waitCount, tasks, handlers, busy,
                     closed, disconnected, racing, valid, refreshing, refreshCb, inflight,
                     answers, dropped, gen, lastSent, authErrors, outsideEvents,
                     otherRefreshed>>
    BY DEF Cancel, callerVars, waitVars, threadVars, flagVars, sessionVars, resultVars,
        idVars, boundVars
<1>2. UNCHANGED <<New, Calling, Queued, Waiting, Posted, Again, Answered>>
    BY <1>1 DEF New, Calling, Queued, Waiting, Posted, Again, Answered
<1>3. cancelled' \subseteq Requests
    BY DEF Cancel, TypeOK
<1>4. TypeOK'
    BY <1>1, <1>2, <1>3 DEF TypeOK
<1>5. PlacedOnce'
    BY <1>1, <1>2, <1>3 DEF PlacedOnce, One
<1>6. HeldOnce'
    BY <1>1, <1>2, <1>3 DEF HeldOnce
<1>7. IdInv'
    BY <1>1, <1>2, <1>3 DEF IdInv
<1>8. CloseInv'
    BY <1>1, <1>2, <1>3 DEF TypeOK, CloseInv
<1>9. Allowed
    BY <1>1, <1>2, <1>3 DEF Allowed, Cancel
<1> QED
    BY <1>4, <1>5, <1>6, <1>7, <1>8, <1>9

\* The client's thread begins to send.
LEMMA DequeueBeginPreserves ==
    ASSUME IInv, DequeueBegin
    PROVE  IInv' /\ Allowed
<1> USE DEF IInv
<1>1. UNCHANGED <<exec, full, queues, waiting, waitingKeys, waitCount, handlers, closed,
                     disconnected, racing, valid, refreshing, refreshCb, inflight, cancelled,
                     answers, dropped, gen, lastSent, authErrors, outsideEvents,
                     otherRefreshed>>
    BY DEF DequeueBegin, callerVars, waitVars, threadVars, flagVars, sessionVars, resultVars,
        idVars, boundVars
<1>2. UNCHANGED <<New, Calling, Queued, Waiting, Answered>>
    BY <1>1 DEF New, Calling, Queued, Waiting, Answered
<1>3. busy = Idle /\ Again = {}
    BY BusyKinds DEF DequeueBegin, NextTask
<1>4. tasks \in Seq(TaskType) /\ PostedOnce(tasks)
    BY DEF TypeOK, HeldOnce
<1>5. tasks # <<>> /\ tasks' = Tail(tasks) /\ Head(tasks).op = "dequeue"
    BY DEF DequeueBegin, NextTask
<1>6. Head(tasks) = DequeueTask
    BY <1>4, <1>5, TakeTask, TaskKinds
<1>7. tasks' \in Seq(TaskType) /\ PostedOnce(tasks') /\ Posted' = Posted
    BY <1>4, <1>5, <1>6, TakeTask DEF Posted
<1>8. busy' \in BusyType /\ Again' = {}
    <2>1. busy' = Idle \/ busy' \in [op : {"dequeue"}, p : Prios]
        BY ApiClientAssumption DEF DequeueBegin, Prios
    <2> QED
        BY <2>1 DEF BusyType, Again, Idle
<1>9. TypeOK'
    BY <1>1, <1>2, <1>3, <1>4, <1>5, <1>6, <1>7, <1>8 DEF TypeOK
<1>10. PlacedOnce'
    BY <1>1, <1>2, <1>3, <1>4, <1>5, <1>6, <1>7, <1>8 DEF PlacedOnce, One
<1>11. HeldOnce'
    BY <1>1, <1>2, <1>3, <1>4, <1>5, <1>6, <1>7, <1>8 DEF HeldOnce
<1>12. IdInv'
    BY <1>1, <1>2, <1>3, <1>4, <1>5, <1>6, <1>7, <1>8 DEF IdInv
<1>13. CloseInv'
    BY <1>1, <1>2, <1>3, <1>4, <1>5, <1>6, <1>7, <1>8 DEF TypeOK, CloseInv
<1>14. Allowed
    <2>1. Settles({}, {})
        BY <1>1, <1>2, <1>3, <1>4, <1>5, <1>6, <1>7, <1>8 DEF Settles, PlacedOnce, One
    <2> QED
        BY <2>1 DEF Allowed
<1> QED
    BY <1>9, <1>10, <1>11, <1>12, <1>13, <1>14

\* The client's thread goes to the next priority.
LEMMA DequeueNextPriorityPreserves ==
    ASSUME IInv, DequeueNextPriority
    PROVE  IInv' /\ Allowed
<1> USE DEF IInv
<1>1. UNCHANGED <<exec, full, queues, waiting, waitingKeys, waitCount, tasks, handlers,
                     closed, disconnected, racing, valid, refreshing, refreshCb, inflight,
                     cancelled, answers, dropped, gen, lastSent, authErrors, outsideEvents,
                     otherRefreshed>>
    BY DEF DequeueNextPriority, callerVars, waitVars, threadVars, flagVars, sessionVars,
        resultVars, idVars, boundVars
<1>2. UNCHANGED <<New, Calling, Queued, Waiting, Posted, Answered>>
    BY <1>1 DEF New, Calling, Queued, Waiting, Posted, Answered
<1>3. busy \in [op : {"dequeue"}, p : Prios] /\ Again = {}
    BY BusyKinds DEF DequeueNextPriority
<1>4. busy' \in BusyType /\ Again' = {}
    <2>1. busy' = Idle \/ busy' \in [op : {"dequeue"}, p : Prios]
        BY <1>3, ApiClientAssumption DEF DequeueNextPriority, Prios
    <2> QED
        BY <2>1 DEF BusyType, Again, Idle
<1>5. TypeOK'
    BY <1>1, <1>2, <1>3, <1>4 DEF TypeOK
<1>6. PlacedOnce'
    BY <1>1, <1>2, <1>3, <1>4 DEF PlacedOnce, One
<1>7. HeldOnce'
    BY <1>1, <1>2, <1>3, <1>4 DEF HeldOnce
<1>8. IdInv'
    BY <1>1, <1>2, <1>3, <1>4 DEF IdInv
<1>9. CloseInv'
    BY <1>1, <1>2, <1>3, <1>4 DEF TypeOK, CloseInv
<1>10. Allowed
    <2>1. Settles({}, {})
        BY <1>1, <1>2, <1>3, <1>4 DEF Settles, PlacedOnce, One
    <2> QED
        BY <2>1 DEF Allowed
<1> QED
    BY <1>5, <1>6, <1>7, <1>8, <1>9, <1>10

\* A cancelled request is let go.
LEMMA DequeueCancelledPreserves ==
    ASSUME IInv, DequeueCancelled
    PROVE  IInv' /\ Allowed
<1> USE DEF IInv
<1>1. UNCHANGED <<exec, full, waiting, waitingKeys, waitCount, tasks, handlers, busy, closed,
                     disconnected, racing, valid, refreshing, refreshCb, inflight, cancelled,
                     answers, gen, lastSent, authErrors, outsideEvents, otherRefreshed>>
    BY DEF DequeueCancelled, callerVars, waitVars, threadVars, flagVars, sessionVars,
        resultVars, idVars, boundVars
<1>2. UNCHANGED <<New, Calling, Waiting, Posted, Again, Answered>>
    BY <1>1 DEF New, Calling, Waiting, Posted, Again, Answered
<1>3. busy.p \in Prios /\ queues[busy.p] # <<>> /\ queues' = [queues EXCEPT ![busy.p] = Tail(@)]
    BY BusyKinds DEF DequeueCancelled
<1>4. /\ queues' \in [Prios -> Seq(Requests)] /\ Shelved(queues', Prios, Priority)
      /\ Head(queues[busy.p]) \in Requests /\ Head(queues[busy.p]) \in Queued
      /\ Queued' = Queued \ {Head(queues[busy.p])}
    BY <1>3, QueuePop
<1>5. PICK r \in Requests : r = Head(queues[busy.p])
    BY <1>4
<1>6. /\ queues' \in [Prios -> Seq(Requests)] /\ Shelved(queues', Prios, Priority)
      /\ r \in Queued /\ Queued' = Queued \ {r}
    BY <1>4, <1>5
<1>7. r \in cancelled /\ dropped' = dropped \cup {r}
    BY <1>5 DEF DequeueCancelled
<1>8. TypeOK'
    BY <1>1, <1>2, <1>6, <1>7 DEF TypeOK
<1>9. PlacedOnce'
    BY <1>1, <1>2, <1>6, <1>7 DEF PlacedOnce, One
<1>10. HeldOnce'
    BY <1>1, <1>2, <1>6, <1>7 DEF HeldOnce
<1>11. IdInv'
    BY <1>1, <1>2, <1>6, <1>7 DEF IdInv
<1>12. CloseInv'
    BY <1>1, <1>2, <1>6, <1>7 DEF TypeOK, CloseInv
<1>13. Allowed
    <2>1. Settles({}, {r})
        BY <1>1, <1>2, <1>6, <1>7 DEF Settles, PlacedOnce, One
    <2> QED
        BY <2>1 DEF Allowed
<1> QED
    BY <1>8, <1>9, <1>10, <1>11, <1>12, <1>13

\* A request is given to the transport, or called back with an error.
LEMMA DequeueSendPreserves ==
    ASSUME IInv, DequeueSend
    PROVE  IInv' /\ Allowed
<1> USE DEF IInv
<1>1. UNCHANGED <<exec, full, waiting, waitingKeys, waitCount, handlers, busy, closed,
                     disconnected, racing, valid, refreshing, refreshCb, cancelled, dropped,
                     gen, authErrors, outsideEvents, otherRefreshed>>
    BY DEF DequeueSend, callerVars, waitVars, threadVars, flagVars, sessionVars, resultVars,
        idVars, boundVars
<1>2. UNCHANGED <<New, Calling, Waiting, Again>>
    BY <1>1 DEF New, Calling, Waiting, Again
<1>3. busy.p \in Prios /\ queues[busy.p] # <<>> /\ queues' = [queues EXCEPT ![busy.p] = Tail(@)]
    BY BusyKinds DEF DequeueSend
<1>4. /\ queues' \in [Prios -> Seq(Requests)] /\ Shelved(queues', Prios, Priority)
      /\ Head(queues[busy.p]) \in Requests /\ Head(queues[busy.p]) \in Queued
      /\ Queued' = Queued \ {Head(queues[busy.p])}
    BY <1>3, QueuePop
<1>5. PICK r \in Requests : r = Head(queues[busy.p])
    BY <1>4
<1>6. r \in Queued /\ Queued' = Queued \ {r}
    BY <1>4, <1>5
<1>7. queues' \in [Prios -> Seq(Requests)] /\ Shelved(queues', Prios, Priority)
    BY <1>4
<1>8. r \notin Answered
    BY <1>6 DEF PlacedOnce, One
<1>9. tasks \in Seq(TaskType) /\ PostedOnce(tasks)
    BY DEF TypeOK, HeldOnce
<1>10. tasks' \in Seq(TaskType) /\ PostedOnce(tasks') /\ Posted' = Posted
    BY <1>9, PostDequeue DEF DequeueSend, Posted
<1>11. \/ /\ UNCHANGED <<inflight, lastSent>> /\ Answered' = Answered \cup {r}
          /\ answers' \in [Requests -> Seq(Result)] /\ \A q \in Requests : Len(answers'[q]) <= 1
       \/ /\ UNCHANGED <<answers, Answered>> /\ inflight' = inflight \cup {r}
          /\ lastSent' = [lastSent EXCEPT ![r] = gen[r]]
    <2>1. CASE /\ Answer(r, IF closed THEN "aborted" ELSE "failed")
               /\ UNCHANGED <<inflight, lastSent>>
        <3>1. (IF closed THEN "aborted" ELSE "failed") \in Result
            BY DEF Result
        <3> QED
            BY <1>8, <2>1, <3>1, AnswerOnce
    <2>2. CASE /\ inflight' = inflight \cup {r} /\ UNCHANGED answers
               /\ lastSent' = [lastSent EXCEPT ![r] = gen[r]]
        BY <2>2 DEF Answered
    <2> QED
        BY <1>5, <2>1, <2>2 DEF DequeueSend
<1>12. TypeOK'
    BY <1>1, <1>2, <1>6, <1>7, <1>8, <1>10, <1>11 DEF TypeOK
<1>13. PlacedOnce'
    BY <1>1, <1>2, <1>6, <1>7, <1>8, <1>10, <1>11 DEF PlacedOnce, One
<1>14. HeldOnce'
    BY <1>1, <1>2, <1>6, <1>7, <1>8, <1>10, <1>11 DEF HeldOnce
<1>15. IdInv'
    <2>1. lastSent \in [Requests -> Int] /\ gen \in [Requests -> Nat]
        BY DEF TypeOK
    <2>2. r \notin New /\ r \notin Calling
        BY <1>6 DEF PlacedOnce, One
    <2>3. \A q \in Requests : q # r => lastSent'[q] = lastSent[q] /\ gen'[q] = gen[q]
        BY <1>1, <1>11, <2>1
    <2>4. \A q \in New' \cup Calling' \cup Queued' : q \in Requests /\ q # r
        BY <1>2, <1>6, <2>2, HeldAreRequests DEF New, Calling
    <2>5. \A q \in Requests : lastSent'[q] <= gen'[q]
        <3>1. lastSent'[r] <= gen'[r]
            BY <1>1, <1>11, <2>1 DEF IdInv
        <3>2. \A q \in Requests : q # r => lastSent'[q] <= gen'[q]
            BY <2>3 DEF IdInv
        <3> QED
            BY <3>1, <3>2
    <2>6. \A q \in New' \cup Calling' \cup Queued' : lastSent'[q] < gen'[q]
        BY <1>2, <1>6, <2>3, <2>4 DEF IdInv
    <2> QED
        BY <2>5, <2>6 DEF IdInv
<1>16. CloseInv'
    BY <1>1, <1>2, <1>6, <1>7, <1>8, <1>10, <1>11 DEF TypeOK, CloseInv
<1>17. Allowed
    <2>1. Settles({r}, {}) \/ Settles({}, {})
        BY <1>1, <1>2, <1>6, <1>7, <1>8, <1>10, <1>11 DEF Settles, PlacedOnce, One
    <2> QED
        BY <2>1 DEF Allowed
<1> QED
    BY <1>12, <1>13, <1>14, <1>15, <1>16, <1>17

\* A closed client lets the request of a task go.
LEMMA SessionTaskClosedPreserves ==
    ASSUME IInv, SessionTaskClosed
    PROVE  IInv' /\ Allowed
<1> USE DEF IInv
<1>1. UNCHANGED <<exec, full, queues, waiting, waitingKeys, waitCount, handlers, busy, closed,
                     disconnected, racing, valid, refreshing, refreshCb, inflight, cancelled,
                     answers, gen, lastSent, authErrors, outsideEvents, otherRefreshed>>
    BY DEF SessionTaskClosed, callerVars, waitVars, threadVars, flagVars, sessionVars,
        resultVars, idVars, boundVars
<1>2. UNCHANGED <<New, Calling, Queued, Waiting, Again, Answered>>
    BY <1>1 DEF New, Calling, Queued, Waiting, Again, Answered
<1>3. tasks \in Seq(TaskType) /\ PostedOnce(tasks)
    BY DEF TypeOK, HeldOnce
<1>4. tasks # <<>> /\ tasks' = Tail(tasks)
    BY DEF SessionTaskClosed, NextTask
<1>5. Head(tasks) # DequeueTask
    BY DEF SessionTaskClosed, NextTask, DequeueTask
<1>6. PICK r \in Requests : r = Head(tasks).req
    BY <1>3, <1>4, <1>5, TakeTask
<1>7. /\ tasks' \in Seq(TaskType) /\ PostedOnce(tasks')
      /\ r \in Posted /\ Posted' = Posted \ {r}
    BY <1>3, <1>4, <1>5, <1>6, TakeTask DEF Posted
<1>8. closed /\ dropped' = dropped \cup {r}
    BY <1>6 DEF SessionTaskClosed
<1>9. TypeOK'
    BY <1>1, <1>2, <1>7, <1>8 DEF TypeOK
<1>10. PlacedOnce'
    BY <1>1, <1>2, <1>7, <1>8 DEF PlacedOnce, One
<1>11. HeldOnce'
    BY <1>1, <1>2, <1>7, <1>8 DEF HeldOnce
<1>12. IdInv'
    BY <1>1, <1>2, <1>7, <1>8 DEF IdInv
<1>13. CloseInv'
    BY <1>1, <1>2, <1>7, <1>8 DEF TypeOK, CloseInv
<1>14. Allowed
    <2>1. Settles({}, {r})
        BY <1>1, <1>2, <1>7, <1>8 DEF Settles, PlacedOnce, One
    <2> QED
        BY <2>1 DEF Allowed
<1> QED
    BY <1>9, <1>10, <1>11, <1>12, <1>13, <1>14

\* A request is to be executed again.
LEMMA RefreshNotNeededPreserves ==
    ASSUME IInv, RefreshNotNeeded
    PROVE  IInv' /\ Allowed
<1> USE DEF IInv
<1>1. UNCHANGED <<exec, full, queues, waiting, waitingKeys, waitCount, handlers, closed,
                     disconnected, racing, valid, refreshing, refreshCb, inflight, cancelled,
                     answers, dropped, gen, lastSent, authErrors, outsideEvents,
                     otherRefreshed>>
    BY DEF RefreshNotNeeded, callerVars, waitVars, threadVars, flagVars, sessionVars,
        resultVars, idVars, boundVars
<1>2. UNCHANGED <<New, Calling, Queued, Waiting, Answered>>
    BY <1>1 DEF New, Calling, Queued, Waiting, Answered
<1>3. tasks \in Seq(TaskType) /\ PostedOnce(tasks)
    BY DEF TypeOK, HeldOnce
<1>4. tasks # <<>> /\ tasks' = Tail(tasks)
    BY DEF RefreshNotNeeded, NextTask
<1>5. Head(tasks) # DequeueTask
    BY DEF RefreshNotNeeded, NextTask, DequeueTask
<1>6. PICK r \in Requests : r = Head(tasks).req
    BY <1>3, <1>4, <1>5, TakeTask
<1>7. /\ tasks' \in Seq(TaskType) /\ PostedOnce(tasks')
      /\ r \in Posted /\ Posted' = Posted \ {r}
    BY <1>3, <1>4, <1>5, <1>6, TakeTask DEF Posted
<1>8. Again = {} /\ busy' = [op |-> "reexec", req |-> r]
    BY <1>6, BusyKinds DEF RefreshNotNeeded, NextTask
<1>9. busy' \in BusyType /\ Again' = {r}
    BY <1>8 DEF BusyType, Again
<1>10. TypeOK'
    BY <1>1, <1>2, <1>7, <1>8, <1>9 DEF TypeOK
<1>11. PlacedOnce'
    BY <1>1, <1>2, <1>7, <1>8, <1>9 DEF PlacedOnce, One
<1>12. HeldOnce'
    BY <1>1, <1>2, <1>7, <1>8, <1>9 DEF HeldOnce
<1>13. IdInv'
    BY <1>1, <1>2, <1>7, <1>8, <1>9 DEF IdInv
<1>14. CloseInv'
    BY <1>1, <1>2, <1>7, <1>8, <1>9 DEF TypeOK, CloseInv
<1>15. Allowed
    <2>1. Settles({}, {})
        BY <1>1, <1>2, <1>7, <1>8, <1>9 DEF Settles, PlacedOnce, One
    <2> QED
        BY <2>1 DEF Allowed
<1> QED
    BY <1>10, <1>11, <1>12, <1>13, <1>14, <1>15

\* A request is executed again.
LEMMA ReexecPreserves ==
    ASSUME IInv, Reexec
    PROVE  IInv' /\ Allowed
<1> USE DEF IInv
<1>1. UNCHANGED <<exec, full, waiting, waitingKeys, waitCount, handlers, closed, disconnected,
                     racing, valid, refreshing, refreshCb, inflight, cancelled, dropped,
                     lastSent, authErrors, outsideEvents, otherRefreshed>>
    BY DEF Reexec, callerVars, waitVars, threadVars, flagVars, sessionVars, resultVars,
        idVars, boundVars
<1>2. UNCHANGED <<New, Calling, Waiting>>
    BY <1>1 DEF New, Calling, Waiting
<1>3. PICK r \in Requests : r = busy.req /\ Again = {r}
    BY BusyKinds DEF Reexec
<1>4. r \notin Answered /\ r \notin Queued /\ r \notin Posted
    BY <1>3 DEF PlacedOnce, One
<1>5. DoExecAgain(r, tasks, waitCount)
    BY <1>3 DEF Reexec
<1>6. /\ queues' \in [Prios -> Seq(Requests)] /\ Shelved(queues', Prios, Priority)
      /\ tasks' \in Seq(TaskType) /\ PostedOnce(tasks')
      /\ answers' \in [Requests -> Seq(Result)]
      /\ \A q \in Requests : Len(answers'[q]) <= 1
      /\ gen' \in [Requests -> Nat]
      /\ \A q \in Requests : gen'[q] >= gen[q]
    BY <1>4, <1>5, DoExecAgainMoves
<1>7. \/ /\ Answered' = Answered \cup {r} /\ UNCHANGED <<Queued, Posted>>
      \/ /\ Posted' = Posted \cup {r} /\ UNCHANGED <<Queued, Answered>>
         /\ HasSession(r) /\ ~closed
      \/ /\ Queued' = Queued \cup {r} /\ UNCHANGED <<Posted, Answered>>
         /\ gen'[r] > gen[r] /\ ~closed
    BY <1>4, <1>5, DoExecAgainMoves
<1>8. busy' \in BusyType /\ Again' = {}
    BY DEF Reexec, BusyType, Again, Idle
<1>9. TypeOK'
    BY <1>1, <1>2, <1>3, <1>6, <1>7, <1>8 DEF TypeOK
<1>10. PlacedOnce'
    BY <1>1, <1>2, <1>3, <1>6, <1>7, <1>8 DEF PlacedOnce, One
<1>11. HeldOnce'
    BY <1>1, <1>2, <1>3, <1>6, <1>7, <1>8 DEF HeldOnce
<1>12. IdInv'
    <2>1. /\ lastSent \in [Requests -> Int] /\ gen \in [Requests -> Nat]
          /\ gen' \in [Requests -> Nat]
        BY <1>6 DEF TypeOK
    <2>2. \A q \in Requests : lastSent[q] < gen[q] => lastSent'[q] < gen'[q]
        BY <1>1, <1>6, <2>1
    <2>3. \A q \in Requests : lastSent'[q] <= gen'[q]
        BY <1>1, <1>6, <2>1 DEF IdInv
    <2>4. \A q \in New' \cup Calling' \cup Queued' :
             /\ q \in Requests
             /\ (q \in New \cup Calling \cup Queued \/ (q = r /\ gen'[r] > gen[r]))
        <3>1. New \cup Calling \cup Queued \subseteq Requests
            BY HeldAreRequests DEF New, Calling
        <3>2. New' = New /\ Calling' = Calling
            BY <1>2
        <3>3. Queued' = Queued \/ (Queued' = Queued \cup {r} /\ gen'[r] > gen[r])
            BY <1>7
        <3> QED
            BY <3>1, <3>2, <3>3
    <2>5. gen'[r] > gen[r] => lastSent'[r] < gen'[r]
        BY <1>1, <2>1 DEF IdInv
    <2>6. \A q \in New' \cup Calling' \cup Queued' : lastSent'[q] < gen'[q]
        BY <2>2, <2>4, <2>5 DEF IdInv
    <2> QED
        BY <2>3, <2>6 DEF IdInv
<1>13. CloseInv'
    BY <1>1, <1>2, <1>3, <1>6, <1>7, <1>8 DEF TypeOK, CloseInv
<1>14. Allowed
    <2>1. r \notin New /\ r \notin Answered /\ r \notin dropped
        BY <1>3 DEF PlacedOnce, One
    <2>2. Answered' = Answered \cup {r} \/ Answered' = Answered
        BY <1>7
    <2>3. Settles({r}, {}) \/ Settles({}, {})
        BY <1>1, <1>2, <2>1, <2>2 DEF Settles
    <2> QED
        BY <2>3 DEF Allowed
<1> QED
    BY <1>9, <1>10, <1>11, <1>12, <1>13, <1>14

\* A request waits for its session, which is being refreshed.
LEMMA RefreshBeginPreserves ==
    ASSUME IInv, RefreshBegin
    PROVE  IInv' /\ Allowed
<1> USE DEF IInv
<1>1. UNCHANGED <<exec, full, queues, handlers, busy, closed, disconnected, racing, valid,
                     inflight, cancelled, answers, dropped, gen, lastSent, authErrors,
                     outsideEvents, otherRefreshed>>
    BY DEF RefreshBegin, callerVars, waitVars, threadVars, flagVars, sessionVars, resultVars,
        idVars, boundVars
<1>2. UNCHANGED <<New, Calling, Queued, Again, Answered>>
    BY <1>1 DEF New, Calling, Queued, Again, Answered
<1>3. tasks \in Seq(TaskType) /\ PostedOnce(tasks)
    BY DEF TypeOK, HeldOnce
<1>4. tasks # <<>> /\ tasks' = Tail(tasks)
    BY DEF RefreshBegin, NextTask
<1>5. Head(tasks) # DequeueTask
    BY DEF RefreshBegin, NextTask, DequeueTask
<1>6. PICK r \in Requests : r = Head(tasks).req
    BY <1>3, <1>4, <1>5, TakeTask
<1>7. /\ tasks' \in Seq(TaskType) /\ PostedOnce(tasks')
      /\ r \in Posted /\ Posted' = Posted \ {r}
    BY <1>3, <1>4, <1>5, <1>6, TakeTask DEF Posted
<1>8. HasSession(r) /\ r \notin Waiting /\ ~closed
    <2>1. ~closed
        BY DEF RefreshBegin
    <2>2. HasSession(r)
        BY <1>7 DEF HeldOnce
    <2>3. r \notin Waiting
        BY <1>7 DEF PlacedOnce, One
    <2> QED
        BY <2>1, <2>2, <2>3
<1>9. SessionOf[r] \in Sessions /\ Priority[r] \in Prios
    BY <1>8, ApiClientAssumption DEF HasSession
<1>10. /\ waiting' = [waiting EXCEPT ![SessionOf[r]] = Append(@, r)]
       /\ waitingKeys' = waitingKeys \cup {SessionOf[r]}
    BY <1>6 DEF RefreshBegin, Enqueue
<1>11. /\ waiting' \in [Sessions -> Seq(Requests)] /\ Shelved(waiting', Sessions, SessionOf)
       /\ Waiting' = Waiting \cup {r}
    BY <1>8, <1>10, WaitPush
<1>12. waitCount' \in [Prios -> Nat]
    <2>1. waitCount' = [waitCount EXCEPT ![Priority[r]] = @ + 1] /\ waitCount \in [Prios -> Nat]
        BY <1>6 DEF RefreshBegin, Enqueue, TypeOK
    <2>2. waitCount[Priority[r]] + 1 \in Nat
        BY <1>9, <2>1
    <2> QED
        BY <1>9, <2>1, <2>2
<1>13. refreshing' \in [Sessions -> BOOLEAN]
    BY <1>6, <1>9 DEF RefreshBegin, TypeOK
<1>14. refreshCb' \subseteq Sessions
    BY <1>6, <1>9 DEF RefreshBegin, TypeOK
<1>15. \A s \in Sessions : waiting'[s] # <<>> => s \in waitingKeys'
    BY <1>9, <1>10 DEF HeldOnce
<1>16. TypeOK'
    BY <1>1, <1>2, <1>7, <1>8, <1>9, <1>10, <1>11, <1>12, <1>13, <1>14, <1>15 DEF TypeOK
<1>17. PlacedOnce'
    BY <1>1, <1>2, <1>7, <1>8, <1>9, <1>10, <1>11, <1>12, <1>13, <1>14, <1>15
       DEF PlacedOnce, One
<1>18. HeldOnce'
    BY <1>1, <1>2, <1>7, <1>8, <1>9, <1>10, <1>11, <1>12, <1>13, <1>14, <1>15
       DEF HeldOnce
<1>19. IdInv'
    BY <1>1, <1>2, <1>7, <1>8, <1>9, <1>10, <1>11, <1>12, <1>13, <1>14, <1>15 DEF IdInv
<1>20. CloseInv'
    BY <1>1, <1>2, <1>7, <1>8, <1>9, <1>10, <1>11, <1>12, <1>13, <1>14, <1>15
       DEF TypeOK, CloseInv
<1>21. Allowed
    <2>1. Settles({}, {})
        BY <1>1, <1>2, <1>7, <1>8, <1>9, <1>10, <1>11, <1>12, <1>13, <1>14, <1>15
           DEF Settles, PlacedOnce, One
    <2> QED
        BY <2>1 DEF Allowed
<1> QED
    BY <1>16, <1>17, <1>18, <1>19, <1>20, <1>21

\* A request waits for its session, or the session is to be refreshed.
LEMMA PushToWaitingPreserves ==
    ASSUME IInv, PushToWaiting
    PROVE  IInv' /\ Allowed
<1> USE DEF IInv
<1>1. UNCHANGED <<exec, full, queues, waitingKeys, handlers, busy, closed, disconnected,
                     racing, valid, refreshing, refreshCb, inflight, cancelled, answers,
                     dropped, gen, lastSent, authErrors, outsideEvents, otherRefreshed>>
    BY DEF PushToWaiting, callerVars, waitVars, threadVars, flagVars, sessionVars, resultVars,
        idVars, boundVars
<1>2. UNCHANGED <<New, Calling, Queued, Again, Answered>>
    BY <1>1 DEF New, Calling, Queued, Again, Answered
<1>3. tasks \in Seq(TaskType) /\ PostedOnce(tasks)
    BY DEF TypeOK, HeldOnce
<1>4. tasks # <<>>
    BY DEF PushToWaiting, NextTask
<1>5. Head(tasks) # DequeueTask
    BY DEF PushToWaiting, NextTask, DequeueTask
<1>6. PICK r \in Requests : r = Head(tasks).req
    BY <1>3, <1>4, <1>5, TakeTask
<1>7. /\ Tail(tasks) \in Seq(TaskType) /\ PostedOnce(Tail(tasks)) /\ Head(tasks) \in TaskType
      /\ r \in Posted /\ PostedIn(Tail(tasks)) = Posted \ {r}
    BY <1>3, <1>4, <1>5, <1>6, TakeTask DEF Posted
<1>8. HasSession(r) /\ r \notin Waiting /\ ~closed
    <2>1. ~closed
        BY DEF PushToWaiting
    <2>2. HasSession(r)
        BY <1>7 DEF HeldOnce
    <2>3. r \notin Waiting
        BY <1>7 DEF PlacedOnce, One
    <2> QED
        BY <2>1, <2>2, <2>3
<1>9. SessionOf[r] \in Sessions /\ Priority[r] \in Prios
    BY <1>8, ApiClientAssumption DEF HasSession
<1>10. /\ waiting' \in [Sessions -> Seq(Requests)] /\ Shelved(waiting', Sessions, SessionOf)
       /\ waitCount' \in [Prios -> Nat]
       /\ tasks' \in Seq(TaskType) /\ PostedOnce(tasks')
       /\ \A s \in Sessions : waiting'[s] # <<>> => s \in waitingKeys
       /\ \/ Waiting' = Waiting \cup {r} /\ Posted' = Posted \ {r}
          \/ UNCHANGED <<Waiting, Posted>>
    <2>1. CASE SessionOf[r] \in waitingKeys /\ Enqueue(r) /\ tasks' = Tail(tasks)
        <3>1. waiting' = [waiting EXCEPT ![SessionOf[r]] = Append(@, r)]
            BY <2>1 DEF Enqueue
        <3>2. /\ waiting' \in [Sessions -> Seq(Requests)]
              /\ Shelved(waiting', Sessions, SessionOf)
              /\ Waiting' = Waiting \cup {r}
            BY <1>8, <3>1, WaitPush
        <3>3. waitCount' \in [Prios -> Nat]
            <4>1. /\ waitCount' = [waitCount EXCEPT ![Priority[r]] = @ + 1]
                  /\ waitCount \in [Prios -> Nat]
                BY <2>1 DEF Enqueue, TypeOK
            <4>2. waitCount[Priority[r]] + 1 \in Nat
                BY <1>9, <4>1
            <4> QED
                BY <1>9, <4>1, <4>2
        <3>4. \A s \in Sessions : waiting'[s] # <<>> => s \in waitingKeys
            BY <1>9, <2>1, <3>1 DEF HeldOnce
        <3> QED
            BY <1>7, <2>1, <3>2, <3>3, <3>4 DEF Posted
    <2>2. CASE tasks' = Append(Tail(tasks), RefreshTask(r)) /\ UNCHANGED <<waiting, waitCount>>
        <3>1. /\ tasks' \in Seq(TaskType) /\ PostedOnce(tasks')
              /\ PostedIn(tasks') = PostedIn(Tail(tasks)) \cup {r}
            BY <1>7, <2>2, PostRequest
        <3>2. UNCHANGED <<Waiting, Posted>>
            BY <1>7, <2>2, <3>1 DEF Waiting, Posted
        <3>3. /\ waiting' \in [Sessions -> Seq(Requests)]
              /\ Shelved(waiting', Sessions, SessionOf)
              /\ waitCount' \in [Prios -> Nat]
              /\ \A s \in Sessions : waiting'[s] # <<>> => s \in waitingKeys
            BY <2>2 DEF TypeOK, HeldOnce
        <3> QED
            BY <3>1, <3>2, <3>3
    <2> QED
        BY <1>6, <2>1, <2>2 DEF PushToWaiting
<1>11. TypeOK'
    BY <1>1, <1>2, <1>7, <1>8, <1>10 DEF TypeOK
<1>12. PlacedOnce'
    BY <1>1, <1>2, <1>7, <1>8, <1>10 DEF PlacedOnce, One
<1>13. HeldOnce'
    BY <1>1, <1>2, <1>7, <1>8, <1>10 DEF HeldOnce
<1>14. IdInv'
    BY <1>1, <1>2, <1>7, <1>8, <1>10 DEF IdInv
<1>15. CloseInv'
    BY <1>1, <1>2, <1>7, <1>8, <1>10 DEF TypeOK, CloseInv
<1>16. Allowed
    <2>1. Settles({}, {})
        BY <1>1, <1>2, <1>7, <1>8, <1>10 DEF Settles, PlacedOnce, One
    <2> QED
        BY <2>1 DEF Allowed
<1> QED
    BY <1>11, <1>12, <1>13, <1>14, <1>15, <1>16

\* A refresh ends, and the client takes what waits for the session.
LEMMA RefreshDonePreserves ==
    ASSUME IInv, NEW s \in Sessions, NEW ok \in BOOLEAN, RefreshDone(s, ok)
    PROVE  IInv' /\ Allowed
<1> USE DEF IInv
<1>1. UNCHANGED <<exec, full, queues, waiting, waitingKeys, waitCount, tasks, handlers,
                     closed, disconnected, racing, inflight, cancelled, answers, dropped, gen,
                     lastSent, authErrors, outsideEvents, otherRefreshed>>
    BY DEF RefreshDone, callerVars, waitVars, threadVars, flagVars, sessionVars, resultVars,
        idVars, boundVars
<1>2. UNCHANGED <<New, Calling, Queued, Waiting, Posted, Answered>>
    BY <1>1 DEF New, Calling, Queued, Waiting, Posted, Answered
<1>3. Again = {}
    BY BusyKinds DEF RefreshDone
<1>4. busy' \in BusyType /\ Again' = {}
    <2>1. busy' = Idle \/ busy' = [op |-> "drain", s |-> s, ok |-> ok]
        BY DEF RefreshDone
    <2> QED
        BY <2>1 DEF BusyType, Again, Idle
<1>5. refreshing' \in [Sessions -> BOOLEAN]
    BY DEF RefreshDone, TypeOK
<1>6. valid' \in [Sessions -> BOOLEAN]
    BY DEF RefreshDone, TypeOK
<1>7. refreshCb' \subseteq Sessions
    BY DEF RefreshDone, TypeOK
<1>8. TypeOK'
    BY <1>1, <1>2, <1>3, <1>4, <1>5, <1>6, <1>7 DEF TypeOK
<1>9. PlacedOnce'
    BY <1>1, <1>2, <1>3, <1>4, <1>5, <1>6, <1>7 DEF PlacedOnce, One
<1>10. HeldOnce'
    BY <1>1, <1>2, <1>3, <1>4, <1>5, <1>6, <1>7 DEF HeldOnce
<1>11. IdInv'
    BY <1>1, <1>2, <1>3, <1>4, <1>5, <1>6, <1>7 DEF IdInv
<1>12. CloseInv'
    BY <1>1, <1>2, <1>3, <1>4, <1>5, <1>6, <1>7 DEF TypeOK, CloseInv
<1>13. Allowed
    <2>1. Settles({}, {})
        BY <1>1, <1>2, <1>3, <1>4, <1>5, <1>6, <1>7 DEF Settles, PlacedOnce, One
    <2> QED
        BY <2>1 DEF Allowed
<1> QED
    BY <1>8, <1>9, <1>10, <1>11, <1>12, <1>13

\* Another client refreshes the session.
LEMMA RefreshByOtherPreserves ==
    ASSUME IInv, NEW s \in Sessions, RefreshByOther(s)
    PROVE  IInv' /\ Allowed
<1> USE DEF IInv
<1>1. UNCHANGED <<exec, full, queues, waiting, waitingKeys, waitCount, tasks, handlers, busy,
                     closed, disconnected, racing, valid, refreshCb, inflight, cancelled,
                     answers, dropped, gen, lastSent, authErrors>>
    BY DEF RefreshByOther, callerVars, waitVars, threadVars, flagVars, sessionVars,
        resultVars, idVars, boundVars
<1>2. UNCHANGED <<New, Calling, Queued, Waiting, Posted, Again, Answered>>
    BY <1>1 DEF New, Calling, Queued, Waiting, Posted, Again, Answered
<1>3. refreshing' \in [Sessions -> BOOLEAN]
    BY DEF RefreshByOther, TypeOK
<1>4. outsideEvents' \in Nat
    BY DEF RefreshByOther, TypeOK
<1>5. otherRefreshed' \subseteq Sessions
    BY DEF RefreshByOther, TypeOK
<1>6. TypeOK'
    BY <1>1, <1>2, <1>3, <1>4, <1>5 DEF TypeOK
<1>7. PlacedOnce'
    BY <1>1, <1>2, <1>3, <1>4, <1>5 DEF PlacedOnce, One
<1>8. HeldOnce'
    BY <1>1, <1>2, <1>3, <1>4, <1>5 DEF HeldOnce
<1>9. IdInv'
    BY <1>1, <1>2, <1>3, <1>4, <1>5 DEF IdInv
<1>10. CloseInv'
    BY <1>1, <1>2, <1>3, <1>4, <1>5 DEF TypeOK, CloseInv
<1>11. Allowed
    <2>1. Settles({}, {})
        BY <1>1, <1>2, <1>3, <1>4, <1>5 DEF Settles, PlacedOnce, One
    <2> QED
        BY <2>1 DEF Allowed
<1> QED
    BY <1>6, <1>7, <1>8, <1>9, <1>10, <1>11

\* A request that has waited is executed again, or called back.
LEMMA DrainStepPreserves ==
    ASSUME IInv, DrainStep
    PROVE  IInv' /\ Allowed
<1> USE DEF IInv
<1>1. UNCHANGED <<exec, full, waitingKeys, handlers, busy, closed, disconnected, racing,
                     valid, refreshing, refreshCb, inflight, cancelled, dropped, lastSent,
                     authErrors, outsideEvents, otherRefreshed>>
    BY DEF DrainStep, callerVars, waitVars, threadVars, flagVars, sessionVars, resultVars,
        idVars, boundVars
<1>2. UNCHANGED <<New, Calling, Again>>
    BY <1>1 DEF New, Calling, Again
<1>3. /\ busy.s \in Sessions /\ waiting[busy.s] # <<>>
      /\ waiting' = [waiting EXCEPT ![busy.s] = Tail(@)]
    BY BusyKinds DEF DrainStep
<1>4. /\ waiting' \in [Sessions -> Seq(Requests)] /\ Shelved(waiting', Sessions, SessionOf)
      /\ Head(waiting[busy.s]) \in Requests /\ Head(waiting[busy.s]) \in Waiting
      /\ Waiting' = Waiting \ {Head(waiting[busy.s])}
    BY <1>3, WaitPop
<1>5. PICK r \in Requests : r = Head(waiting[busy.s])
    BY <1>4
<1>6. /\ waiting' \in [Sessions -> Seq(Requests)] /\ Shelved(waiting', Sessions, SessionOf)
      /\ r \in Waiting /\ Waiting' = Waiting \ {r}
    BY <1>4, <1>5
<1>7. \A s \in Sessions : waiting'[s] # <<>> => s \in waitingKeys
    BY <1>3 DEF HeldOnce
<1>8. r \notin Answered /\ r \notin Queued /\ r \notin Posted
    BY <1>6 DEF PlacedOnce, One
<1>9. waitCount' \in [Prios -> Nat]
    <2>1. waitCount' = [waitCount EXCEPT ![Priority[r]] = IF @ > 0 THEN @ - 1 ELSE @]
        BY <1>5 DEF DrainStep
    <2>2. Priority[r] \in Prios /\ waitCount[Priority[r]] \in Nat
        BY ApiClientAssumption DEF TypeOK
    <2> QED
        BY <2>1, <2>2 DEF TypeOK
<1>10. \/ Answer(r, "refreshFailed") /\ UNCHANGED <<tasks, queues, gen>>
       \/ DoExecAgain(r, tasks, waitCount')
    BY <1>5 DEF DrainStep
<1>11. /\ queues' \in [Prios -> Seq(Requests)] /\ Shelved(queues', Prios, Priority)
       /\ tasks' \in Seq(TaskType) /\ PostedOnce(tasks')
       /\ answers' \in [Requests -> Seq(Result)]
       /\ \A q \in Requests : Len(answers'[q]) <= 1
       /\ gen' \in [Requests -> Nat]
       /\ \A q \in Requests : gen'[q] >= gen[q]
       /\ \/ /\ Answered' = Answered \cup {r} /\ UNCHANGED <<Queued, Posted>>
          \/ /\ Posted' = Posted \cup {r} /\ UNCHANGED <<Queued, Answered>>
             /\ HasSession(r) /\ ~closed
          \/ /\ Queued' = Queued \cup {r} /\ UNCHANGED <<Posted, Answered>>
             /\ gen'[r] > gen[r] /\ ~closed
    <2>1. CASE Answer(r, "refreshFailed") /\ UNCHANGED <<tasks, queues, gen>>
        <3>1. "refreshFailed" \in Result
            BY DEF Result
        <3>2. /\ answers' \in [Requests -> Seq(Result)] /\ Answered' = Answered \cup {r}
              /\ \A q \in Requests : Len(answers'[q]) <= 1
            BY <1>8, <2>1, <3>1, AnswerOnce
        <3>3. UNCHANGED <<Queued, Posted>>
            BY <2>1 DEF Queued, Posted
        <3>4. /\ queues' \in [Prios -> Seq(Requests)] /\ Shelved(queues', Prios, Priority)
              /\ tasks' \in Seq(TaskType) /\ PostedOnce(tasks')
            BY <2>1 DEF TypeOK, HeldOnce
        <3>5. gen' \in [Requests -> Nat] /\ \A q \in Requests : gen'[q] >= gen[q]
            BY <2>1 DEF TypeOK
        <3> QED
            BY <3>2, <3>3, <3>4, <3>5
    <2>2. CASE DoExecAgain(r, tasks, waitCount')
        BY <1>8, <2>2, DoExecAgainMoves
    <2> QED
        BY <1>10, <2>1, <2>2
<1>12. TypeOK'
    BY <1>1, <1>2, <1>6, <1>7, <1>9, <1>11 DEF TypeOK
<1>13. PlacedOnce'
    BY <1>1, <1>2, <1>6, <1>7, <1>9, <1>11 DEF PlacedOnce, One
<1>14. HeldOnce'
    BY <1>1, <1>2, <1>6, <1>7, <1>9, <1>11 DEF HeldOnce
<1>15. IdInv'
    <2>1. /\ lastSent \in [Requests -> Int] /\ gen \in [Requests -> Nat]
          /\ gen' \in [Requests -> Nat]
        BY <1>11 DEF TypeOK
    <2>2. \A q \in Requests : lastSent[q] < gen[q] => lastSent'[q] < gen'[q]
        BY <1>1, <1>11, <2>1
    <2>3. \A q \in Requests : lastSent'[q] <= gen'[q]
        BY <1>1, <1>11, <2>1 DEF IdInv
    <2>4. \A q \in New' \cup Calling' \cup Queued' :
             /\ q \in Requests
             /\ (q \in New \cup Calling \cup Queued \/ (q = r /\ gen'[r] > gen[r]))
        <3>1. New \cup Calling \cup Queued \subseteq Requests
            BY HeldAreRequests DEF New, Calling
        <3>2. New' = New /\ Calling' = Calling
            BY <1>2
        <3>3. Queued' = Queued \/ (Queued' = Queued \cup {r} /\ gen'[r] > gen[r])
            BY <1>11
        <3> QED
            BY <3>1, <3>2, <3>3
    <2>5. gen'[r] > gen[r] => lastSent'[r] < gen'[r]
        BY <1>1, <2>1 DEF IdInv
    <2>6. \A q \in New' \cup Calling' \cup Queued' : lastSent'[q] < gen'[q]
        BY <2>2, <2>4, <2>5 DEF IdInv
    <2> QED
        BY <2>3, <2>6 DEF IdInv
<1>16. CloseInv'
    BY <1>1, <1>2, <1>6, <1>7, <1>9, <1>11 DEF TypeOK, CloseInv
<1>17. Allowed
    <2>1. r \notin New /\ r \notin Answered /\ r \notin dropped
        BY <1>6 DEF PlacedOnce, One
    <2>2. Answered' = Answered \cup {r} \/ Answered' = Answered
        BY <1>11
    <2>3. Settles({r}, {}) \/ Settles({}, {})
        BY <1>1, <1>2, <2>1, <2>2 DEF Settles
    <2> QED
        BY <2>3 DEF Allowed
<1> QED
    BY <1>12, <1>13, <1>14, <1>15, <1>16, <1>17

\* Nobody waits for the session any more.
LEMMA DrainEndPreserves ==
    ASSUME IInv, DrainEnd
    PROVE  IInv' /\ Allowed
<1> USE DEF IInv
<1>1. UNCHANGED <<exec, full, queues, waiting, waitCount, tasks, handlers, closed,
                     disconnected, racing, valid, refreshing, refreshCb, inflight, cancelled,
                     answers, dropped, gen, lastSent, authErrors, outsideEvents,
                     otherRefreshed>>
    BY DEF DrainEnd, callerVars, waitVars, threadVars, flagVars, sessionVars, resultVars,
        idVars, boundVars
<1>2. UNCHANGED <<New, Calling, Queued, Waiting, Posted, Answered>>
    BY <1>1 DEF New, Calling, Queued, Waiting, Posted, Answered
<1>3. Again = {} /\ waiting[busy.s] = <<>> /\ waitingKeys' = waitingKeys \ {busy.s}
    BY BusyKinds DEF DrainEnd
<1>4. busy' \in BusyType /\ Again' = {}
    BY DEF DrainEnd, BusyType, Again, Idle
<1>5. TypeOK'
    BY <1>1, <1>2, <1>3, <1>4 DEF TypeOK
<1>6. PlacedOnce'
    BY <1>1, <1>2, <1>3, <1>4 DEF PlacedOnce, One
<1>7. HeldOnce'
    BY <1>1, <1>2, <1>3, <1>4 DEF HeldOnce
<1>8. IdInv'
    BY <1>1, <1>2, <1>3, <1>4 DEF IdInv
<1>9. CloseInv'
    BY <1>1, <1>2, <1>3, <1>4 DEF TypeOK, CloseInv
<1>10. Allowed
    <2>1. Settles({}, {})
        BY <1>1, <1>2, <1>3, <1>4 DEF Settles, PlacedOnce, One
    <2> QED
        BY <2>1 DEF Allowed
<1> QED
    BY <1>5, <1>6, <1>7, <1>8, <1>9, <1>10

\* The handler of close() empties the queues.
LEMMA CloseHandlerPreserves ==
    ASSUME IInv, CloseHandler
    PROVE  IInv' /\ Allowed
<1> USE DEF IInv
<1>1. UNCHANGED <<exec, full, tasks, busy, closed, disconnected, racing, valid, refreshing,
                     refreshCb, inflight, cancelled, gen, lastSent, authErrors, outsideEvents,
                     otherRefreshed>>
    BY DEF CloseHandler, callerVars, waitVars, threadVars, flagVars, sessionVars, resultVars,
        idVars, boundVars
<1>2. UNCHANGED <<New, Calling, Posted, Again>>
    BY <1>1 DEF New, Calling, Posted, Again
<1>3. /\ handlers # <<>> /\ handlers' = Tail(handlers) /\ Head(handlers) = "close"
      /\ handlers \in Seq({"close", "netDown", "netUp"})
    BY DEF CloseHandler, TypeOK
<1>4. /\ handlers' \in Seq({"close", "netDown", "netUp"})
      /\ "close" \in SetOf(handlers)
    BY <1>3, TailOnce
<1>5. CallbackRequests \in BOOLEAN /\ AbortAll(CallbackRequests)
    BY ApiClientAssumption DEF CloseHandler
<1>6. /\ queues' \in [Prios -> Seq(Requests)] /\ Shelved(queues', Prios, Priority)
      /\ waiting' \in [Sessions -> Seq(Requests)] /\ Shelved(waiting', Sessions, SessionOf)
      /\ \A s \in Sessions : waiting'[s] = <<>>
      /\ waitingKeys' \subseteq Sessions /\ waitCount' \in [Prios -> Nat]
      /\ answers' \in [Requests -> Seq(Result)] /\ dropped' \subseteq Requests
      /\ \A q \in Requests : Len(answers'[q]) <= 1
      /\ Queued' = {} /\ Waiting' = {}
    BY <1>5, AbortAllMoves
<1>7. PICK aborted \in SUBSET (Queued \cup Waiting) :
         /\ Answered' = Answered \cup aborted
         /\ dropped' = dropped \cup ((Queued \cup Waiting) \ aborted)
    BY <1>5, AbortAllMoves
<1>8. TypeOK'
    BY <1>1, <1>2, <1>4, <1>6, <1>7 DEF TypeOK
<1>9. PlacedOnce'
    BY <1>1, <1>2, <1>4, <1>6, <1>7 DEF PlacedOnce, One
<1>10. HeldOnce'
    BY <1>1, <1>2, <1>4, <1>6, <1>7 DEF HeldOnce
<1>11. IdInv'
    BY <1>1, <1>2, <1>4, <1>6, <1>7 DEF IdInv
<1>12. CloseInv'
    BY <1>1, <1>2, <1>4, <1>6, <1>7 DEF TypeOK, CloseInv
<1>13. Allowed
    <2>1. \A r \in Queued \cup Waiting : r \notin New /\ r \notin Answered /\ r \notin dropped
        BY HeldAreRequests DEF PlacedOnce, One
    <2>2. closed
        BY <1>4 DEF CloseInv
    <2>3. Settles(aborted, (Queued \cup Waiting) \ aborted)
        BY <1>1, <1>2, <1>7, <2>1, <2>2, HeldAreRequests DEF Settles
    <2> QED
        BY <2>3, HeldAreRequests DEF Allowed
<1> QED
    BY <1>8, <1>9, <1>10, <1>11, <1>12, <1>13

\* The handler of updateNetworkState() may empty the queues.
LEMMA NetworkHandlerPreserves ==
    ASSUME IInv, NetworkHandler
    PROVE  IInv' /\ Allowed
<1> USE DEF IInv
<1>1. UNCHANGED <<exec, full, tasks, busy, closed, disconnected, racing, valid, refreshing,
                     refreshCb, inflight, cancelled, gen, lastSent, authErrors, outsideEvents,
                     otherRefreshed>>
    BY DEF NetworkHandler, callerVars, waitVars, threadVars, flagVars, sessionVars,
        resultVars, idVars, boundVars
<1>2. UNCHANGED <<New, Calling, Posted, Again>>
    BY <1>1 DEF New, Calling, Posted, Again
<1>3. /\ handlers # <<>> /\ handlers' = Tail(handlers) /\ Head(handlers) # "close"
      /\ handlers \in Seq({"close", "netDown", "netUp"})
    BY DEF NetworkHandler, TypeOK
<1>4. /\ handlers' \in Seq({"close", "netDown", "netUp"})
      /\ "close" \in SetOf(handlers') <=> "close" \in SetOf(handlers)
    BY <1>3, TailOnce
<1>5. AbortAll(TRUE) \/ UNCHANGED <<queues, waiting, waitingKeys, waitCount, answers, dropped>>
    BY DEF NetworkHandler, waitVars, resultVars
<1>6. /\ queues' \in [Prios -> Seq(Requests)] /\ Shelved(queues', Prios, Priority)
      /\ waiting' \in [Sessions -> Seq(Requests)] /\ Shelved(waiting', Sessions, SessionOf)
      /\ \A s \in Sessions : waiting'[s] # <<>> => s \in waitingKeys'
      /\ waitingKeys' \subseteq Sessions /\ waitCount' \in [Prios -> Nat]
      /\ answers' \in [Requests -> Seq(Result)] /\ dropped' \subseteq Requests
      /\ \A q \in Requests : Len(answers'[q]) <= 1
      /\ Queued' \subseteq Queued /\ Waiting' \subseteq Waiting
      /\ \E aborted \in SUBSET (Queued \cup Waiting) :
           \/ /\ Answered' = Answered \cup aborted
              /\ dropped' = dropped \cup ((Queued \cup Waiting) \ aborted)
              /\ (Queued \cup Waiting) \ aborted \subseteq cancelled
              /\ Queued' = {} /\ Waiting' = {}
           \/ UNCHANGED <<Answered, dropped, Queued, Waiting>>
    <2>1. CASE AbortAll(TRUE)
        BY <2>1, AbortAllMoves
    <2>2. CASE UNCHANGED <<queues, waiting, waitingKeys, waitCount, answers, dropped>>
        <3>1. UNCHANGED <<Answered, Queued, Waiting>>
            BY <2>2 DEF Answered, Queued, Waiting
        <3> QED
            BY <2>2, <3>1 DEF TypeOK, HeldOnce
    <2> QED
        BY <1>5, <2>1, <2>2
<1>7. TypeOK'
    BY <1>1, <1>2, <1>4, <1>6 DEF TypeOK
<1>8. PlacedOnce'
    BY <1>1, <1>2, <1>4, <1>6 DEF PlacedOnce, One
<1>9. HeldOnce'
    BY <1>1, <1>2, <1>4, <1>6 DEF HeldOnce
<1>10. IdInv'
    BY <1>1, <1>2, <1>4, <1>6 DEF IdInv
<1>11. CloseInv'
    BY <1>1, <1>2, <1>4, <1>6 DEF TypeOK, CloseInv
<1>12. Allowed
    <2>1. PICK aborted \in SUBSET (Queued \cup Waiting) :
             \/ /\ Answered' = Answered \cup aborted
                /\ dropped' = dropped \cup ((Queued \cup Waiting) \ aborted)
                /\ (Queued \cup Waiting) \ aborted \subseteq cancelled
             \/ UNCHANGED <<Answered, dropped>>
        BY <1>6
    <2>2. Settles(aborted, (Queued \cup Waiting) \ aborted) \/ Settles({}, {})
        BY <1>1, <1>2, <2>1, HeldAreRequests DEF Settles, PlacedOnce, One
    <2> QED
        BY <2>2, HeldAreRequests DEF Allowed
<1> QED
    BY <1>7, <1>8, <1>9, <1>10, <1>11, <1>12

\* close() is called.
LEMMA ClosePreserves ==
    ASSUME IInv, Close
    PROVE  IInv' /\ Allowed
<1> USE DEF IInv
<1>1. UNCHANGED <<exec, full, queues, waiting, waitingKeys, waitCount, tasks, busy,
                     disconnected, valid, refreshing, refreshCb, inflight, cancelled, answers,
                     dropped, gen, lastSent, authErrors, outsideEvents, otherRefreshed>>
    BY DEF Close, callerVars, waitVars, threadVars, flagVars, sessionVars, resultVars, idVars,
        boundVars
<1>2. UNCHANGED <<New, Calling, Queued, Waiting, Posted, Again, Answered>>
    BY <1>1 DEF New, Calling, Queued, Waiting, Posted, Again, Answered
<1>3. /\ ~closed /\ closed' = TRUE /\ racing' = {r \in Requests : exec[r] \in {"route", "push"}}
      /\ handlers' = Append(handlers, "close")
      /\ handlers \in Seq({"close", "netDown", "netUp"})
    BY DEF Close, TypeOK
<1>4. /\ handlers' \in Seq({"close", "netDown", "netUp"})
      /\ "close" \in SetOf(handlers')
    BY <1>3, AppendOnce
<1>5. TypeOK'
    BY <1>1, <1>2, <1>3, <1>4 DEF TypeOK
<1>6. PlacedOnce'
    BY <1>1, <1>2, <1>3, <1>4 DEF PlacedOnce, One
<1>7. HeldOnce'
    BY <1>1, <1>2, <1>3, <1>4 DEF HeldOnce
<1>8. IdInv'
    BY <1>1, <1>2, <1>3, <1>4 DEF IdInv
<1>9. CloseInv'
    BY <1>1, <1>2, <1>3, <1>4 DEF TypeOK, CloseInv
<1>10. Allowed
    BY <1>1, <1>2, <1>3, <1>4 DEF Allowed
<1> QED
    BY <1>5, <1>6, <1>7, <1>8, <1>9, <1>10

\* The state of the network changes.
LEMMA UpdateNetworkStatePreserves ==
    ASSUME IInv, NEW down \in BOOLEAN, UpdateNetworkState(down)
    PROVE  IInv' /\ Allowed
<1> USE DEF IInv
<1>1. UNCHANGED <<exec, full, queues, waiting, waitingKeys, waitCount, tasks, busy, closed,
                     racing, valid, refreshing, refreshCb, inflight, cancelled, answers,
                     dropped, gen, lastSent, authErrors, otherRefreshed>>
    BY DEF UpdateNetworkState, callerVars, waitVars, threadVars, flagVars, sessionVars,
        resultVars, idVars, boundVars
<1>2. UNCHANGED <<New, Calling, Queued, Waiting, Posted, Again, Answered>>
    BY <1>1 DEF New, Calling, Queued, Waiting, Posted, Again, Answered
<1>3. PICK h \in {"netDown", "netUp"} : handlers' = Append(handlers, h)
    BY DEF UpdateNetworkState
<1>4. handlers \in Seq({"close", "netDown", "netUp"})
    BY DEF TypeOK
<1>5. /\ handlers' \in Seq({"close", "netDown", "netUp"})
      /\ "close" \in SetOf(handlers') <=> "close" \in SetOf(handlers)
    BY <1>3, <1>4, AppendOnce
<1>6. outsideEvents' \in Nat
    BY DEF UpdateNetworkState, TypeOK
<1>7. disconnected' \in BOOLEAN
    BY DEF UpdateNetworkState
<1>8. TypeOK'
    BY <1>1, <1>2, <1>5, <1>6, <1>7 DEF TypeOK
<1>9. PlacedOnce'
    BY <1>1, <1>2, <1>5, <1>6, <1>7 DEF PlacedOnce, One
<1>10. HeldOnce'
    BY <1>1, <1>2, <1>5, <1>6, <1>7 DEF HeldOnce
<1>11. IdInv'
    BY <1>1, <1>2, <1>5, <1>6, <1>7 DEF IdInv
<1>12. CloseInv'
    BY <1>1, <1>2, <1>5, <1>6, <1>7 DEF TypeOK, CloseInv
<1>13. Allowed
    <2>1. Settles({}, {})
        BY <1>1, <1>2, <1>5, <1>6, <1>7 DEF Settles, PlacedOnce, One
    <2> QED
        BY <2>1 DEF Allowed
<1> QED
    BY <1>8, <1>9, <1>10, <1>11, <1>12, <1>13

(***************************************************************************)
(* Theorems                                                                 *)
(***************************************************************************)

\* The invariant holds when the client is created.
LEMMA InitInv == Init => IInv
<1> SUFFICES ASSUME Init PROVE IInv
    OBVIOUS
<1>1. TypeOK
    <2>1. /\ queues \in [Prios -> Seq(Requests)] /\ waiting \in [Sessions -> Seq(Requests)]
          /\ tasks \in Seq(TaskType) /\ handlers \in Seq({"close", "netDown", "netUp"})
          /\ answers \in [Requests -> Seq(Result)]
        BY DEF Init
    <2>2. /\ exec \in [Requests -> {"new", "check", "route", "push", "done"}]
          /\ full \in [Requests -> BOOLEAN]
          /\ waitingKeys \subseteq Sessions /\ waitCount \in [Prios -> Nat]
        BY DEF Init
    <2>3. /\ closed \in BOOLEAN /\ disconnected \in BOOLEAN /\ racing \subseteq Requests
          /\ valid \in [Sessions -> BOOLEAN] /\ refreshing \in [Sessions -> BOOLEAN]
          /\ refreshCb \subseteq Sessions
        BY DEF Init
    <2>4. /\ inflight \subseteq Requests /\ cancelled \subseteq Requests
          /\ dropped \subseteq Requests
          /\ gen \in [Requests -> Nat] /\ lastSent \in [Requests -> Int]
          /\ authErrors \in Nat /\ outsideEvents \in Nat /\ otherRefreshed \subseteq Sessions
          /\ busy \in BusyType
        BY DEF Init, BusyType
    <2> QED
        BY <2>1, <2>2, <2>3, <2>4 DEF TypeOK
<1>2. /\ New = Requests /\ Calling = {} /\ Queued = {} /\ Waiting = {} /\ Posted = {}
      /\ inflight = {} /\ Answered = {} /\ dropped = {}
    BY DEF Init, New, Calling, Queued, Waiting, On, SetOf, Posted, PostedIn, Answered
<1>3. Again = {}
    BY DEF Init, Again, Idle
<1>4. PlacedOnce
    BY <1>2, <1>3 DEF PlacedOnce, One
<1>5. HeldOnce
    <2>1. Shelved(queues, Prios, Priority) /\ Shelved(waiting, Sessions, SessionOf)
        BY DEF Init, Shelved, Injective
    <2>2. PostedOnce(tasks) /\ \A s \in Sessions : waiting[s] = <<>>
        BY DEF Init, PostedOnce
    <2>3. \A r \in Requests : Len(answers[r]) <= 1
        BY DEF Init
    <2> QED
        BY <1>2, <2>1, <2>2, <2>3 DEF HeldOnce
<1>6. IdInv
    BY <1>2 DEF Init, IdInv
<1>7. CloseInv
    BY <1>2 DEF Init, CloseInv, SetOf
<1> QED
    BY <1>1, <1>4, <1>5, <1>6, <1>7 DEF IInv

\* A step keeps the invariant, and is one that callers may see.
LEMMA NextInv ==
    ASSUME IInv, Next PROVE IInv' /\ Allowed
<1>1. ASSUME NEW r \in Requests, ExecStep(r) \/ TransportStep(r) \/ Cancel(r)
      PROVE  IInv' /\ Allowed
    BY <1>1, ExecReadPreserves, ExecCheckPreserves, ExecRoutePreserves, ExecPushPreserves,
       SendFailedPreserves, RespondedPreserves, AuthErrorRespondedPreserves, CancelPreserves
       DEF ExecStep, TransportStep
<1>2. ASSUME ThreadStep PROVE IInv' /\ Allowed
    BY <1>2, DequeueBeginPreserves, DequeueNextPriorityPreserves, DequeueCancelledPreserves,
       DequeueSendPreserves, SessionTaskClosedPreserves, RefreshNotNeededPreserves,
       ReexecPreserves, RefreshBeginPreserves, PushToWaitingPreserves, DrainStepPreserves,
       DrainEndPreserves, CloseHandlerPreserves, NetworkHandlerPreserves
       DEF ThreadStep
<1>3. ASSUME NEW s \in Sessions,
             RefreshDone(s, TRUE) \/ RefreshDone(s, FALSE) \/ RefreshByOther(s)
      PROVE  IInv' /\ Allowed
    BY <1>3, RefreshDonePreserves, RefreshByOtherPreserves
<1>4. ASSUME Close \/ \E down \in BOOLEAN : UpdateNetworkState(down)
      PROVE  IInv' /\ Allowed
    BY <1>4, ClosePreserves, UpdateNetworkStatePreserves
<1> QED
    BY <1>1, <1>2, <1>3, <1>4 DEF Next

\* Nothing changes when no variable does.
LEMMA StutterInv ==
    ASSUME IInv, UNCHANGED vars
    PROVE  IInv' /\ UNCHANGED <<New, Answered, dropped, cancelled, closed>>
<1>1. UNCHANGED <<exec, full, queues, waiting, waitingKeys, waitCount, tasks, handlers, busy>>
    BY DEF vars, callerVars, waitVars, threadVars
<1>2. UNCHANGED <<closed, disconnected, racing, valid, refreshing, refreshCb, inflight, cancelled,
                  answers, dropped, gen, lastSent, authErrors, outsideEvents, otherRefreshed>>
    BY DEF vars, flagVars, sessionVars, resultVars, idVars, boundVars
<1>3. UNCHANGED <<New, Calling, Queued, Waiting, Posted, Again, Answered>>
    BY <1>1, <1>2 DEF New, Calling, Queued, Waiting, Posted, Again, Answered
<1>4. TypeOK'
    BY <1>1, <1>2 DEF IInv, TypeOK
<1>5. PlacedOnce' /\ HeldOnce' /\ IdInv' /\ CloseInv'
    BY <1>1, <1>2, <1>3 DEF IInv, PlacedOnce, HeldOnce, IdInv, CloseInv
<1> QED
    BY <1>2, <1>3, <1>4, <1>5 DEF IInv

\* The invariant holds in every reachable state.
THEOREM ClientInvariant == Spec => []IInv
<1>1. IInv /\ [Next]_vars => IInv'
    BY NextInv, StutterInv
<1> QED
    BY <1>1, InitInv, PTL DEF Spec

\* Every variable keeps its type.
THEOREM TypeCorrect == Spec => []TypeOK
<1>1. IInv => TypeOK
    BY DEF IInv
<1> QED
    BY <1>1, ClientInvariant, PTL

\* A request that is queued for sending has not been sent under its id: what
\* a refresh of the session queues again got a new id from regenId().
THEOREM QueuedIdsAreFresh == Spec => []IdsAreFresh
<1>1. IInv => IdsAreFresh
    <2> SUFFICES ASSUME IInv, NEW p \in Prios, NEW i \in DOMAIN queues[p]
                 PROVE  lastSent[queues[p][i]] # gen[queues[p][i]]
        BY DEF IdsAreFresh
    <2>1. queues[p][i] \in Queued
        BY DEF Queued, On, SetOf
    <2>2. queues[p][i] \in Requests
        BY <2>1, HeldAreRequests DEF IInv
    <2>3. lastSent[queues[p][i]] < gen[queues[p][i]]
        BY <2>1 DEF IInv, IdInv
    <2>4. lastSent[queues[p][i]] \in Int /\ gen[queues[p][i]] \in Int
        BY <2>2 DEF IInv, TypeOK
    <2> QED
        BY <2>3, <2>4
<1> QED
    BY <1>1, ClientInvariant, PTL

\* After the handler of close() the queues hold only requests whose exec()
\* had passed the check of m_closed when close() was called.
THEOREM CloseLeavesRacersOnly == Spec => []CloseLeavesOnlyRacers
<1>1. IInv => CloseLeavesOnlyRacers
    BY HeldIsQueuedOrWaiting DEF IInv, CloseInv, CloseLeavesOnlyRacers
<1> QED
    BY <1>1, ClientInvariant, PTL

(***************************************************************************)
(* One place                                                                *)
(***************************************************************************)

\* The slots of a request on shelves.
SlotsOn(tag, f, D, r) == UNION {Slots(<<tag, d>>, f[d], r) : d \in D}

\* There is none, or one.
LEMMA ShelfSlots ==
    ASSUME NEW D, NEW key, NEW f, NEW tag, Shelved(f, D, key), NEW r
    PROVE  /\ r \notin On(f, D) => SlotsOn(tag, f, D, r) = {}
           /\ r \in On(f, D) => \E x : SlotsOn(tag, f, D, r) = {x}
<1> USE DEF SlotsOn
<1>1. ASSUME r \notin On(f, D)
      PROVE  UNION {Slots(<<tag, d>>, f[d], r) : d \in D} = {}
    <2>1. \A d \in D : \A j \in DOMAIN f[d] : f[d][j] # r
        BY <1>1 DEF On, SetOf
    <2>2. \A d \in D : Slots(<<tag, d>>, f[d], r) = {}
        BY <2>1 DEF Slots
    <2> QED
        BY <2>2
<1>2. ASSUME r \in On(f, D)
      PROVE  \E x : UNION {Slots(<<tag, d>>, f[d], r) : d \in D} = {x}
    <2>1. PICK e \in D : r \in SetOf(f[e])
        BY <1>2 DEF On
    <2>2. PICK i \in DOMAIN f[e] : f[e][i] = r
        BY <2>1 DEF SetOf
    <2>3. \A j \in DOMAIN f[e] : f[e][j] = r => j = i
        BY <2>2 DEF Shelved, Injective
    <2>4. Slots(<<tag, e>>, f[e], r) = {<<<<tag, e>>, i>>}
        BY <2>2, <2>3 DEF Slots
    <2>5. key[r] = e
        BY <2>2 DEF Shelved
    <2>6. \A d \in D : d # e => \A j \in DOMAIN f[d] : f[d][j] # r
        BY <2>5 DEF Shelved
    <2>7. \A d \in D : d # e => Slots(<<tag, d>>, f[d], r) = {}
        BY <2>6 DEF Slots
    <2>8. UNION {Slots(<<tag, d>>, f[d], r) : d \in D} = {<<<<tag, e>>, i>>}
        BY <2>4, <2>7
    <2> QED
        BY <2>8
<1> QED
    BY <1>1, <1>2

\* The slots of a request in posted tasks: none, or one.
LEMMA TaskSlots ==
    ASSUME NEW r \in Requests, NEW ts, PostedOnce(ts)
    PROVE  /\ r \notin PostedIn(ts) =>
                /\ Slots("task", ts, RefreshTask(r)) = {}
                /\ Slots("task", ts, WaitTask(r)) = {}
           /\ r \in PostedIn(ts) =>
                \E x : Slots("task", ts, RefreshTask(r)) \cup Slots("task", ts, WaitTask(r)) = {x}
<1>1. ASSUME r \notin PostedIn(ts)
      PROVE  Slots("task", ts, RefreshTask(r)) = {} /\ Slots("task", ts, WaitTask(r)) = {}
    <2>1. \A i \in DOMAIN ts : ts[i] # RefreshTask(r) /\ ts[i] # WaitTask(r)
        BY <1>1 DEF PostedIn, IsFor
    <2> QED
        BY <2>1 DEF Slots
<1>2. ASSUME r \in PostedIn(ts)
      PROVE  \E x : Slots("task", ts, RefreshTask(r)) \cup Slots("task", ts, WaitTask(r)) = {x}
    <2>1. PICK i \in DOMAIN ts : IsFor(ts[i], r)
        BY <1>2 DEF PostedIn
    <2>2. \A j \in DOMAIN ts : ts[j] \in {RefreshTask(r), WaitTask(r)} => j = i
        BY <2>1 DEF PostedOnce, IsFor
    <2>3. ts[i] = RefreshTask(r) \/ ts[i] = WaitTask(r)
        BY <2>1 DEF IsFor
    <2>4. Slots("task", ts, RefreshTask(r)) \cup Slots("task", ts, WaitTask(r)) = {<<"task", i>>}
        BY <2>2, <2>3 DEF Slots
    <2> QED
        BY <2>4
<1> QED
    BY <1>1, <1>2

\* A sequence of at most one element.
LEMMA ShortSeq ==
    ASSUME NEW S, NEW s \in Seq(S), Len(s) <= 1
    PROVE  /\ s # <<>> => Len(s) = 1 /\ DOMAIN s = {1}
           /\ s = <<>> => Len(s) = 0 /\ DOMAIN s = {}
<1>1. Len(s) \in Nat /\ DOMAIN s = 1..Len(s)
    OBVIOUS
<1>2. ASSUME s # <<>> PROVE Len(s) # 0
    BY <1>2
<1>3. ASSUME s # <<>> PROVE Len(s) = 1
    BY <1>1, <1>2, <1>3
<1>4. ASSUME s # <<>> PROVE DOMAIN s = {1}
    BY <1>1, <1>3, <1>4
<1> QED
    BY <1>3, <1>4

\* A request given to exec() is in exactly one place: never lost between two
\* threads, never held twice.
THEOREM RequestsAreInOnePlace == Spec => []OnePlace
<1>1. IInv => OnePlace
    <2> SUFFICES ASSUME IInv, NEW r \in Requests
                 PROVE  Cardinality(Places(r)) = IF exec[r] = "new" THEN 0 ELSE 1
        BY DEF OnePlace
    <2> USE DEF IInv
    <2> DEFINE C == {<<"caller", pc>> : pc \in {exec[r]} \ {"new", "done"}}
               Q == SlotsOn("queue", queues, Prios, r)
               W == SlotsOn("waiting", waiting, Sessions, r)
               T == Slots("task", tasks, RefreshTask(r)) \cup Slots("task", tasks, WaitTask(r))
               B == {<<"reexec">> : b \in {busy} \cap {[op |-> "reexec", req |-> r]}}
               F == {<<"transport">> : q \in inflight \cap {r}}
               A == {<<"answer", i>> : i \in DOMAIN answers[r]}
               D == {<<"dropped">> : q \in dropped \cap {r}}
    <2>1. (r \notin Calling => C = {}) /\ (r \in Calling => \E x : C = {x})
        <3>1. exec[r] \in {"new", "check", "route", "push", "done"}
            BY DEF TypeOK
        <3>2. ASSUME r \notin Calling PROVE C = {}
            BY <3>1, <3>2 DEF Calling
        <3>3. ASSUME r \in Calling PROVE C = {<<"caller", exec[r]>>}
            BY <3>1, <3>3 DEF Calling
        <3> QED
            BY <3>2, <3>3
    <2>2. (r \notin Queued => Q = {}) /\ (r \in Queued => \E x : Q = {x})
        BY ShelfSlots DEF Queued, HeldOnce
    <2>3. (r \notin Waiting => W = {}) /\ (r \in Waiting => \E x : W = {x})
        BY ShelfSlots DEF Waiting, HeldOnce
    <2>4. (r \notin Posted => T = {}) /\ (r \in Posted => \E x : T = {x})
        BY TaskSlots DEF Posted, HeldOnce
    <2>5. (r \notin Again => B = {}) /\ (r \in Again => B = {<<"reexec">>})
        BY DEF Again
    <2>6. (r \notin inflight => F = {}) /\ (r \in inflight => F = {<<"transport">>})
        OBVIOUS
    <2>7. (r \notin Answered => A = {}) /\ (r \in Answered => A = {<<"answer", 1>>})
        <3>1. answers[r] \in Seq(Result) /\ Len(answers[r]) <= 1
            BY DEF TypeOK, HeldOnce
        <3> QED
            BY <3>1, ShortSeq DEF Answered
    <2>8. (r \notin dropped => D = {}) /\ (r \in dropped => D = {<<"dropped">>})
        OBVIOUS
    <2>9. Places(r) = C \cup Q \cup W \cup T \cup B \cup F \cup A \cup D
        BY DEF Places, SlotsOn
    <2> HIDE DEF C, Q, W, T, B, F, A, D
    <2>10. CASE r \in New
        <3>1. /\ r \notin Calling /\ r \notin Queued /\ r \notin Waiting /\ r \notin Posted
              /\ r \notin Again /\ r \notin inflight /\ r \notin Answered /\ r \notin dropped
            BY <2>10 DEF PlacedOnce, One
        <3>2. Places(r) = {}
            BY <2>1, <2>2, <2>3, <2>4, <2>5, <2>6, <2>7, <2>8, <2>9, <3>1
        <3> QED
            BY <2>10, <3>2, FS_EmptySet DEF New
    <2>11. CASE r \notin New
        <3>1. \E x : Places(r) = {x}
            <4>1. CASE r \in Calling
                <5>1. /\ r \notin Queued /\ r \notin Waiting /\ r \notin Posted
                      /\ r \notin Again /\ r \notin inflight /\ r \notin Answered
                      /\ r \notin dropped
                    BY <4>1 DEF PlacedOnce, One
                <5> QED
                    BY <2>1, <2>2, <2>3, <2>4, <2>5, <2>6, <2>7, <2>8, <2>9, <4>1, <5>1
            <4>2. CASE r \in Queued
                <5>1. /\ r \notin Calling /\ r \notin Waiting /\ r \notin Posted
                      /\ r \notin Again /\ r \notin inflight /\ r \notin Answered
                      /\ r \notin dropped
                    BY <4>2 DEF PlacedOnce, One
                <5> QED
                    BY <2>1, <2>2, <2>3, <2>4, <2>5, <2>6, <2>7, <2>8, <2>9, <4>2, <5>1
            <4>3. CASE r \in Waiting
                <5>1. /\ r \notin Calling /\ r \notin Queued /\ r \notin Posted
                      /\ r \notin Again /\ r \notin inflight /\ r \notin Answered
                      /\ r \notin dropped
                    BY <4>3 DEF PlacedOnce, One
                <5> QED
                    BY <2>1, <2>2, <2>3, <2>4, <2>5, <2>6, <2>7, <2>8, <2>9, <4>3, <5>1
            <4>4. CASE r \in Posted
                <5>1. /\ r \notin Calling /\ r \notin Queued /\ r \notin Waiting
                      /\ r \notin Again /\ r \notin inflight /\ r \notin Answered
                      /\ r \notin dropped
                    BY <4>4 DEF PlacedOnce, One
                <5> QED
                    BY <2>1, <2>2, <2>3, <2>4, <2>5, <2>6, <2>7, <2>8, <2>9, <4>4, <5>1
            <4>5. CASE r \in Again \cup inflight \cup Answered \cup dropped
                <5>1. /\ r \notin Calling /\ r \notin Queued /\ r \notin Waiting
                      /\ r \notin Posted
                      /\ C = {} /\ Q = {} /\ W = {} /\ T = {}
                    BY <2>1, <2>2, <2>3, <2>4, <4>5 DEF PlacedOnce, One
                <5>2. \/ B # {} /\ F = {} /\ A = {} /\ D = {}
                      \/ B = {} /\ F # {} /\ A = {} /\ D = {}
                      \/ B = {} /\ F = {} /\ A # {} /\ D = {}
                      \/ B = {} /\ F = {} /\ A = {} /\ D # {}
                    <6>1. \/ r \in Again /\ r \notin inflight /\ r \notin Answered /\ r \notin dropped
                          \/ r \notin Again /\ r \in inflight /\ r \notin Answered /\ r \notin dropped
                          \/ r \notin Again /\ r \notin inflight /\ r \in Answered /\ r \notin dropped
                          \/ r \notin Again /\ r \notin inflight /\ r \notin Answered /\ r \in dropped
                        BY <4>5 DEF PlacedOnce, One
                    <6> QED
                        BY <2>5, <2>6, <2>7, <2>8, <6>1
                <5> QED
                    BY <2>5, <2>6, <2>7, <2>8, <2>9, <5>1, <5>2
            <4>6. \/ r \in Calling \/ r \in Queued \/ r \in Waiting \/ r \in Posted
                  \/ r \in Again \/ r \in inflight \/ r \in Answered \/ r \in dropped
                BY <2>11 DEF PlacedOnce, One
            <4> QED
                BY <4>1, <4>2, <4>3, <4>4, <4>5, <4>6
        <3>2. Cardinality(Places(r)) = 1
            BY <3>1, FS_Singleton
        <3> QED
            BY <2>11, <3>2 DEF New
    <2> QED
        BY <2>10, <2>11
<1> QED
    BY <1>1, ClientInvariant, PTL

(***************************************************************************)
(* What callers see                                                         *)
(***************************************************************************)

\* The status that the refinement gives a request, by where it is.
StatusIs ==
    status = [r \in Requests |-> IF r \in Answered THEN "answered"
                                 ELSE IF r \in dropped THEN "dropped"
                                 ELSE IF r \in New THEN "new" ELSE "pending"]

\* The refinement mapping reads the places of the invariant.
LEMMA StatusByPlace == ASSUME IInv PROVE StatusIs
<1>1. ASSUME NEW r \in Requests
      PROVE  status[r] = IF r \in Answered THEN "answered"
                         ELSE IF r \in dropped THEN "dropped"
                         ELSE IF r \in New THEN "new" ELSE "pending"
    <2>1. answers[r] \in Seq(Result) /\ Len(answers[r]) <= 1
        BY DEF IInv, TypeOK, HeldOnce
    <2>2. Len(answers[r]) = 1 <=> answers[r] # <<>>
        <3>1. answers[r] # <<>> => Len(answers[r]) = 1
            BY <2>1, ShortSeq
        <3>2. answers[r] = <<>> => Len(answers[r]) = 0
            OBVIOUS
        <3> QED
            BY ONLY <3>1, <3>2
    <2>3. ~(Len(answers[r]) > 1)
        BY <2>1
    <2>4. /\ ~(r \in Answered /\ r \in dropped) /\ ~(r \in Answered /\ r \in New)
          /\ ~(r \in dropped /\ r \in New)
        BY DEF IInv, PlacedOnce, One
    <2>5. (r \in Answered <=> Len(answers[r]) = 1) /\ (r \in New <=> exec[r] = "new")
        BY <2>2 DEF Answered, New
    <2>6. status[r] = CASE Len(answers[r]) > 1 -> "answered again"
                        [] Len(answers[r]) = 1 -> "answered"
                        [] r \in dropped       -> "dropped"
                        [] exec[r] = "new"     -> "new"
                        [] OTHER               -> "pending"
        BY DEF status
    <2> QED
        BY ONLY <2>3, <2>4, <2>5, <2>6
<1>2. status = [r \in Requests |-> status[r]]
    BY DEF status
<1> QED
    BY <1>1, <1>2 DEF StatusIs

\* A step of the client is a step of the specification for callers.
LEMMA AllowedRefines ==
    ASSUME IInv, StatusIs, StatusIs', Allowed
    PROVE  Lifecycle!Next
<1>1. ASSUME NEW r \in Requests, Submits(r) PROVE Lifecycle!Next
    <2>1. r \notin Answered /\ r \notin dropped
        BY <1>1 DEF IInv, PlacedOnce, One, Submits
    <2>2. status[r] = "new" /\ status' = [status EXCEPT ![r] = "pending"]
        BY <1>1, <2>1 DEF Submits, StatusIs
    <2>3. Lifecycle!Submit(r)
        BY <1>1, <2>2 DEF Submits, Lifecycle!Submit
    <2> QED
        BY <2>3 DEF Lifecycle!Next
<1>2. ASSUME NEW a \in SUBSET Requests, NEW d \in SUBSET Requests, Settles(a, d)
      PROVE  Lifecycle!Next
    <2>1. \A r \in a \cup d : status[r] = "pending"
        BY <1>2 DEF Settles, StatusIs
    <2>2. \A r \in Requests : status'[r] = CASE r \in a -> "answered"
                                             [] r \in d -> "dropped"
                                             [] OTHER -> status[r]
        BY <1>2 DEF Settles, StatusIs
    <2>3. status' = [r \in Requests |-> CASE r \in a -> "answered"
                                          [] r \in d -> "dropped"
                                          [] OTHER -> status[r]]
        BY <2>2 DEF StatusIs
    <2>4. Lifecycle!Settle(a, d)
        BY <1>2, <2>1, <2>3 DEF Settles, Lifecycle!Settle
    <2> QED
        BY <2>4 DEF Lifecycle!Next
<1>3. ASSUME UNCHANGED <<New, Answered, dropped>> PROVE status' = status
    BY <1>3 DEF StatusIs
<1>4. ASSUME NEW r \in Requests, cancelled' = cancelled \cup {r},
             UNCHANGED <<New, Answered, dropped, closed>>
      PROVE  Lifecycle!Next
    <2>1. Lifecycle!Cancel(r)
        BY <1>3, <1>4 DEF Lifecycle!Cancel
    <2> QED
        BY <2>1 DEF Lifecycle!Next
<1>5. ASSUME closed' = TRUE, UNCHANGED <<New, Answered, dropped, cancelled>>
      PROVE  Lifecycle!Next
    <2>1. Lifecycle!Close
        BY <1>3, <1>5 DEF Lifecycle!Close
    <2> QED
        BY <2>1 DEF Lifecycle!Next
<1> QED
    BY <1>1, <1>2, <1>4, <1>5 DEF Allowed

\* The client implements ApiRequests: a request is called back at most once,
\* and it is let go without a call only if its caller cancelled it or the
\* client was closed.
THEOREM ClientCallsBackOnce == Spec => CallsBackOnce
<1>1. Init => Lifecycle!Init
    <2> SUFFICES ASSUME Init PROVE Lifecycle!Init
        OBVIOUS
    <2>1. New = Requests /\ Answered = {} /\ dropped = {}
        BY DEF Init, New, Answered
    <2>2. status = [r \in Requests |-> "new"]
        BY <2>1, InitInv, StatusByPlace DEF StatusIs
    <2> QED
        BY <2>2 DEF Init, Lifecycle!Init
<1>2. IInv => StatusIs
    BY StatusByPlace
<1>3. IInv /\ StatusIs /\ StatusIs' /\ [Next]_vars
        => [Lifecycle!Next]_<<status, cancelled, closed>>
    <2> SUFFICES ASSUME IInv, StatusIs, StatusIs', [Next]_vars
                 PROVE  Lifecycle!Next \/ UNCHANGED <<status, cancelled, closed>>
        OBVIOUS
    <2>1. CASE Next
        BY <2>1, NextInv, AllowedRefines
    <2>2. CASE UNCHANGED vars
        BY <2>2, StutterInv DEF StatusIs
    <2> QED
        BY <2>1, <2>2
<1> QED
    BY <1>1, <1>2, <1>3, ClientInvariant, PTL DEF Spec, CallsBackOnce, Lifecycle!Spec
=============================================================================
