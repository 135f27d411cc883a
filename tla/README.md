# Verification of hatn in TLA+

hatn is a set of C++ libraries for networked applications: threads with task
queues, data units, a database layer, cryptography, and an RPC style API with
clients and servers. This directory models the parts of it in which threads,
callbacks, caches and failures meet: the thread with its task queue that
everything else runs on, the lock-free queue, the weak pointers, the client side
of the API from `exec()` down to the connection or the gRPC stream, the server
side from the acceptor to the response, the name resolver, the expiring cache
and its timer, encrypted files, and the objects, indexes and transactions of
the RocksDB plugin. Every module is translated from the source;
`PROJECT.json` maps each definition to the lines it stands for.

## 1. Inventory

| Component | State | Operations | What is hard about it |
|---|---|---|---|
| `common::Thread` (`common/src/thread.cpp`) | `running`, `stopped`, `firstRun`, the io_context and its handlers | `start`, `stop`, `run`, `execAsync`, `execSync` | stop overtaking start, timeouts of execSync, handlers left over by stop |
| `common::ThreadWithQueue` (`ipp/threadwithqueue.ipp`) | task queue, `m_postingRefCount` | `post`, `taskLoop`, `clearQueue` | wake-ups are posted only by whoever sees the empty queue |
| `common::MPSCQueue` (`mpscqueue.h`) | head, tail, links, size | `push`, `pop`, `isEmpty`, `clear` | lock-free, items are reused |
| `common::Lru`, `LruTtl`, `AsioTimer` (`lru.h`, `lruttl.h`, `asiotimer.cpp`) | map and list of items, their ages, the timer and its queued completions | emplace, push, touch, remove, sweep, start, stop | completions that are queued, and handlers being called, when the timer is stopped or started |
| `common` shared and weak pointers (`pointers/mempool`) | the count of an object, its weak control block with count and lock state | copy, reset, make weak, lock | release and lock from several threads, between one atomic and the next |
| `common` memory pools, lockers, thread pools | buckets, counters, threads | allocate, lock, choose a thread | concurrent use |
| `api::client::Client` (`ipp/client.ipp`) | queues per priority, queues per session, counters, flags | `exec`, `cancel`, `close`, `updateNetworkState`, `dequeue`, `refreshSession` | callers on any thread, everything else on the client's thread |
| `api::client::Session` (`ipp/session.ipp`) | `m_valid`, `m_refreshing`, callbacks | `refresh` | the refresh ends after the client has changed |
| `api::ConnectionPool`, `RawTransport` | one connection, its state and context | `send`, `recv`, `connect`, `close`, reconnect | completions after close, callbacks moved away |
| `grpcclient::GrpcTransport` | channels, pending requests, streams | `suspend`, `resume`, `reconnect`, `close`, calls | calls of the application, the network and gRPC's threads |
| `api::server::Server` (`server/server.h`), `ConnectionsStore`, the acceptor | connections and their requests, the store, watches for lost peers, `m_closed` | accept, receive, authenticate, dispatch, respond, watch, close | a peer lost, or the server closed, at every stage of a request; callbacks of freed connections |
| `network` resolver (`asio/caresolver.cpp`) | queries and their steps, the cancel flag | resolve name, service, mx; cancel | steps posted to a thread, answers from c-ares, callers that go away |
| `network` TCP, UDP, SOCKS5 | sockets, timers | connect, read, write, cancel | timeouts racing results |
| `db` with the RocksDB plugin | objects, index entries, expiry marks, counts per topic | create, update, find, delete, in transactions or through a query | several keys per object, unique entries that expire, counts kept outside the transaction |
| `crypt::CryptFile` (`cryptfile.cpp`) | cursors, sizes, cached chunks, the raw file | open, seek, read, write, truncate, flush, close | dirty chunks, two cursors, sizes written late, failures half way |
| `crypt` ciphers and TLS, OpenSSL plugin | keys, TLS streams | encrypt, decrypt, handshake | calls of OpenSSL |
| `dataunit`, `base`, `logcontext`, `app`, `clientapp`, `clientserver`, `serverapp`, `utility`, admin tools | messages, configuration, contexts, sessions, access rules | parse, merge, log, lock, log in, check | mostly sequential |

How they interact: a `Client` owns queues that callers push to directly and
posts tasks (`postAsyncTask`, through `ThreadWithQueue::post`) and handlers
(`execAsync`, directly to the io_context) to its thread. On that thread it
gives requests to a transport, which is `RawTransport` over a
`ConnectionPool` over a TCP or TLS stream, or `GrpcTransport`. Results come
back as callbacks on the same thread. A `Session` is asked to refresh when a
response is an authentication error; requests wait in the client meanwhile.

The properties that make each part correct:

* thread and queue: a posted task runs once unless cleared; it
  does not sleep in the queue; stop returns;
* lock-free queue: it behaves as a FIFO, never touches a freed item, and its
  consumer does not wait for ever;
* client: a request is in one place, is called back once, is left out only
  after cancel or close, is settled in the end, and is never sent twice under
  one id;
* lifecycle: nothing opens a connection in the background or after close, and
  the client recovers in the foreground;
* pool: one request at a time uses the connection, `Busy` has a reason, each
  request is answered once;
* gRPC calls: no call escapes suspend, close or the loss of the network, every
  message reaches a reader, and nobody waits for ever;
* server: a freed connection is not used, a client that waits for its answers
  is not taken for a lost one, headers are read where messages begin, every
  request ends, and a closed server lets its connections go;
* weak pointers: who holds a shared pointer holds an object, nothing is used
  after it was freed, and nothing leaks;
* resolver: a query finds exactly what the zone has, and ends once;
* cache and timer: the list is the map, oldest first, and the timer obeys who
  calls it in time;
* encrypted file: it does what a plain file does, also after failures and for
  other objects;
* database: queries find exactly the objects there are, keys are unique, and a
  topic is not forgotten while it holds objects.

The hazards, at the lines where they bite, are in `PROJECT.json`.

## 2. Modules

| Module | Models | Composes or refines |
|---|---|---|
| `ThreadQueue` | `Thread`, `ThreadWithQueue`, `MutexQueue` | |
| `ThreadQueue_proofs` | theorems about `ThreadQueue` | extends it |
| `ConcurrentFifo` | what a queue promises | |
| `MPSCQueue` | `MPSCQueue`, access by access | implements `ConcurrentFifo` |
| `ApiRequests` | what a client promises to the caller of `exec` | |
| `ApiClient` | `Client` and `Session` | implements `ApiRequests` |
| `ApiClient_proofs` | theorems about `ApiClient`, the refinement among them | extends it |
| `ClientLifecycle` | background and foreground of `Client` over `GrpcTransport` | |
| `ConnectionPool` | `ConnectionPool` under `RawTransport::sendRequest` | |
| `GrpcCalls` | calls and event streams of one channel of `GrpcTransport` | |
| `Grpc_proofs` | theorems about `GrpcCalls` and `ClientLifecycle` | extends both |
| `ApiServer` | `Server`, its connections, their store and the acceptor | |
| `ApiServer_proofs` | theorems about `ApiServer` | extends it |
| `WeakPtrs` | `SharedPtr` and `WeakPtr` of one object and its control block | |
| `WeakPtrs_proofs` | theorems about `WeakPtrs` | extends it |
| `CaResolver` | the resolver over c-ares | |
| `Network_proofs` | theorems about `ConnectionPool` and `CaResolver` | extends both |
| `Lru` | `Lru` over `MapStorage`, as operators | |
| `LruTtl` | `LruTtl` with its `AsioTimer` | extends `Lru` |
| `Containers_proofs` | theorems about `MPSCQueue`, the refinement among them, and `LruTtl` | extends both |
| `PlainFile` | what the class `PlainFile` does | |
| `CryptFile` | `CryptFile` over the raw file | implements `PlainFile` |
| `ModelTopics` | the relation of a model and a topic and its merge operator, as operators | |
| `RocksdbStore` | objects, indexes, transactions, expiry | extends `ModelTopics` |
| `RocksdbStore_proofs` | theorems about `RocksdbStore` | extends it |
| `MCThreadQueue`, `MCApiClient`, `MCCaResolver`, `MCRocksdbStore` | instances for TLC | |

Operators whose comment begins with "Variant with a bug" or "A bug" (in
`ConnectionPool` they have a section of their own) are mutated forms of the definition that
follows. They are not part of any specification; substituting one for its
definition must make TLC report the property named in `PROJECT.json`. Modules
that share a module of proofs keep their names apart (`LifecycleInit`,
`ResolverSpec`, `CacheSpec`, `channelDisconnected` for
`PriorityChannel::disconnected`).

### ThreadQueue

A step is one access to shared state: an atomic, a critical section of the
queue's mutex or a call of the io_context. `Post*` are the five accesses of
`doPost`, in its order: count up, look whether the queue is empty, push,
count down, schedule. `Run*` follow `Thread::run`, `Select*` stand for the
io_context taking its oldest handler, `Loop*` for `taskLoop`. The controlling
thread calls `start`, `stop` and `clearQueue` one after the other, as the
owner of the object does; `start` is called only when no unjoined thread
exists, because `std::thread` would terminate the program otherwise. Callers
use `execSync` and may time out at any moment. `stop` ends with `poll_one`,
which can consume a scheduled `taskLoop`; the history variable `swallowed`
records it. `pushed` numbers the tasks so that order and loss can be stated.

### MPSCQueue

One step per atomic operation of `pushInternalItem` and `popItem`; `doClear`
is a loop of pops with its limit (`size+16` in the code, `size+ClearSlack`
here). The weak compare-and-swap loop of push is an exchange. Items come from
a small pool and are reused after they are freed, so an access to a freed
item would show. The abstract queue is `order`, appended to when the tail is
exchanged and shortened when the consumer's pop is decided.

### ApiClient

Each request is executed by a caller on a thread of its own; `doExec` is four
steps there (read sizes, check flags, look at the session, push). On the
client's thread `tasks` (posted through the queue) and `handlers` (posted to
the io_context) are served in any relative order but each in order, and
`busy` is what the thread is in the middle of. `DequeueSend` may find the
client closed and serialization may fail. The transport takes at most
`MaxInFlight` requests and ends each of them with an error, a response or an
authentication error. A session may be refreshed by another client that
shares it (`RefreshByOther`); the client has then no callback registered, and
`otherRefreshed` remembers the sessions to which that happened. `gen` is how often `regenId` was called, `racing` the
callers that had passed the check when `close()` came.

### ClientLifecycle

The three flags of the client, the handlers posted to its thread and one
channel, since all `PriorityChannel` objects are treated alike. With
`NetworkThread` the test of `m_suspended` and the rest of a network call are
separate steps. `overtaken` records that the last suspend was called while the
handler of a resume was pending or a network call had passed its test.

### ConnectionPool

Everything is on one thread, so a step is a completion handler, a call of
`send` or `close`. `stage[r]` is the operation that request r waits for,
`moved` the requests whose callback has been moved away by the error path of
`sendHeaderCb`, `crashed` the two ways in which the code ends the program
(an empty `std::function`, a null context). The stream is external: an
operation ends once, well or badly; closing a closed stream calls back at
once; a stream that is closed or destroyed still calls back its pending
operations with an error (`network/detail/asynchandler.ipp`).

### GrpcCalls

The registry of one `PriorityChannel` (`pendingRequests` and `streams`, by the
address of the request) and the `GrpcStream` objects. What the client's thread
does (send, cancel all, rebuild the channel) is one step each; a stream's
reactions run in gRPC's threads, one at a time and `OnDone` last, as gRPC
guarantees, and are split at the accesses to flags and callbacks, as are
`readNext` and `close` of the application's threads. `waits` and `closeWaits`
are the callbacks owed, `lost` a message that met no callback. The memory of a
request is free again once nobody holds the request (`HoldsRequest`), and a new
request may get its address (`FreeAddresses`).

### ApiServer

`conn[c]` is a connection with its one request: the transfer under way (`op`),
the dispatcher that has the request (`task`), the watch for a lost peer
(registered, or completed with its handler queued), its place in the store.
The handlers of a connection run one after another in its thread, each is one
step and contains what the code calls in it (`HeaderReceived` ...
`SendFails`, `WatchHandler`, `DoClose`). The dispatchers, the accepting thread
(`Accept`, `Register`, `FirstWait`, `FirstWaitEnds`, `AcceptNext`) and the
thread that closes the server (`CloseServer`, `Clear`, `CloseNetworkServer`)
take steps of their own in between. `Alive` says who owns a connection's
context: the store, an outstanding or queued handler, the acceptor; a handler
that finds it without an owner is recorded in `freed`. `peer[c]` is the client
with the headers and bodies it has sent; it may send any kind of message, and
leave, at any moment.

### WeakPtrs

One managed object, its count of shared pointers and the control block of its
weak pointers; a step is one atomic access of `SharedPtrBase::reset`,
`WeakPtr::loadFromShared`, `WeakPtr::lock` or `WeakCtrl`. Each thread holds at
most one shared and one weak pointer, gives copies of them to others, and
drops, makes or locks them. The destroyed object and freed blocks stay
addressable in the model, so that an access to them is seen (`freed`).

### CaResolver

A query is with its caller, posted, asked (with c-ares) or over (`place`). A posted query
takes one step in the resolver's thread: hosts file, A, AAAA, SRV or MX
question, next name, done. `QueryCb` is the whole of `queryCb`, including the
order of records and the names left for later. `Cancel` sets the flag, from any
thread; in `AresCancel`, a step of its own with queries processed in between,
c-ares calls back whatever it was asked. A zone says what the hosts file and the
name servers know, so that what a query finds can be compared with it.

### LruTtl

A cache is a map and the keys in list order. The timer has a wait under way
(`armed`), ended waits whose completion is queued (`ready`), and a handler that
is being called (`calling`). `InvokeHandler` runs in the timer's thread, later
than what ended the wait, and goes as far as the call of the handler, which has
to wait for the cache's mutex; `HandlerRuns` is the handler with the restart of
a repeating timer. `start()` and `stop()` take no lock and come at any of these
moments: their comments say "Thread safe" (lruttl.h:211, 254), although `start`
assigns the timer's handler, which timer.h:125 allows only in the timer's
thread; the model takes the assignment as one step. `late` is set by a call that
the code loses: a `start()` while anything is left of an earlier wait, since the
cancelled one resets the one handler the timer has, and a `stop()` after the wait
has ended by itself, since its completion starts the timer anew. `TimerObeys` is
about the calls that are not late, in whatever state the late ones before them
have left the timer. Items age in steps up to the longest time to live.

### CryptFile

A call is one step, because users hold a mutex. Operators follow the private
methods (`DoOpen`, `DoSeek`, `FillChunk`, `FlushChunk`, `WriteImpl`,
`TruncateImpl`, `DoClose`) and return the object's state with an error where
the code returns or throws. The raw file is the list of stored chunks, its
length and the two sizes of its header; a chunk takes `Overhead` bytes more
than it holds, which is all that encryption means here. `DoOpen` closes the file
on the errors it throws and leaves it open where it returns one. Truncation is
given faults: a chunk at the cut, or behind it, that cannot be read, a failing
header write, a failing raw truncation, and the failure that the tests inject
(`testFailuire`). `RestoredOnError` is the scope guard of `truncateImpl`; it is
applied only where the code has set `updated` and assigned `ec`, so that a seek
that really fails is not undone. A file that is not open is opened for the call
and, after an error, left open. The refinement mapping reads each byte where the
object would: in the cached chunk, or else in the raw file as `seekReadRawChunk`
would return it.

What `CryptFile` is compared with is what the class `PlainFile` does, not what
the interface says of it. The two differ in one point: "If new size is greater
than current size then noop" is the comment of `truncate` (file.h:422,
cryptfile.h:366), while `PlainFile` calls `ftruncate`, which extends the file
with zeros, and `CryptFile` writes the zeros itself (cryptfile.cpp:1193). Neither
class keeps that promise, and `IsAPlainFile` does not claim it.

### RocksdbStore

Keys are those of the plugin: the object, one entry per index (unique ones
without the object's ID), and the TTL index. A call reads its transaction's
view, and writes and locks what the code writes and locks; a call whose locks
are held by another session waits. `deleteMany`, `updateMany` and
`findUpdateCreate` are a query followed by one transaction per object.
An update of an object that has expired deletes it (rocksdbupdate.ipp:142-158:
the ID is valid, so the branch is always the second one), with its entries and
its count; if another session has locked one of its index keys this fails half
way, the error is only logged, and what was deleted stays deleted
(`DeletedPartly`). Compaction removes expired objects and expired entries
independently.

The relation of a topic (`ModelTopics`) is what a read would fold from the stored
value and the operands written since. `FlushTopics` is a flush of RocksDB's
memtable: `PartialMergeMulti` folds the operands there, even a single one
(`AllowSingleOperand`), into a relation with their net count, and every later
fold assigns it instead of adding it (modeltopics.cpp:543). `recent` is what the
operands of the memtable amount to by themselves, so a flush is harmless when
that is all that was ever counted.

### Irregular calls

Six modules have a constant `Avoided`: a set of sequences of calls, or of
orders of events, or of failures, after which the code does not do what the
property says. They were found by TLC. A member of `Avoided` is kept out by a guard that is written
beside the action concerned; taking it out of the set in the `.cfg` shows the
violation. With all of them in the set the properties hold, so these are all
the exceptions there are within the bounds.

| Module | Member | What happens |
|---|---|---|
| `CryptFile` | `seekToCursor` | `seek(pos)` with `pos == m_cursor` returns before it sets `m_seekCursor` (cryptfile.cpp:562): after a seek behind the end, a write goes to the wrong place |
| | `truncateToZero` | sizes become 0, the raw file and the end chunk stay (1312): later checks fail |
| | `overwriteLast`, `uncachedWrite` | a chunk that is written as a whole is not read, or the single chunk is left without being written |
| | `extendBehind`, `extendAppended`, `truncateAppended` | truncation moves the position or finds a chunk it cannot seek to |
| | `failingSeek` | a truncation that cannot read the chunk of the cut, or one behind it, returns with `updated` unset (1334, 1359): the cursor is left at 0, where opening again has put it, or at the cut, and the backup file stays |
| | `failingClosed` | a truncation that fails on a file that was not open leaves it open (1180) |
| | `wrongMode` | a streamed file opened in a mode it is not for: the second check returns without closing (182), so the file stays open and without a current chunk |
| `LruTtl` | `replace`, `relink` | an item put under a cached key: `emplaceItem` keeps the old one but moves it to the end, `pushItem(item)` links it twice |
| `RocksdbStore` | `updateUnique`, `updateTtl` | the old entry is deleted under the long key although it was saved under the short one; entries whose mark changes are put under the long key |
| | `deleteNull`, `deleteTaken` | the entry of an unset unique field stays; the entry of another object is deleted, by a delete or by an update of an object that has expired (rocksdbupdate.ipp:154) |
| | `rollbackDelete`, `deleteTopicInTx` | the count was decreased, by a delete or an update of an object that has expired, or the topic removed, past the transaction |
| | `partialMerge` | a flush folds operands into a relation that is assigned over what was counted before (modeltopics.cpp:565, 543): a topic with objects may be listed no more. `testmodeltopics.cpp:250` expects exact counts |
| `GrpcCalls` | `reusedAddress` | `emplace` fails silently and `removeRequest` erases the stream's entry (grpctransport_p.h:242, 283): suspend and close do not find the stream |
| | `readBeforeReset` | the scope guard of `OnReadDone` wipes the callback that `readNext` has stored (grpcstream.cpp:98) |
| | `readAtEnd`, `closeAtEnd` | a callback stored after `OnDone` has copied the callbacks is never called; a failed read lets a second reader replace the first |
| | `cleanEnd` | `OnDone` with an ok status does not call the reader (209) |
| `ApiServer` | `lostInAuth` | the peer is lost while its request is authenticated: the watch closes and frees the connection, and the callback, whose lock of the context fails, goes on with it (server.h:274-294; the callback of dispatch checks and returns, 333) |
| | `earlyHandler` | `waitForRequest` touches the request after it was given to `recv`; on the accepting thread it may be gone by then (228) |
| | `lateRegister` | a connection is registered after `clear()` and stays in the store of a closed server (91) |
| | `pipelining` | the next request of a client that does not wait makes the socket readable: the watch takes it for a lost peer (342) |
| | `unreadBody` | a message that is too big is answered without reading its body, which is then taken for a header (154) |
| `WeakPtrs` | `revived` | `lock()` between the decrement to 0 and `lockForDelete()`, which does not look at the count again: the object is destroyed under the new pointer (sharedptr.h:203) |
| | `firstWeaks` | two threads make the first weak pointer: both add the reference that stands for the object (weakptr.h:223), and the control block is never freed |

`ThreadQueue`, `ApiClient`, `ClientLifecycle` and `ConnectionPool` name their
exceptions in the properties instead, by history variables: `swallowed` (a
wake-up consumed by `stop()`), `otherRefreshed` and `racing`, `overtaken`,
`wedged` and `crashed`. So does `LruTtl` for its timer: after a call that is
`late` TLC finds a started cache that is not swept, and a stopped one that is.

Other observations made while translating, which no property is about:

* `setMaxTasksPerLoop` documents a default of 64, the code has 0, no limit
  (threadwithqueue.h:61, threadwithqueue.ipp:44); `stop()` after `start(false)`
  on a thread that ran before may be undone by `run()`'s restart of the
  io_context and wait for ever (thread.cpp:346; `WaitForStarted = FALSE`).
* `CryptFile::truncate` and `PlainFile::truncate` extend the file where a noop is
  promised (see CryptFile above); "backupCopy flag which
  is true by default" (cryptfile.h:370), but it is false; `doClose(ec1)` is followed by a
  check of `ec` (cryptfile.cpp:1284). `packChunk` shadows `checkInputSize`
  (cryptcontainer.ipp:687), so that its last test is never true.
* `LruTtl::setTtl` is documented to apply to new or touched items; `isExpired`
  applies it to all.
* `CaResolverTraits::cancel` leaves its flag set, so that later queries are
  aborted too; resolver.h:137 speaks of pending queries. The aborted branch of
  `queryCb` does not release the query's reference to itself.
* The index of `updated_at` is not maintained by updates, the TTL column family
  has neither a reader nor a compaction filter, and a create that fails within
  the caller's transaction leaves its operand in the batch.
* `GrpcStream::writeNext` cannot succeed, because `startStream` has ended the
  writing side.

## 3. Runs

| Run | Result | Shows |
|---|---|---|
| `queue` | pass | no lost wake-up, no task lost, duplicated or left behind; posted tasks complete; `stop()` returns after `start(true)` |
| `mpsc` | pass | implements the FIFO; no access to a freed item; the consumer's spin ends |
| `client` | pass | implements `ApiRequests`; a request is in exactly one place, ids are fresh, close leaves only racers; every request is settled |
| `lifecycle_threads` | pass | no connection in the background unless suspend overtook a resume or a network call, none after close; recovery in the foreground |
| `pool` | pass | exclusive use, `Busy` has a reason, every request is called back once unless the program ends |
| `file_plain` | pass | an encrypted file does what `PlainFile` does, its checks never fail, what is flushed is on disk |
| `cache` | pass | the list agrees with the map, within capacity and ordered by age; the timer does what it was last told in time |
| `resolver` | pass | queries find exactly what is known, run once and end |
| `db` | pass | finds are exact through every index, duplicates are refused exactly when taken, the topic stays listed |
| `grpc` | pass | no call escapes, messages reach a reader, waiters are released |
| `server` | pass | no freed connection or request is used, patient clients are kept, headers begin messages, requests end, a closed server lets go |
| `weak` | pass | held objects exist, nothing is used after it was freed, nothing leaks |

**Bounds.** The safety properties of all runs but `file_plain` and, in
`resolver`, `FindsWhatIsKnown`, are proved for all values of the constants
(section 4), so that elsewhere the bounds matter for the liveness properties
only. Two producers and a task posted by a task are enough for a poster
to find the queue empty, for another to push silently behind it and for the
loop to end in between; two starts and one clear are enough for handlers to
survive a stop, and a loop limit of 1 makes the loop yield with tasks left.
The lock-free queue needs two producers between exchange and
link and a third item to be reused; there are three producers and four items.
The client needs two requests of one session and priority, so that one waits
for a refresh the other started and one overtakes the other;
`MaxQueueDepth = 0` makes the queue overflow, `MaxInFlight = 1` makes it stand,
and one authentication error, and one network event or refresh by another
client, meet any state. The pool needs one request in the window of
`closeConnection`, one that overtakes it, one too big and one answered with
nothing. The lifecycle needs resume, suspend and reconnect to lose the guard
and gets six calls. A file has a first chunk of one byte and two chunks of two
bytes over a cache of two, so that chunks are displaced, cut in the middle and
end at a boundary; five calls are enough for open, write, seek, another call,
and a look at the result. The cache has one key more than it holds, three times
to live, and three starts: after the first a late one, and after that one that is
not. The resolver has two queries, one for IPv4 only, and three zones with records of equal and different priority, literal addresses, a
hosts file and names without address. The database has two sessions, two
objects, one name, two tags, one date and a clock that passes it; one session
at a time is in a transaction or works through a query, while the other makes
single calls; a query finds one or two objects; a new object is not dated in the
past. The stream has two readers, three messages and two controlling
events, and an address to be used again. The server has two connections, one
being accepted or closed while the other is at work, and two messages of any
kind: a second request after a first, or one on each connection. One object is
shared by three threads, the third of which locks while another destroys and
the next makes its weak pointer; 14 calls are enough to make, lock and drop
a pointer of each kind in every thread.

**Deadlock** checking is off where the systems may stop: once the bounded
posts, requests or calls are used up there is nothing left to do. In `mpsc`
the only state in which nobody can move would be an endless spin of the
consumer, which is what `SpinEnds` excludes. In `db` it is on.

**Fairness.** Weak fairness of every thread that is in the middle of a call,
of the worker as long as it has something to do, of the operations below
(the transport, the refresh of a session, the stream, c-ares, whose timeouts
are driven by the resolver's timer), which the code relies on. Nothing is
assumed of those who post, call, cancel or close. In `ThreadQueue` weak
fairness of the worker is enough: the loop is one thread, and posters in
progress finish by their own fairness. In `GrpcCalls` gRPC ends a stream that
was cancelled or has failed; the guards of `Avoided` make this wait for readers
in the middle of a call, who may come again and again, hence strong fairness
there. Without those guards the reaction stays enabled and weak fairness would
say the same. In `ApiServer` queued handlers run, dispatchers call back, the
acceptor and a `close()` that has begun go on; clients promise nothing.

**Symmetry** is used only in `db`, a safety run, over sessions, objects and tags.

## 4. Proofs

Eight modules have theorems, about eleven components: every safety property that
a run checks is proved for all values of the constants that satisfy the
component's assumption, with the exception of those of `CryptFile` and of one of
`CaResolver`. These assumptions (`ThreadQueueAssumption`, `MPSCQueueAssumption`,
and so on) type the parameters, keep special values apart and make finite what
is counted: the producers and items of the queue, the posters of a thread, the
requests of a client, the threads that share an object, the IDs of objects.
Where irregular behaviours have to be avoided (section 2), the theorem has this
as a hypothesis. It names those that matter to it, often fewer than all, and is
then stronger than what the run checks.

| Module | Theorem | States | Hypothesis |
|---|---|---|---|
| `ThreadQueue_proofs` | `NoWakeupIsLost`, `SilentPostIsCovered`, `EveryTaskIsAccounted` | `NoLostWakeup`, `SilentPostCovered`, `EveryTaskAccounted` | |
| | `RefCountIsExact`, `FlagsFollowTheThread` | the count of posters is exact; `running` and `firstRun` agree with the thread | |
| `Containers_proofs` (`MPSCQueue`) | `NothingUsedAfterFree`, `SizeIsExact` | `NoUseAfterFree`; `m_size` counts the pushes begun and not popped | |
| | `QueueIsLinearizable` | `Linearizable`: implements `ConcurrentFifo` | |
| (`LruTtl`) | `OldestStaysInFront` | `OldestInFront` | `replace`, `relink` avoided |
| | `TimerObeysCalls` | `TimerObeys` | |
| `ApiClient_proofs` | `RequestsAreInOnePlace`, `QueuedIdsAreFresh`, `CloseLeavesRacersOnly` | `OnePlace`, `IdsAreFresh`, `CloseLeavesOnlyRacers` | |
| | `ClientCallsBackOnce` | `CallsBackOnce`: implements `ApiRequests` | |
| `Network_proofs` (`ConnectionPool`) | `UseIsExclusive`, `BusyIsExplained` | `ExclusiveUse`, `BusyHasReason` | |
| | `CalledBackOnce`, `ContextLostOnlyByClose` | one answer per request; a null context only after `close()` | |
| (`CaResolver`) | `QueriesKeepRunningOnce` | `QueriesRunOnce` | |
| `WeakPtrs_proofs` | `HoldersHoldLiveObject`, `NothingUsedAfterFree`, `NothingIsLeaked` | `HeldIsAlive`, `NoUseAfterFree`, `NothingLeaks` | `revived`, `firstWeaks` avoided |
| `Grpc_proofs` (`GrpcCalls`) | `CallsDoNotEscape` | `NothingEscapes` | `reusedAddress` avoided |
| | `NoMessageIsLost` | `MessagesReachAReader` | `readBeforeReset` avoided |
| (`ClientLifecycle`) | `GuardHolds` | `GuardHoldsUnlessOvertaken` | |
| `ApiServer_proofs` | `NothingIsUsedAfterFree` | `NothingUsedAfterFree` | `lostInAuth`, `earlyHandler` avoided |
| | `PatientClientsStay`, `HeadersAreHeaders` | `PatientClientsAreKept`, `HeadersBeginMessages` | `pipelining`, `unreadBody` avoided |
| `RocksdbStore_proofs` | `QueriesAreExact`, `DuplicatesAreTaken` | `FindIsExact`, `DuplicateIfTaken` | `KeysRegular`: `updateUnique`, `updateTtl`, `deleteNull`, `deleteTaken`, `deleteTopicInTx` avoided |
| | `TopicsAreListed` | `TopicIsListed` | `CountsRegular`: these, `rollbackDelete` and `partialMerge` avoided |

Type correctness (`TypeCorrect`, and `LifecycleTypeCorrect` for
`ClientLifecycle`: `Spec => []TypeOK`) is proved without hypothesis for
`ThreadQueue`, `MPSCQueue`, `ApiClient`, `ConnectionPool`, `GrpcCalls` and
`ApiServer` too; for `WeakPtrs` it has the hypothesis of the table, because the
counts stay natural numbers only as long as nothing irregular happens. For `LruTtl`, `CaResolver` and `RocksdbStore` the
types that matter are conjuncts of the inductive invariants. Nowhere is `TypeOK`
a property of a run.

The proofs go the same way everywhere: the property is strengthened to an
inductive invariant, the invariant holds initially, and each action has a lemma
that it keeps it (or, in `ApiServer_proofs`, a lemma of what it does to its
connection, from which one lemma per part of the invariant follows). The
invariants were checked by TLC on the instances of the runs first.

**ThreadQueue.** `NoLostWakeup` is not inductive. A poster that saw a non-empty
queue pushes without scheduling anything, so the promise of a wake-up must hold
before the push: `SilentPostCovered`. That in turn is lost if the loop can end
while such a poster is between its look and its push. The loop ends only if it
read the count 0 and after that found the queue empty. From the exactness of the
count, a count of 0 means that nobody was between increment and decrement, so
whoever looks later either sees the empty queue and owes a wake-up or sees a
queue that somebody else has filled after the count was read, and the second
look of the loop finds it. The invariant is therefore

    WakeupInv == TypeOK /\ RefCountExact /\ LoopOnlyWhileRunning /\ (Needed => WakeupDue)

where `Needed` says that there are tasks or silent posters, and
`LoopOnlyWhileRunning` is needed because `clearQueue` empties the queue from
the controlling thread and `poll_one` runs handlers there. The proof has one
lemma per actor. `AccountInv` says that the sequence `executed \o currentTask \o
queue` has no task twice and, with the dropped ones, has exactly the tasks
numbered below the count of their poster; every step moves the borders inside
this sequence, appends a new task or drops from its end.

**MPSCQueue.** The abstract queue `order` says what the links should be.
`LinkInv`: each item is linked to the next unless the push of the next has
replaced the tail and not linked yet (`Pending`), the last has a null link, and
head and tail are where they belong, with the exception of the first item while
`popItem` has taken the tail of the one before it (`First`). `OwnerInv`: an
address is with the allocator, with a producer before its exchange, in the queue
or with the consumer, and there once; that is what makes reuse of freed items
harmless. `ProducerInv` and `ConsumerInv` say what the local variables of either
side know, `SizeInv` that the counter is exact. `NoUseAfterFree` and the
refinement are consequences: the exchange of `m_tail` is the abstract push, the
step that decides a pop the abstract pop, every other step a stutter.

**ApiClient.** `PlacedOnce`: the places of a request (new, with its caller, in
a queue, waiting for a session, in a posted task, being executed again, with the
transport, answered, dropped) are counted and the sum is 1. `HeldOnce`: it is in
its place once, in the queue of its own priority or session, and in one task.
`IdInv`: ids go forward only. `CloseInv`: who comes after `close()` had passed
the check before. For the refinement every action is shown to be one of three
things to the caller, a submission, the end of a set of requests with an answer
or, if closed or cancelled, without, or neither.

**ClientLifecycle.** `GuardedInv`: while a `suspend` that overtook nothing is in
force, the guard is up, nothing has passed it, no resume is pending, and every
pending reconnect has a suspend behind it, so that the channel is gone or a
suspend is still to come. `ClosedInv` is the same for `close()`.

**ConnectionPool.** `PostedInv` describes the window which `closeConnection`
leaves by posting its continuation: one request at most is in it, there is no
context, and whoever came in between waits for connect. `ContextInv` ties the
context to the stages, `CloseInv` and `MovedInv` say what `close()` and a moved
callback exclude. Without the first two a second request could be believed in a
transfer over a context that is gone.

**WeakPtrs.** `CountInv` makes the three counters the cardinalities of sets of
threads; the control block has one more reference, that of the object
(`OwnRef`). `MakerInv`, `ClonerInv` and `DeleterInv` say who can be in
`loadFromShared`, `lock` and `reset` at the same time. `firstWeaks` would break
`MakerInv` where it says that one thread at a time makes the first weak pointer,
`revived` would break `DeleterInv` where it says that nobody holds a shared
pointer once the block is locked for deletion.

**GrpcCalls.** `CallsDoNotEscape` rests on `RegisteredAreOpen` and
`OneAddressEach`: with no two open calls at one address every entry is added and
none but the request's own removed. `NoMessageIsLost` rests on the flag
`m_readPending`: `OneRead` says that it stands for one outstanding read or one
reader about to start one, `CallbackInPlace` that a callback is there then, and
`DeliveryAlone` that nobody is in `readNext` during a delivery.

**ApiServer.** `BaseInv` (a request is transferred or dispatched, not both; the
acceptor's connection has not begun) holds always. `UsesInv` says that a request
in progress has a registered connection as long as the server is open, and what
keeps the context alive during `waitForRequest`. `ProtocolInv` says which bytes
are under way at each stage of a request, and `KeptInv` that the watch is on only
while a request is dispatched, when by `ProtocolInv` the client has sent nothing
that could set it off.

**LruTtl.** `CacheInv`: the list holds each cached item once, ordered by age, and
is no longer than the capacity. A new or touched item has age 0 and goes to the
end, an item that leaves is taken out of the list wherever it is, and the sweep
takes items from the front until it meets one that is not expired; since the list
is ordered, no expired one is left behind; `replace` and `relink` are the calls
that leave this shape. `TimerInv` has no hypothesis. After a `start()` that was
not late there is one wait (`OneWait`), outstanding, queued or with its handler
being called, and each of these leads to the next. A `stop()` that is not late
cancels the wait, whose completion then removes the handler; for this it must
find the timer running, and late calls leave behind timers that have a wait but
are not: the invariant says that none of these has a handler, unless the handler
is being called.

**CaResolver.** `RunInv`: a query is in the resolver's list of tasks exactly while
it is posted, and once; only a query that is over has called back, once. What a
step decides is an `Outcome`, and the proof shows of every branch of `queryCb`
and of the steps before it that it posts the next step, asks c-ares or ends with
one call, never two of these. Nothing is assumed of the zones.

**RocksdbStore.** A view of the database *fits* (`Fits`) if every index lists each
object that has not expired, with its mark, and every entry that has not expired
is that of such an object. From views that fit `FindIsExact` and
`DuplicateIfTaken` follow directly. That it fits is not an invariant by itself: a transaction sees
the committed store and its own writes, so `ViewsFit` says it of the store and of
the view of every session, and the interesting step is the commit of one session
while others have uncommitted writes. `TxInv` is what carries it: whoever writes
a key holds its lock, no two sessions hold the same lock, and no session writes
an index entry without writing (and so locking) the object it lists. The proof
has three parts. A call writes about one object and takes no key from another
(`TouchKeeps`, with a lemma for create, update and delete each; here the irregular
calls have to be excluded, since each of them leaves or takes a key of another
object). The update of an object that has expired is such a deletion: unless its
name has been taken, the keys it deletes are its own or nobody's
(`ExpiredOwnsKeys`), and as the object has expired already, deleting only some of
them leaves a view that fits too (`PartSound`). Writes of sessions with different locks fit together on top of the
store (`WritesLocal`). What expires or is compacted goes with its entries,
because an entry has the mark of its object. For `TopicsAreListed` a topic's
`Present` objects are those some transaction has written, and those committed
that no transaction has deleted; `CountInv` says that the relation counts at least
as many. A deletion decreases the count at once and removes the object from
`Present` at once; if the transaction were then rolled back, the object would
return and the count would not, which is `rollbackDelete`. A flush keeps the count
when the operands it folds are all there was, which is what avoiding
`partialMerge` leaves. The count may be
larger than `Present`, because expired objects are removed without being
counted.

Only model-checked:

* all liveness properties, since fairness and `ENABLED` are outside the prover's
  reach;
* `CryptFile` with its refinement of `PlainFile`, `ChecksNeverFail` and
  `FlushedIsOnDisk`: what a call writes is a fold over its chunks, and a proof
  would need induction over them;
* `FindsWhatIsKnown` of `CaResolver`, which compares a result with a fold over
  sorted records of any length. (The folds over the operands of a topic in
  `RocksdbStore` have one operand each, so that their value could be proved.)

## 5. Not modelled

Memory orders weaker than sequential consistency; exceptions other than those
the modelled code throws itself; allocation failure; statistics, logging and
formatting; the contents of messages. The components without a module are
listed in `PROJECT.json` with the reason.

The map covers about 4 % of the repository's implementation lines. The modelled
files are covered nearly whole; most of the rest is code whose correctness is
not a matter of order or state: template machinery for data units and task
contexts, wrappers of OpenSSL, value types, generated schemas, command line
tools, platform bridges. The parts that would still gain from a model are in
the plan.

`TcpStream`'s own connect timeout is not modelled: its timer is started outside
a shared pointer, against the assertion in `AsioTimerTraits::start`, so that
what it does depends on the build. Where other components use a stream, it is
external to them: every operation ends once.

## 6. Plan

Done: thread and queue, lock-free queue with refinement, API client with
refinement, lifecycle, connection pool, gRPC calls and streams, API server, weak
pointers, resolver, expiring cache with its timer, encrypted file with
refinement, RocksDB objects, indexes and topics. All safety properties are proved except
those of the encrypted file and one of the resolver, and with them the
refinements of the lock-free queue and the API client.

Theorems worth proving next: action properties of the modules with proofs (a
closed client stays closed, an answered request is not sent again, a stream that
is done starts no read); the parts of `CryptFile` that no fold is involved in
(`DoSeek` and `FillChunk`, when nothing is dirty).

Modules worth writing after that: the composition of `ApiServer` with
`ApiClient`; `SharedLocker` and the event dispatcher that uses it;
`ThreadPoolWithQueues`; several topics and partitions in `RocksdbStore`.
