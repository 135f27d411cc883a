----------------------------- MODULE GrpcCalls ------------------------------
(***************************************************************************)
(* The calls of one PriorityChannel of GrpcTransport                       *)
(* (grpcclient/src/grpctransport.cpp, grpctransport_p.h) and the event     *)
(* streams among them (grpcstream.cpp).  The channel keeps a registry of   *)
(* its calls by the address of the request, from which cancel, loss of the *)
(* network, suspend and close find the calls they have to cancel.          *)
(*                                                                         *)
(* Requests are sent and the channel is closed and rebuilt in the client's *)
(* thread, each in one step.  Unary calls complete and the reactions of a  *)
(* stream (OnReadDone, OnDone) run in threads of gRPC; readers and closers *)
(* of a stream are threads of the application.  Their steps are the        *)
(* accesses to the stream's flags, callbacks and registry.  gRPC runs the  *)
(* reactions of a stream one after another, OnDone last, and only when no  *)
(* read is outstanding.                                                    *)
(***************************************************************************)
EXTENDS Naturals, FiniteSets

CONSTANTS Unary, Streams,  \* calls, by request type
          Addresses,       \* where request objects are allocated
          Readers,         \* threads of the application that read a stream
          Opener,          \* the callback of the request that opened a stream
          None,            \* an empty callback
          MaxMessages,     \* bound: messages of a stream
          MaxControls,     \* bound: cancel, close, reconnect and the like
          Avoided          \* irregular behaviour left out, see Regular

Calls == Unary \cup Streams

\* What loses a call, a message or a callback:
\*   reusedAddress    the request of an answered stream is freed, and its
\*                    address used again, while the stream is registered
\*   readBeforeReset  readNext before the reaction of the last read is over
\*   readAtEnd        readNext when the stream ends or a read has failed
\*   closeAtEnd       close() has passed its check when OnDone begins
\*   cleanEnd         the server ends the stream with an ok status
Irregular == {"reusedAddress", "readBeforeReset", "readAtEnd", "closeAtEnd", "cleanEnd"}

ASSUME GrpcCallsAssumption ==
    /\ Unary \cap Streams = {}
    /\ Opener \notin Readers /\ None \notin Readers \cup {Opener}
    /\ MaxMessages \in Nat /\ MaxControls \in Nat
    /\ Avoided \subseteq Irregular

VARIABLES
    stub, disconnected,  \* PriorityChannel: there is a channel; it is marked
    requests, streams,   \* pendingRequests and streams: the calls registered
    addr,                \* the address of the request of each call
    call,                \* new, refused, open (under way at gRPC) or done
    cancelled,           \* calls whose context was told TryCancel
    stream,              \* the GrpcStream objects
    reaction,            \* the reaction gRPC runs for each stream
    reads,               \* reads outstanding at gRPC
    ended,               \* streams that have no message left
    reader,              \* where each reader is in readNext
    waits,               \* who waits for a read callback of each stream
    closer, closeWaits,  \* a closer in close(), and whether it waits
    lost,                \* history: streams of which a message reached nobody
    messages, controls   \* counters of the bounds

channelVars == <<stub, disconnected, requests, streams>>
callVars    == <<addr, call, cancelled>>
grpcVars    == <<reaction, reads, ended, messages>>
appVars     == <<reader, waits, closer, closeWaits>>
grpcCallsVars == <<channelVars, callVars, stream, grpcVars, appVars, lost, controls>>

Idle == [at |-> "idle"]

NewStream == [readCb |-> None, closeCb |-> FALSE, closed |-> FALSE,
              initial |-> TRUE, pending |-> FALSE]

Init ==
    /\ stub = TRUE /\ disconnected = FALSE /\ requests = {} /\ streams = {}
    /\ addr = [c \in Calls |-> None] /\ call = [c \in Calls |-> "new"] /\ cancelled = {}
    /\ stream = [s \in Streams |-> NewStream]
    /\ reaction = [s \in Streams |-> Idle] /\ reads = [s \in Streams |-> 0]
    /\ ended = {} /\ messages = [s \in Streams |-> 0]
    /\ reader = [s \in Streams |-> [r \in Readers |-> "idle"]]
    /\ waits = [s \in Streams |-> {}]
    /\ closer = [s \in Streams |-> "idle"] /\ closeWaits = {}
    /\ lost = {} /\ controls = 0

-----------------------------------------------------------------------------
(* Sending, in the client's thread                                          *)

\* The callbacks of a call hold its request, a stream's only until the first
\* message has been answered; the object's memory may be used again after.
HoldsRequest(c) ==
    /\ call[c] = "open"
    /\ c \in Streams => \/ "reusedAddress" \in Avoided
                        \/ stream[c].readCb = Opener
                        \/ reaction[c].at # "idle" /\ reaction[c].cb = Opener

FreeAddresses == {a \in Addresses : \A c \in Calls : addr[c] = a => ~HoldsRequest(c)}

\* sendUnaryImpl, sendStreamImpl without a connection: the callback gets
\* NETWORK_NOT_CONNECTED at once.
SendRefused(c) ==
    /\ call[c] = "new" /\ (disconnected \/ ~stub)
    /\ call' = [call EXCEPT ![c] = "refused"]
    /\ UNCHANGED <<channelVars, addr, cancelled, stream, grpcVars, appVars, lost, controls>>

\* An entry is not added if its address is in the index already.
Emplaced(entries, c, a) == IF \E d \in entries : addr[d] = a THEN entries ELSE entries \cup {c}

SendCall(c, a) ==
    /\ call[c] = "new" /\ ~disconnected /\ stub
    /\ call' = [call EXCEPT ![c] = "open"]
    /\ addr' = [addr EXCEPT ![c] = a]

SendUnary(c, a) ==
    /\ SendCall(c, a)
    /\ requests' = Emplaced(requests, c, a)
    /\ UNCHANGED <<stub, disconnected, streams, cancelled, stream, grpcVars, appVars, lost,
                   controls>>

\* addStream and startStream
SendStream(s, a) ==
    /\ SendCall(s, a)
    /\ streams' = Emplaced(streams, s, a)
    /\ stream' = [stream EXCEPT ![s].readCb = Opener, ![s].pending = TRUE]
    /\ reads' = [reads EXCEPT ![s] = 1]
    /\ waits' = [waits EXCEPT ![s] = {Opener}]
    /\ UNCHANGED <<stub, disconnected, requests, cancelled, reaction, ended, messages, reader,
                   closer, closeWaits, lost, controls>>

\* removeRequest goes by the address, in both indexes.
RemoveRequest(c) ==
    /\ requests' = {d \in requests : addr[d] # addr[c]}
    /\ streams' = {d \in streams : addr[d] # addr[c]}

\* The completion of a unary call.
UnaryDone(c) ==
    /\ call[c] = "open"
    /\ RemoveRequest(c)
    /\ call' = [call EXCEPT ![c] = "done"]
    /\ UNCHANGED <<stub, disconnected, addr, cancelled, stream, grpcVars, appVars, lost, controls>>

-----------------------------------------------------------------------------
(* Cancel, close, reconnect                                                 *)

CountControl == controls < MaxControls /\ controls' = controls + 1

\* GrpcStream::close without a callback: who is closed, or being closed by
\* somebody else, is left alone.
Closed(some) == {s \in some : ~stream[s].closed /\ ~stream[s].closeCb}

\* cancelRequest, called by whoever holds the request
Cancel(c) ==
    /\ CountControl
    /\ call[c] = "open"
    /\ \A d \in Calls \ {c} : addr[d] = addr[c] => call[d] # "open"
    /\ cancelled' = cancelled \cup {d \in requests : addr[d] = addr[c]}
                              \cup Closed({d \in streams : addr[d] = addr[c]})
    /\ UNCHANGED <<channelVars, addr, call, stream, grpcVars, appVars, lost>>

\* Variant with a bug: the index is cleared, its streams are not closed.
CloseAllForgetsStreams ==
    /\ cancelled' = cancelled \cup requests
    /\ requests' = {} /\ streams' = {}

\* What close and updateNetworkState(true) have in common.
CloseAll ==
    /\ cancelled' = cancelled \cup requests \cup Closed(streams)
    /\ requests' = {} /\ streams' = {}

ControlFrame == UNCHANGED <<addr, call, stream, grpcVars, appVars, lost>>

\* suspend, and setRouter without a router: PriorityChannel::close
CloseChannel ==
    /\ CountControl
    /\ CloseAll
    /\ stub' = FALSE /\ disconnected' = TRUE
    /\ ControlFrame

\* reconnect: close and init
Reconnect ==
    /\ CountControl
    /\ CloseAll
    /\ stub' = TRUE /\ disconnected' = FALSE
    /\ ControlFrame

\* resume: PriorityChannel::init
InitChannel ==
    /\ CountControl
    /\ stub' = TRUE /\ disconnected' = FALSE
    /\ ControlFrame /\ UNCHANGED <<requests, streams, cancelled>>

NetworkDown ==
    /\ CountControl
    /\ ~disconnected
    /\ disconnected' = TRUE
    /\ CloseAll
    /\ ControlFrame /\ UNCHANGED stub

NetworkUp ==
    /\ CountControl
    /\ disconnected' = FALSE
    /\ ControlFrame /\ UNCHANGED <<stub, requests, streams, cancelled>>

-----------------------------------------------------------------------------
(* OnReadDone                                                               *)

\* Whether something happens that callers of the stream are to refrain from.
Regular(what, condition) == what \in Avoided => condition

ReactionFrame == UNCHANGED <<channelVars, callVars, closer, closeWaits, controls>>

\* A message arrives: m_readPending is cleared first.
ReadDone(s) ==
    /\ call[s] = "open" /\ reaction[s] = Idle /\ reads[s] > 0
    /\ s \notin ended /\ messages[s] < MaxMessages
    /\ Regular("readBeforeReset", \A r \in Readers : reader[s][r] # "checked")
    /\ reads' = [reads EXCEPT ![s] = @ - 1]
    /\ messages' = [messages EXCEPT ![s] = @ + 1]
    /\ stream' = [stream EXCEPT ![s].pending = FALSE]
    /\ reaction' = [reaction EXCEPT ![s] = [at |-> "read", cb |-> None]]
    /\ ReactionFrame /\ UNCHANGED <<ended, reader, waits, lost>>

\* The read ends without a message: OnReadDone leaves the rest to OnDone.
ReadFailed(s) ==
    /\ call[s] = "open" /\ reaction[s] = Idle /\ reads[s] > 0
    /\ Regular("readAtEnd", \A r \in Readers : reader[s][r] # "checked")
    /\ reads' = [reads EXCEPT ![s] = @ - 1]
    /\ ended' = ended \cup {s}
    /\ stream' = [stream EXCEPT ![s].pending = FALSE]
    /\ ReactionFrame /\ UNCHANGED <<reaction, messages, reader, waits, lost>>

ReadCopy(s) ==
    /\ reaction[s].at = "read"
    /\ reaction' = [reaction EXCEPT ![s] = [at |-> "handle", cb |-> stream[s].readCb]]
    /\ ReactionFrame /\ UNCHANGED <<stream, reads, ended, messages, reader, waits, lost>>

\* The message, or the error it is or contains, is passed to the callback.
\* The first one is the response to the request and carries the stream.
ReadTell(s) ==
    /\ reaction[s].at = "handle"
    /\ stream' = [stream EXCEPT ![s].initial = FALSE]
    /\ waits' = [waits EXCEPT ![s] = @ \ {reaction[s].cb}]
    /\ lost' = IF reaction[s].cb = None THEN lost \cup {s} ELSE lost
    /\ reaction' = [reaction EXCEPT ![s].at = "told"]
    /\ ReactionFrame /\ UNCHANGED <<reads, ended, messages, reader>>

\* The scope guard resets the callback, whichever it is by now.
ReadReset(s) ==
    /\ reaction[s].at = "told"
    /\ stream' = [stream EXCEPT ![s].readCb = None]
    /\ reaction' = [reaction EXCEPT ![s] = Idle]
    /\ ReactionFrame /\ UNCHANGED <<reads, ended, messages, reader, waits, lost>>

-----------------------------------------------------------------------------
(* OnDone                                                                   *)

\* Variant with a bug: the stream is marked closed only at the end.
DoneCopyStaysOpen(s) ==
    /\ call[s] = "open" /\ reaction[s] = Idle /\ reads[s] = 0
    /\ Regular("readAtEnd", \A r \in Readers : reader[s][r] = "idle")
    /\ Regular("closeAtEnd", closer[s] # "checked")
    /\ \E ok \in IF "cleanEnd" \in Avoided THEN {FALSE} ELSE BOOLEAN :
           reaction' = [reaction EXCEPT ![s] = [at |-> "done", ok |-> ok, cb |-> stream[s].readCb,
                                                close |-> stream[s].closeCb]]
    /\ ReactionFrame /\ UNCHANGED <<stream, reads, ended, messages, reader, waits, lost>>

\* The RPC has ended, with a status that is ok or not.
DoneCopy(s) ==
    /\ call[s] = "open" /\ reaction[s] = Idle /\ reads[s] = 0
    /\ Regular("readAtEnd", \A r \in Readers : reader[s][r] = "idle")
    /\ Regular("closeAtEnd", closer[s] # "checked")
    /\ stream' = [stream EXCEPT ![s].closed = TRUE]
    /\ \E ok \in IF "cleanEnd" \in Avoided THEN {FALSE} ELSE BOOLEAN :
           reaction' = [reaction EXCEPT ![s] = [at |-> "done", ok |-> ok, cb |-> stream[s].readCb,
                                                close |-> stream[s].closeCb]]
    /\ ReactionFrame /\ UNCHANGED <<reads, ended, messages, reader, waits, lost>>

\* A reader is told only of a status that is not ok.  The opener's callback
\* takes the request from the registry unless the error is an AuthError.
DoneTell(s) ==
    /\ reaction[s].at = "done"
    /\ waits' = [waits EXCEPT ![s] = IF reaction[s].ok THEN @ ELSE @ \ {reaction[s].cb}]
    /\ closeWaits' = IF reaction[s].close THEN closeWaits \ {s} ELSE closeWaits
    /\ \/ RemoveRequest(s) /\ reaction[s].cb = Opener /\ ~reaction[s].ok
       \/ UNCHANGED <<requests, streams>>
    /\ reaction' = [reaction EXCEPT ![s].at = "ending"]
    /\ UNCHANGED <<stub, disconnected, callVars, stream, reads, ended, messages, reader, closer,
                   lost, controls>>

\* The callbacks are dropped, then the stream leaves the registry.
DoneEnd(s) ==
    /\ reaction[s].at = "ending"
    /\ stream' = [stream EXCEPT ![s].readCb = None, ![s].closeCb = FALSE]
    /\ streams' = streams \ {s}
    /\ call' = [call EXCEPT ![s] = "done"]
    /\ reaction' = [reaction EXCEPT ![s] = Idle]
    /\ UNCHANGED <<stub, disconnected, requests, addr, cancelled, reads, ended, messages, appVars,
                   lost, controls>>

-----------------------------------------------------------------------------
(* readNext and close, by the application                                   *)

ReaderAt(s, r, from, to) ==
    /\ reader[s][r] = from
    /\ reader' = [reader EXCEPT ![s][r] = to]
    /\ UNCHANGED <<channelVars, callVars, reaction, ended, messages, closer, closeWaits, lost,
                   controls>>

\* A stream that is closed calls back at once, which changes nothing.
ReadNext(s, r) ==
    /\ ~stream[s].initial /\ r \notin waits[s] /\ ~stream[s].closed
    /\ Regular("readBeforeReset", reaction[s].at \notin {"read", "handle", "told"})
    /\ Regular("readAtEnd", s \notin ended)
    /\ ReaderAt(s, r, "idle", "checked")
    /\ UNCHANGED <<stream, reads, waits>>

\* A read is pending already: the call returns and its callback is dropped.
ReadArm(s, r) ==
    /\ IF stream[s].pending
       THEN ReaderAt(s, r, "checked", "idle") /\ UNCHANGED <<stream, waits>>
       ELSE /\ stream' = [stream EXCEPT ![s].pending = TRUE]
            /\ waits' = [waits EXCEPT ![s] = @ \cup {r}]
            /\ ReaderAt(s, r, "checked", "armed")
    /\ UNCHANGED reads

\* Variant with a bug: the read is started before its callback is stored.
ReadStoreStartsFirst(s, r) ==
    /\ reads' = [reads EXCEPT ![s] = @ + 1]
    /\ ReaderAt(s, r, "armed", "stored")
    /\ UNCHANGED <<stream, waits>>

ReadStore(s, r) ==
    /\ stream' = [stream EXCEPT ![s].readCb = r]
    /\ ReaderAt(s, r, "armed", "stored")
    /\ UNCHANGED <<reads, waits>>

\* StartRead
ReadStart(s, r) ==
    /\ reads' = [reads EXCEPT ![s] = @ + 1]
    /\ ReaderAt(s, r, "stored", "idle")
    /\ UNCHANGED <<stream, waits>>

CloserAt(s, from, to) ==
    /\ closer[s] = from
    /\ closer' = [closer EXCEPT ![s] = to]
    /\ UNCHANGED <<channelVars, addr, call, grpcVars, reader, waits, lost, controls>>

CloseBegin(s) ==
    /\ ~stream[s].initial
    /\ ~stream[s].closed /\ ~stream[s].closeCb
    /\ closeWaits' = closeWaits \cup {s}
    /\ CloserAt(s, "idle", "checked")
    /\ UNCHANGED <<stream, cancelled>>

CloseStore(s) ==
    /\ stream' = [stream EXCEPT ![s].closeCb = TRUE]
    /\ CloserAt(s, "checked", "stored")
    /\ UNCHANGED <<cancelled, closeWaits>>

TryCancel(s) ==
    /\ cancelled' = cancelled \cup {s}
    /\ CloserAt(s, "stored", "over")
    /\ UNCHANGED <<stream, closeWaits>>

-----------------------------------------------------------------------------
StreamReaction(s) ==
    \/ ReadDone(s) \/ ReadFailed(s) \/ ReadCopy(s) \/ ReadTell(s) \/ ReadReset(s)
    \/ DoneCopy(s) \/ DoneTell(s) \/ DoneEnd(s)

ReaderStep(s, r) == ReadArm(s, r) \/ ReadStore(s, r) \/ ReadStart(s, r)

Next ==
    \/ \E c \in Calls : SendRefused(c) \/ Cancel(c)
    \/ \E a \in FreeAddresses : \/ \E c \in Unary : SendUnary(c, a)
                                \/ \E s \in Streams : SendStream(s, a)
    \/ \E c \in Unary : UnaryDone(c)
    \/ CloseChannel \/ Reconnect \/ InitChannel \/ NetworkDown \/ NetworkUp
    \/ \E s \in Streams : \/ StreamReaction(s)
                          \/ \E r \in Readers : ReadNext(s, r) \/ ReaderStep(s, r)
                          \/ CloseBegin(s) \/ CloseStore(s) \/ TryCancel(s)

\* gRPC finishes the reaction it runs and ends a stream that was told to
\* cancel or has failed; the application's threads finish their calls.
\* Nobody has to send, read, close or change the network.  gRPC itself does
\* not wait for readers; SF makes up for Regular, which lets it.
GrpcCallsSpec ==
    /\ Init /\ [][Next]_grpcCallsVars
    /\ \A s \in Streams :
          /\ WF_grpcCallsVars(reaction[s] # Idle /\ StreamReaction(s))
          /\ SF_grpcCallsVars(s \in cancelled \cup ended /\ StreamReaction(s))
          /\ \A r \in Readers : WF_grpcCallsVars(ReaderStep(s, r))
          /\ WF_grpcCallsVars(CloseStore(s) \/ TryCancel(s))

-----------------------------------------------------------------------------
(* Properties                                                               *)

\* Nothing escapes suspend, close and the loss of the network: a call under
\* way is in the registry, where they find it, or has been told to cancel,
\* or is at its end.  Otherwise a stream would keep its socket in the
\* background, although suspend() has destroyed the channel.
NothingEscapes ==
    \A c \in Calls : call[c] = "open" =>
        \/ c \in requests \cup streams \cup cancelled
        \/ c \in Streams /\ (stream[c].closed \/ stream[c].closeCb)

\* Every message that arrives is passed to a reader's callback.
MessagesReachAReader == lost = {}

\* Nobody waits for ever: close() calls back in the end, and so does
\* readNext when the stream was told to cancel or has no message left.
WaitersAreReleased ==
    \A s \in Streams :
        /\ s \in closeWaits ~> s \notin closeWaits
        /\ \A r \in Readers \cup {Opener} :
              r \in waits[s] /\ s \in cancelled \cup ended ~> r \notin waits[s]

=============================================================================
