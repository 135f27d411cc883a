----------------------------- MODULE Grpc_proofs -----------------------------
(***************************************************************************)
(* Proofs about the client over gRPC: GrpcCalls, the calls and streams of a *)
(* channel, and ClientLifecycle, the suspend, resume, close and network     *)
(* events that destroy, rebuild and mark it.                                *)
(*                                                                          *)
(* GrpcCalls, for any number of calls, addresses, readers, messages and     *)
(* controlling events.  If the address of a request is not used again while *)
(* its stream lives, no call escapes suspend, close and the loss of the     *)
(* network; if nobody calls readNext before the reaction of the last read   *)
(* is over, every message reaches a reader.  Neither result needs the rest  *)
(* of the irregular behaviour to be avoided.                                *)
(*                                                                          *)
(* ClientLifecycle, for any number of calls and for network events on the   *)
(* application's thread or on one of their own: a suspend() that overtook   *)
(* nothing keeps the channel closed until the next resume(), and nothing    *)
(* re-opens it after close().                                               *)
(***************************************************************************)
EXTENDS GrpcCalls, ClientLifecycle, TLAPS


(***************************************************************************)
(* Types                                                                    *)
(***************************************************************************)

Callbacks == Readers \cup {Opener, None}

StreamType == [readCb : Callbacks, closeCb : BOOLEAN, closed : BOOLEAN, initial : BOOLEAN,
               pending : BOOLEAN]

ReadReaction == [at : {"read", "handle", "told"}, cb : Callbacks]
DoneReaction == [at : {"done", "ending"}, ok : BOOLEAN, cb : Callbacks, close : BOOLEAN]

\* Every variable keeps its type.
ChannelTyped ==
    /\ stub \in BOOLEAN /\ disconnected \in BOOLEAN
    /\ requests \subseteq Unary /\ streams \subseteq Streams
    /\ addr \in [Calls -> Addresses \cup {None}]
    /\ call \in [Calls -> {"new", "refused", "open", "done"}]
    /\ cancelled \subseteq Calls

StreamsTyped ==
    /\ stream \in [Streams -> StreamType]
    /\ reaction \in [Streams -> {Idle} \cup ReadReaction \cup DoneReaction]
    /\ reads \in [Streams -> Nat]
    /\ ended \subseteq Streams
    /\ messages \in [Streams -> Nat]

CallersTyped ==
    /\ reader \in [Streams -> [Readers -> {"idle", "checked", "armed", "stored"}]]
    /\ waits \in [Streams -> SUBSET Callbacks]
    /\ closer \in [Streams -> {"idle", "checked", "stored", "over"}]
    /\ closeWaits \subseteq Streams
    /\ lost \subseteq Streams
    /\ controls \in Nat

TypeOK == ChannelTyped /\ StreamsTyped /\ CallersTyped

LEMMA InitTyped == Init => TypeOK
<1> SUFFICES ASSUME Init PROVE TypeOK
    OBVIOUS
<1>1. ChannelTyped
    BY DEF Init, ChannelTyped
<1>2. NewStream \in StreamType
    BY DEF NewStream, StreamType, Callbacks
<1>3. StreamsTyped
    BY <1>2 DEF Init, StreamsTyped
<1>4. CallersTyped
    BY DEF Init, CallersTyped
<1> QED
    BY <1>1, <1>3, <1>4 DEF TypeOK

\* Fields of a stream, one by one.
LEMMA StreamFields ==
    ASSUME StreamsTyped, NEW s \in Streams
    PROVE  /\ stream[s].readCb \in Callbacks /\ stream[s].closeCb \in BOOLEAN
           /\ stream[s].closed \in BOOLEAN /\ stream[s].initial \in BOOLEAN
           /\ stream[s].pending \in BOOLEAN
BY DEF StreamsTyped, StreamType

LEMMA ReactionKinds ==
    ASSUME StreamsTyped, NEW s \in Streams
    PROVE  /\ reaction[s].at \in {"idle", "read", "handle", "told", "done", "ending"}
           /\ reaction[s] = Idle <=> reaction[s].at = "idle"
           /\ reaction[s].at \in {"read", "handle", "told"} => reaction[s] \in ReadReaction
           /\ reaction[s].at \in {"done", "ending"} => reaction[s] \in DoneReaction
<1>1. reaction[s] \in {Idle} \cup ReadReaction \cup DoneReaction
    BY DEF StreamsTyped
<1>2. CASE reaction[s] = Idle
    BY <1>2 DEF Idle
<1>3. CASE reaction[s] \in ReadReaction
    BY <1>3 DEF Idle, ReadReaction
<1>4. CASE reaction[s] \in DoneReaction
    BY <1>4 DEF Idle, DoneReaction
<1> QED
    BY <1>1, <1>2, <1>3, <1>4

\* A stream with one of its fields set is a stream.
LEMMA FieldSet ==
    ASSUME NEW k \in StreamType
    PROVE  /\ [k EXCEPT !.pending = TRUE] \in StreamType
           /\ [k EXCEPT !.pending = FALSE] \in StreamType
           /\ [k EXCEPT !.closed = TRUE] \in StreamType
           /\ [k EXCEPT !.closeCb = TRUE] \in StreamType
           /\ [k EXCEPT !.initial = FALSE] \in StreamType
           /\ \A cb \in Callbacks : /\ [k EXCEPT !.readCb = cb] \in StreamType
                                    /\ [k EXCEPT !.readCb = cb, !.pending = TRUE] \in StreamType
                                    /\ [k EXCEPT !.readCb = cb, !.closeCb = FALSE] \in StreamType
BY DEF StreamType

LEMMA TypePreserved == TypeOK /\ [Next]_grpcCallsVars => TypeOK'
<1> SUFFICES ASSUME TypeOK, [Next]_grpcCallsVars PROVE TypeOK'
    OBVIOUS
<1> USE DEF TypeOK
<1>1. ASSUME NEW c \in Calls, SendRefused(c) PROVE TypeOK'
    BY <1>1 DEF SendRefused, channelVars, grpcVars, appVars,
       ChannelTyped, StreamsTyped, CallersTyped
<1>2. ASSUME NEW c \in Calls, Cancel(c) PROVE TypeOK'
    <2>1. ChannelTyped'
        BY <1>2 DEF Cancel, Closed, Calls, channelVars, ChannelTyped
    <2>2. StreamsTyped' /\ CallersTyped'
        BY <1>2 DEF Cancel, CountControl, grpcVars, appVars, StreamsTyped, CallersTyped
    <2> QED
        BY <2>1, <2>2
<1>3. ASSUME NEW a \in Addresses, NEW c \in Unary, SendUnary(c, a) PROVE TypeOK'
    <2>1. ChannelTyped'
        BY <1>3 DEF SendUnary, SendCall, Emplaced, Calls, ChannelTyped
    <2>2. StreamsTyped' /\ CallersTyped'
        BY <1>3 DEF SendUnary, grpcVars, appVars, StreamsTyped, CallersTyped
    <2> QED
        BY <2>1, <2>2
<1>4. ASSUME NEW a \in Addresses, NEW s \in Streams, SendStream(s, a) PROVE TypeOK'
    <2>1. ChannelTyped'
        BY <1>4 DEF SendStream, SendCall, Emplaced, Calls, ChannelTyped
    <2>2. StreamsTyped'
        <3>1. stream' \in [Streams -> StreamType]
            <4>0. stream \in [Streams -> StreamType]
                BY DEF StreamsTyped
            <4>1. stream[s] \in StreamType /\ Opener \in Callbacks
                BY <4>0 DEF Callbacks
            <4>2. [stream[s] EXCEPT !.readCb = Opener, !.pending = TRUE] \in StreamType
                BY <4>1, FieldSet
            <4>3. stream' = [stream EXCEPT ![s] = [stream[s] EXCEPT !.readCb = Opener,
                                                                   !.pending = TRUE]]
                BY <1>4, <4>0 DEF SendStream
            <4> QED
                BY <4>0, <4>2, <4>3
        <3>2. reads' \in [Streams -> Nat]
            BY <1>4 DEF SendStream, StreamsTyped
        <3> QED
            BY <1>4, <3>1, <3>2 DEF SendStream, StreamsTyped
    <2>3. CallersTyped'
        BY <1>4 DEF SendStream, CallersTyped, Callbacks
    <2> QED
        BY <2>1, <2>2, <2>3
<1>5. ASSUME NEW c \in Unary, UnaryDone(c) PROVE TypeOK'
    <2>1. ChannelTyped'
        BY <1>5 DEF UnaryDone, RemoveRequest, Calls, ChannelTyped
    <2>2. StreamsTyped' /\ CallersTyped'
        BY <1>5 DEF UnaryDone, grpcVars, appVars, StreamsTyped, CallersTyped
    <2> QED
        BY <2>1, <2>2
<1>6. ASSUME CloseChannel \/ Reconnect \/ InitChannel \/ NetworkDown \/ NetworkUp
      PROVE  TypeOK'
    <2>1. ChannelTyped'
        BY <1>6 DEF CloseChannel, Reconnect, InitChannel, NetworkDown, NetworkUp, CloseAll,
           ControlFrame, Closed, Calls, ChannelTyped
    <2>2. StreamsTyped' /\ CallersTyped'
        BY <1>6 DEF CloseChannel, Reconnect, InitChannel, NetworkDown, NetworkUp, CountControl,
           ControlFrame, grpcVars, appVars, StreamsTyped, CallersTyped
    <2> QED
        BY <2>1, <2>2
<1>7. ASSUME NEW s \in Streams, StreamReaction(s) PROVE TypeOK'
    <2> USE StreamFields, ReactionKinds
    <2>1. CASE ReadDone(s)
        <3>1. stream' \in [Streams -> StreamType]
            BY <2>1, FieldSet DEF ReadDone, StreamsTyped
        <3>2. reaction' \in [Streams -> {Idle} \cup ReadReaction \cup DoneReaction]
            BY <2>1 DEF ReadDone, StreamsTyped, ReadReaction, Callbacks
        <3>3. reads' \in [Streams -> Nat] /\ messages' \in [Streams -> Nat]
            BY <2>1 DEF ReadDone, StreamsTyped
        <3> QED
            BY <2>1, <3>1, <3>2, <3>3 DEF ReadDone, ReactionFrame, channelVars, callVars,
               ChannelTyped, StreamsTyped, CallersTyped
    <2>2. CASE ReadFailed(s)
        <3>1. stream' \in [Streams -> StreamType]
            BY <2>2, FieldSet DEF ReadFailed, StreamsTyped
        <3>2. reads' \in [Streams -> Nat] /\ ended' \subseteq Streams
            BY <2>2 DEF ReadFailed, StreamsTyped
        <3> QED
            BY <2>2, <3>1, <3>2 DEF ReadFailed, ReactionFrame, channelVars, callVars,
               ChannelTyped, StreamsTyped, CallersTyped
    <2>3. CASE ReadCopy(s)
        <3>1. reaction' \in [Streams -> {Idle} \cup ReadReaction \cup DoneReaction]
            BY <2>3 DEF ReadCopy, StreamsTyped, ReadReaction
        <3> QED
            BY <2>3, <3>1 DEF ReadCopy, ReactionFrame, channelVars, callVars,
               ChannelTyped, StreamsTyped, CallersTyped
    <2>4. CASE ReadTell(s)
        <3>1. stream' \in [Streams -> StreamType]
            BY <2>4, FieldSet DEF ReadTell, StreamsTyped
        <3>2. [reaction[s] EXCEPT !.at = "told"] \in ReadReaction
            BY <2>4 DEF ReadTell, ReadReaction
        <3>3. reaction' \in [Streams -> {Idle} \cup ReadReaction \cup DoneReaction]
            BY <2>4, <3>2 DEF ReadTell, StreamsTyped
        <3> QED
            BY <2>4, <3>1, <3>3 DEF ReadTell, ReactionFrame, channelVars, callVars,
               ChannelTyped, StreamsTyped, CallersTyped
    <2>5. CASE ReadReset(s)
        <3>1. stream' \in [Streams -> StreamType]
            BY <2>5 DEF ReadReset, StreamsTyped, StreamType, Callbacks
        <3> QED
            BY <2>5, <3>1 DEF ReadReset, ReactionFrame, channelVars, callVars,
               ChannelTyped, StreamsTyped, CallersTyped
    <2>6. CASE DoneCopy(s)
        <3>1. stream' \in [Streams -> StreamType]
            BY <2>6, FieldSet DEF DoneCopy, StreamsTyped
        <3>2. PICK ok \in BOOLEAN :
                 reaction' = [reaction EXCEPT ![s] = [at |-> "done", ok |-> ok,
                     cb |-> stream[s].readCb, close |-> stream[s].closeCb]]
            BY <2>6 DEF DoneCopy
        <3>3. [at |-> "done", ok |-> ok, cb |-> stream[s].readCb, close |-> stream[s].closeCb]
                 \in DoneReaction
            BY DEF DoneReaction
        <3>4. reaction' \in [Streams -> {Idle} \cup ReadReaction \cup DoneReaction]
            BY <3>2, <3>3 DEF StreamsTyped
        <3> QED
            BY <2>6, <3>1, <3>4 DEF DoneCopy, ReactionFrame, channelVars, callVars,
               ChannelTyped, StreamsTyped, CallersTyped
    <2>7. CASE DoneTell(s)
        <3>1. [reaction[s] EXCEPT !.at = "ending"] \in DoneReaction
            BY <2>7 DEF DoneTell, DoneReaction
        <3>2. reaction' \in [Streams -> {Idle} \cup ReadReaction \cup DoneReaction]
            BY <2>7, <3>1 DEF DoneTell, StreamsTyped
        <3>3. ChannelTyped'
            BY <2>7 DEF DoneTell, RemoveRequest, callVars, ChannelTyped
        <3>4. waits' \in [Streams -> SUBSET Callbacks]
            BY <2>7 DEF DoneTell, CallersTyped
        <3> QED
            BY <2>7, <3>2, <3>3, <3>4 DEF DoneTell, StreamsTyped, CallersTyped
    <2>8. CASE DoneEnd(s)
        <3>1. stream' \in [Streams -> StreamType]
            BY <2>8, FieldSet DEF DoneEnd, StreamsTyped, Callbacks
        <3>2. ChannelTyped'
            BY <2>8 DEF DoneEnd, ChannelTyped, Calls
        <3> QED
            BY <2>8, <3>1, <3>2 DEF DoneEnd, appVars, StreamsTyped, CallersTyped
    <2> QED
        BY <1>7, <2>1, <2>2, <2>3, <2>4, <2>5, <2>6, <2>7, <2>8 DEF StreamReaction
<1>8. ASSUME NEW s \in Streams, NEW r \in Readers, ReadNext(s, r) \/ ReaderStep(s, r)
      PROVE  TypeOK'
    <2>1. /\ reader' \in [Streams -> [Readers -> {"idle", "checked", "armed", "stored"}]]
          /\ UNCHANGED <<channelVars, callVars, reaction, ended, messages, closer, closeWaits,
                         lost, controls>>
        BY <1>8 DEF ReadNext, ReaderStep, ReadArm, ReadStore, ReadStart, ReaderAt, CallersTyped
    <2>2. stream' \in [Streams -> StreamType]
        <3>1. CASE UNCHANGED stream
            BY <3>1 DEF StreamsTyped
        <3>2. CASE stream' = [stream EXCEPT ![s].pending = TRUE]
            BY <3>2, FieldSet DEF StreamsTyped
        <3>3. CASE stream' = [stream EXCEPT ![s].readCb = r]
            BY <3>3, FieldSet DEF StreamsTyped, Callbacks
        <3> QED
            BY <1>8, <3>1, <3>2, <3>3 DEF ReadNext, ReaderStep, ReadArm, ReadStore, ReadStart
    <2>3. waits' \in [Streams -> SUBSET Callbacks]
        BY <1>8 DEF ReadNext, ReaderStep, ReadArm, ReadStore, ReadStart, CallersTyped, Callbacks
    <2>4. reads' \in [Streams -> Nat]
        BY <1>8 DEF ReadNext, ReaderStep, ReadArm, ReadStore, ReadStart, StreamsTyped
    <2> QED
        BY <2>1, <2>2, <2>3, <2>4 DEF channelVars, callVars, ChannelTyped, StreamsTyped,
           CallersTyped
<1>9. ASSUME NEW s \in Streams, CloseBegin(s) \/ CloseStore(s) \/ TryCancel(s)
      PROVE  TypeOK'
    <2>1. /\ closer' \in [Streams -> {"idle", "checked", "stored", "over"}]
          /\ closeWaits' \subseteq Streams /\ cancelled' \subseteq Calls
          /\ UNCHANGED <<channelVars, addr, call, grpcVars, reader, waits, lost, controls>>
        BY <1>9 DEF CloseBegin, CloseStore, TryCancel, CloserAt, ChannelTyped, CallersTyped, Calls
    <2>2. stream' \in [Streams -> StreamType]
        <3>1. CASE UNCHANGED stream
            BY <3>1 DEF StreamsTyped
        <3>2. CASE stream' = [stream EXCEPT ![s].closeCb = TRUE]
            BY <3>2, FieldSet DEF StreamsTyped
        <3> QED
            BY <1>9, <3>1, <3>2 DEF CloseBegin, CloseStore, TryCancel
    <2> QED
        BY <2>1, <2>2 DEF channelVars, grpcVars, ChannelTyped, StreamsTyped, CallersTyped
<1>10. CASE UNCHANGED grpcCallsVars
    BY <1>10 DEF grpcCallsVars, channelVars, callVars, grpcVars, appVars, ChannelTyped,
       StreamsTyped, CallersTyped
<1> QED
    BY <1>1, <1>2, <1>3, <1>4, <1>5, <1>6, <1>7, <1>8, <1>9, <1>10 DEF Next, FreeAddresses

(***************************************************************************)
(* No call escapes                                                          *)
(***************************************************************************)

Open(c) == call[c] = "open"
OnItsEnd(s) == stream[s].closed \/ stream[s].closeCb

\* Only calls under way are registered, and no two of them have one address,
\* so that an entry is always added and removeRequest takes no other than the
\* request's own.  OnDone has marked the stream before it calls back.
RegisteredAreOpen == \A c \in requests \cup streams : Open(c)

OneAddressEach == \A c, d \in Calls : Open(c) /\ Open(d) /\ addr[c] = addr[d] => c = d

DoneIsMarked ==
    \A s \in Streams : reaction[s].at \in {"done", "ending"} => stream[s].closed /\ Open(s)

RegistryInv == RegisteredAreOpen /\ OneAddressEach /\ DoneIsMarked /\ NothingEscapes

LEMMA InitRegistry == Init => RegistryInv
BY DEF Init, RegistryInv, RegisteredAreOpen, OneAddressEach, DoneIsMarked, NothingEscapes, Open,
   Idle

\* Steps that leave the registry and the calls alone.
LEMMA RegistryKept ==
    ASSUME TypeOK, RegistryInv,
           UNCHANGED <<requests, streams, addr, call>>, cancelled \subseteq cancelled',
           \A s \in Streams : stream[s].closed => stream'[s].closed,
           \A s \in Streams : stream[s].closeCb => stream'[s].closeCb,
           \A s \in Streams : reaction'[s].at \in {"done", "ending"} =>
                /\ Open(s)
                /\ reaction[s].at \in {"done", "ending"} \/ stream'[s].closed
    PROVE  RegistryInv'
<1>1. RegisteredAreOpen' /\ OneAddressEach'
    BY DEF RegistryInv, RegisteredAreOpen, OneAddressEach, Open
<1>2. DoneIsMarked'
    BY DEF RegistryInv, DoneIsMarked, Open
<1>3. NothingEscapes'
    BY DEF RegistryInv, NothingEscapes
<1> QED
    BY <1>1, <1>2, <1>3 DEF RegistryInv

\* A new call is registered under an address that no call under way has.
LEMMA SendRegisters ==
    ASSUME TypeOK, RegistryInv, "reusedAddress" \in Avoided,
           NEW a \in FreeAddresses, NEW c \in Calls, SendCall(c, a),
           UNCHANGED <<cancelled, reaction>>,
           \A s \in Streams : stream'[s].closed = stream[s].closed,
           \A s \in Streams : stream'[s].closeCb = stream[s].closeCb,
           \/ requests' = Emplaced(requests, c, a) /\ streams' = streams
           \/ streams' = Emplaced(streams, c, a) /\ requests' = requests
    PROVE  RegistryInv'
<1>1. /\ call[c] = "new" /\ call'[c] = "open" /\ addr'[c] = a
      /\ \A d \in Calls : d # c => call'[d] = call[d] /\ addr'[d] = addr[d]
    BY DEF SendCall, TypeOK, ChannelTyped
<1>2. \A d \in Calls : Open(d) => addr[d] # a
    BY DEF FreeAddresses, HoldsRequest, Open
<1>3. requests \cup streams \subseteq Calls
    BY DEF TypeOK, ChannelTyped, Calls
<1>4. \A d \in requests \cup streams : addr[d] # a
    BY <1>2, <1>3 DEF RegistryInv, RegisteredAreOpen
<1>5. requests' \cup streams' = requests \cup streams \cup {c}
    BY <1>4 DEF Emplaced
<1>6. RegisteredAreOpen'
    BY <1>1, <1>3, <1>5 DEF RegistryInv, RegisteredAreOpen, Open
<1>7. OneAddressEach'
    BY <1>1, <1>2 DEF RegistryInv, OneAddressEach, Open
<1>8. DoneIsMarked'
    BY <1>1 DEF RegistryInv, DoneIsMarked, Open, Calls
<1>9. NothingEscapes'
    BY <1>1, <1>5 DEF RegistryInv, NothingEscapes
<1> QED
    BY <1>6, <1>7, <1>8, <1>9 DEF RegistryInv

\* Whatever cancels all calls leaves none that is neither told nor ending.
LEMMA CloseAllKeeps ==
    ASSUME TypeOK, RegistryInv, CloseAll, UNCHANGED <<addr, call, stream, reaction>>
    PROVE  RegistryInv'
<1>1. requests' = {} /\ streams' = {} /\ cancelled \subseteq cancelled'
    BY DEF CloseAll
<1>2. ASSUME NEW c \in requests \cup streams, c \notin cancelled'
      PROVE  c \in Streams /\ OnItsEnd(c)
    BY <1>2 DEF CloseAll, Closed, OnItsEnd, TypeOK, ChannelTyped
<1>3. NothingEscapes'
    <2> SUFFICES ASSUME NEW c \in Calls, call'[c] = "open", c \notin cancelled'
                 PROVE  c \in Streams /\ OnItsEnd(c)'
        BY DEF NothingEscapes, OnItsEnd
    <2>1. CASE c \in requests \cup streams
        BY <1>2, <2>1 DEF OnItsEnd
    <2>2. CASE c \notin requests \cup streams
        BY <1>1, <2>2 DEF RegistryInv, NothingEscapes, OnItsEnd
    <2> QED
        BY <2>1, <2>2
<1>4. RegisteredAreOpen' /\ OneAddressEach' /\ DoneIsMarked'
    BY <1>1 DEF RegistryInv, RegisteredAreOpen, OneAddressEach, DoneIsMarked, Open
<1> QED
    BY <1>3, <1>4 DEF RegistryInv

\* The call that is done leaves the registry, and no other does.
LEMMA RemoveTakesOwn ==
    ASSUME TypeOK, RegistryInv, NEW c \in Calls, Open(c), RemoveRequest(c)
    PROVE  requests' = requests \ {c} /\ streams' = streams \ {c}
<1>1. \A d \in requests \cup streams : d \in Calls /\ Open(d)
    BY DEF RegistryInv, RegisteredAreOpen, TypeOK, ChannelTyped, Calls
<1>2. \A d \in requests \cup streams : addr[d] = addr[c] <=> d = c
    BY <1>1 DEF RegistryInv, OneAddressEach
<1> QED
    BY <1>2 DEF RemoveRequest

LEMMA RegistryPreserved ==
    ASSUME "reusedAddress" \in Avoided, TypeOK, RegistryInv, [Next]_grpcCallsVars
    PROVE  RegistryInv'
<1>1. ASSUME NEW c \in Calls, SendRefused(c) PROVE RegistryInv'
    <2>1. /\ call[c] = "new" /\ call'[c] = "refused"
          /\ \A d \in Calls : d # c => call'[d] = call[d]
          /\ UNCHANGED <<requests, streams, addr, cancelled, stream, reaction>>
        BY <1>1 DEF SendRefused, channelVars, grpcVars, TypeOK, ChannelTyped
    <2>2. \A d \in Calls : Open(d)' <=> Open(d)
        BY <2>1 DEF Open
    <2>3. requests \cup streams \subseteq Calls /\ Streams \subseteq Calls
        BY DEF TypeOK, ChannelTyped, Calls
    <2>4. RegisteredAreOpen' /\ OneAddressEach' /\ DoneIsMarked'
        BY <2>1, <2>2, <2>3 DEF RegistryInv, RegisteredAreOpen, OneAddressEach, DoneIsMarked
    <2>5. NothingEscapes'
        BY <2>1, <2>2 DEF RegistryInv, NothingEscapes, Open
    <2> QED
        BY <2>4, <2>5 DEF RegistryInv
<1>2. ASSUME NEW c \in Calls, Cancel(c) PROVE RegistryInv'
    BY <1>2, RegistryKept DEF Cancel, channelVars, grpcVars, RegistryInv, DoneIsMarked
<1>3. ASSUME NEW a \in FreeAddresses, NEW c \in Unary, SendUnary(c, a) PROVE RegistryInv'
    BY <1>3, SendRegisters DEF SendUnary, grpcVars, Calls
<1>4. ASSUME NEW a \in FreeAddresses, NEW s \in Streams, SendStream(s, a) PROVE RegistryInv'
    <2>1. \A t \in Streams : stream'[t].closed = stream[t].closed
        BY <1>4 DEF SendStream, TypeOK, StreamsTyped, StreamType
    <2>2. \A t \in Streams : stream'[t].closeCb = stream[t].closeCb
        BY <1>4 DEF SendStream, TypeOK, StreamsTyped, StreamType
    <2> QED
        BY <1>4, <2>1, <2>2, SendRegisters DEF SendStream, Calls
<1>5. ASSUME NEW c \in Unary, UnaryDone(c) PROVE RegistryInv'
    <2>1. /\ call'[c] = "done" /\ \A d \in Calls : d # c => call'[d] = call[d]
          /\ UNCHANGED <<addr, cancelled, stream, reaction>>
          /\ requests' = requests \ {c} /\ streams' = streams \ {c}
        BY <1>5, RemoveTakesOwn DEF UnaryDone, Open, grpcVars, Calls, TypeOK, ChannelTyped
    <2>2. requests \cup streams \subseteq Calls /\ c \notin Streams /\ Streams \subseteq Calls
        BY GrpcCallsAssumption DEF TypeOK, ChannelTyped, Calls
    <2>3. RegisteredAreOpen' /\ OneAddressEach' /\ DoneIsMarked'
        BY <2>1, <2>2 DEF RegistryInv, RegisteredAreOpen, OneAddressEach, DoneIsMarked, Open
    <2>4. NothingEscapes'
        BY <2>1, <2>2 DEF RegistryInv, NothingEscapes
    <2> QED
        BY <2>3, <2>4 DEF RegistryInv
<1>6. ASSUME CloseChannel \/ Reconnect \/ NetworkDown PROVE RegistryInv'
    BY <1>6, CloseAllKeeps DEF CloseChannel, Reconnect, NetworkDown, ControlFrame, grpcVars
<1>7. ASSUME InitChannel \/ NetworkUp PROVE RegistryInv'
    BY <1>7, RegistryKept DEF InitChannel, NetworkUp, ControlFrame, grpcVars, RegistryInv,
       DoneIsMarked
<1>8. ASSUME NEW s \in Streams, StreamReaction(s) PROVE RegistryInv'
    <2>1. CASE ReadDone(s) \/ ReadFailed(s) \/ ReadCopy(s) \/ ReadTell(s) \/ ReadReset(s)
        <3>1. UNCHANGED <<requests, streams, addr, call, cancelled>>
            BY <2>1 DEF ReadDone, ReadFailed, ReadCopy, ReadTell, ReadReset, ReactionFrame,
               channelVars, callVars
        <3>2. \/ UNCHANGED stream
              \/ stream' = [stream EXCEPT ![s].pending = FALSE]
              \/ stream' = [stream EXCEPT ![s].initial = FALSE]
              \/ stream' = [stream EXCEPT ![s].readCb = None]
            BY <2>1 DEF ReadDone, ReadFailed, ReadCopy, ReadTell, ReadReset
        <3>3. \A t \in Streams : /\ stream'[t].closed = stream[t].closed
                                 /\ stream'[t].closeCb = stream[t].closeCb
            <4>1. CASE UNCHANGED stream
                BY <4>1
            <4>2. CASE stream' = [stream EXCEPT ![s].pending = FALSE]
                BY <4>2 DEF TypeOK, StreamsTyped, StreamType
            <4>3. CASE stream' = [stream EXCEPT ![s].initial = FALSE]
                BY <4>3 DEF TypeOK, StreamsTyped, StreamType
            <4>4. CASE stream' = [stream EXCEPT ![s].readCb = None]
                BY <4>4 DEF TypeOK, StreamsTyped, StreamType
            <4> QED
                BY <3>2, <4>1, <4>2, <4>3, <4>4
        <3>4. \A t \in Streams : reaction'[t].at \in {"done", "ending"} =>
                reaction[t].at \in {"done", "ending"}
            <4>1. \A t \in Streams : t # s => reaction'[t] = reaction[t]
                BY <2>1 DEF ReadDone, ReadFailed, ReadCopy, ReadTell, ReadReset, TypeOK,
                   StreamsTyped
            <4>2. reaction'[s].at \in {"done", "ending"} => reaction'[s] = reaction[s]
                <5>1. CASE ReadDone(s)
                    <6>1. reaction'[s] = [at |-> "read", cb |-> None]
                        BY <5>1 DEF ReadDone, TypeOK, StreamsTyped
                    <6> QED
                        BY <6>1
                <5>2. CASE ReadCopy(s)
                    <6>1. reaction'[s] = [at |-> "handle", cb |-> stream[s].readCb]
                        BY <5>2 DEF ReadCopy, TypeOK, StreamsTyped
                    <6> QED
                        BY <6>1
                <5>3. CASE ReadFailed(s)
                    BY <5>3 DEF ReadFailed
                <5>4. CASE ReadReset(s)
                    BY <5>4 DEF ReadReset, Idle, TypeOK, StreamsTyped
                <5>5. CASE ReadTell(s)
                    BY <5>5, ReactionKinds DEF ReadTell, ReadReaction, TypeOK, StreamsTyped
                <5> QED
                    BY <2>1, <5>1, <5>2, <5>3, <5>4, <5>5
            <4> QED
                BY <4>1, <4>2
        <3> QED
            BY <3>1, <3>2, <3>3, <3>4, RegistryKept DEF RegistryInv, DoneIsMarked
    <2>2. CASE DoneCopy(s)
        <3>1. UNCHANGED <<requests, streams, addr, call, cancelled>> /\ Open(s)
            BY <2>2 DEF DoneCopy, ReactionFrame, channelVars, callVars, Open
        <3>2. /\ stream'[s].closed
              /\ \A t \in Streams : t # s => stream'[t] = stream[t] /\ reaction'[t] = reaction[t]
            BY <2>2 DEF DoneCopy, TypeOK, StreamsTyped, StreamType
        <3>3. \A t \in Streams : stream'[t].closeCb = stream[t].closeCb
            BY <2>2 DEF DoneCopy, TypeOK, StreamsTyped, StreamType
        <3> QED
            BY <3>1, <3>2, <3>3, RegistryKept DEF RegistryInv, DoneIsMarked
    <2>3. CASE DoneTell(s)
        <3>1. Open(s) /\ stream[s].closed /\ s \in Calls
            BY <2>3 DEF DoneTell, RegistryInv, DoneIsMarked, Calls
        <3>2. UNCHANGED <<addr, call, cancelled, stream>>
            BY <2>3 DEF DoneTell, callVars
        <3>3. /\ requests' \subseteq requests /\ streams' \subseteq streams
              /\ \A c \in requests \cup streams : c # s => c \in requests' \cup streams'
            BY <2>3, <3>1, RemoveTakesOwn DEF DoneTell
        <3>4. \A t \in Streams : t # s => reaction'[t] = reaction[t]
            BY <2>3 DEF DoneTell, TypeOK, StreamsTyped
        <3>5. RegisteredAreOpen' /\ OneAddressEach' /\ DoneIsMarked'
            BY <3>1, <3>2, <3>3, <3>4 DEF RegistryInv, RegisteredAreOpen, OneAddressEach,
               DoneIsMarked, Open
        <3>6. NothingEscapes'
            BY <3>1, <3>2, <3>3 DEF RegistryInv, NothingEscapes
        <3> QED
            BY <3>5, <3>6 DEF RegistryInv
    <2>4. CASE DoneEnd(s)
        <3>1. /\ call'[s] = "done" /\ \A d \in Calls : d # s => call'[d] = call[d]
              /\ UNCHANGED <<addr, cancelled, requests>> /\ streams' = streams \ {s}
              /\ \A t \in Streams : t # s => stream'[t] = stream[t] /\ reaction'[t] = reaction[t]
              /\ reaction'[s] = Idle
            BY <2>4 DEF DoneEnd, TypeOK, ChannelTyped, StreamsTyped, Calls
        <3>2. s \notin requests /\ requests \cup streams \subseteq Calls /\ Streams \subseteq Calls
            BY GrpcCallsAssumption DEF TypeOK, ChannelTyped, Calls
        <3>3. RegisteredAreOpen' /\ OneAddressEach'
            BY <3>1, <3>2 DEF RegistryInv, RegisteredAreOpen, OneAddressEach, Open
        <3>4. DoneIsMarked'
            BY <3>1, <3>2 DEF RegistryInv, DoneIsMarked, Open, Idle
        <3>5. NothingEscapes'
            BY <3>1, <3>2 DEF RegistryInv, NothingEscapes
        <3> QED
            BY <3>3, <3>4, <3>5 DEF RegistryInv
    <2> QED
        BY <1>8, <2>1, <2>2, <2>3, <2>4 DEF StreamReaction
<1>9. ASSUME NEW s \in Streams, NEW r \in Readers, ReadNext(s, r) \/ ReaderStep(s, r)
      PROVE  RegistryInv'
    <2>1. UNCHANGED <<requests, streams, addr, call, cancelled, reaction>>
        BY <1>9 DEF ReadNext, ReaderStep, ReadArm, ReadStore, ReadStart, ReaderAt, channelVars,
           callVars
    <2>2. \A t \in Streams : /\ stream'[t].closed = stream[t].closed
                             /\ stream'[t].closeCb = stream[t].closeCb
        <3>1. CASE UNCHANGED stream
            BY <3>1
        <3>2. CASE stream' = [stream EXCEPT ![s].pending = TRUE]
            BY <3>2 DEF TypeOK, StreamsTyped, StreamType
        <3>3. CASE stream' = [stream EXCEPT ![s].readCb = r]
            BY <3>3 DEF TypeOK, StreamsTyped, StreamType
        <3> QED
            BY <1>9, <3>1, <3>2, <3>3 DEF ReadNext, ReaderStep, ReadArm, ReadStore, ReadStart
    <2> QED
        BY <2>1, <2>2, RegistryKept DEF RegistryInv, DoneIsMarked
<1>10. ASSUME NEW s \in Streams, CloseBegin(s) \/ CloseStore(s) \/ TryCancel(s)
       PROVE  RegistryInv'
    <2>1. UNCHANGED <<requests, streams, addr, call, reaction>> /\ cancelled \subseteq cancelled'
        BY <1>10 DEF CloseBegin, CloseStore, TryCancel, CloserAt, channelVars, grpcVars
    <2>2. \A t \in Streams : /\ stream'[t].closed = stream[t].closed
                             /\ stream[t].closeCb => stream'[t].closeCb
        <3>1. CASE UNCHANGED stream
            BY <3>1
        <3>2. CASE stream' = [stream EXCEPT ![s].closeCb = TRUE]
            BY <3>2 DEF TypeOK, StreamsTyped, StreamType
        <3> QED
            BY <1>10, <3>1, <3>2 DEF CloseBegin, CloseStore, TryCancel
    <2> QED
        BY <2>1, <2>2, RegistryKept DEF RegistryInv, DoneIsMarked
<1>11. CASE UNCHANGED grpcCallsVars
    BY <1>11, RegistryKept DEF grpcCallsVars, channelVars, callVars, grpcVars, RegistryInv,
       DoneIsMarked
<1> QED
    BY <1>1, <1>2, <1>3, <1>4, <1>5, <1>6, <1>7, <1>8, <1>9, <1>10, <1>11 DEF Next

(***************************************************************************)
(* No message is lost                                                       *)
(***************************************************************************)

Armed(s) == {r \in Readers : reader[s][r] \in {"armed", "stored"}}
Delivering(s) == reaction[s].at \in {"read", "handle", "told"}
AllIdle(s) == \A r \in Readers : reader[s][r] = "idle"

\* m_readPending is true while a read is outstanding or one reader is about
\* to start one, and there is only one of all these.
OneRead(s) ==
    /\ stream[s].pending <=> (reads[s] = 1 \/ Armed(s) # {})
    /\ reads[s] = 1 => Armed(s) = {}
    /\ \A r, q \in Armed(s) : r = q
    /\ reads[s] \in {0, 1}

\* A read that is outstanding, or will be next, finds its callback in place.
CallbackInPlace(s) ==
    Open(s) /\ (reads[s] = 1 \/ \E r \in Readers : reader[s][r] = "stored")
        => stream[s].readCb # None

\* While a message is delivered nobody is in readNext, so that the callback
\* is the one the read was started with.
DeliveryAlone(s) ==
    /\ Delivering(s) => AllIdle(s) /\ ~stream[s].pending
    /\ reaction[s].at = "read" => stream[s].readCb # None
    /\ reaction[s].at = "handle" => reaction[s].cb # None

NotStarted(s) ==
    call[s] = "new" => /\ stream[s].initial /\ ~stream[s].pending
                       /\ AllIdle(s) /\ reaction[s] = Idle

StreamReads(s) == OneRead(s) /\ CallbackInPlace(s) /\ DeliveryAlone(s) /\ NotStarted(s)

ReadsInv == MessagesReachAReader /\ \A s \in Streams : StreamReads(s)

LEMMA InitReads == Init => ReadsInv
<1> SUFFICES ASSUME Init PROVE ReadsInv
    OBVIOUS
<1>1. ASSUME NEW s \in Streams PROVE StreamReads(s)
    <2>1. /\ stream[s].pending = FALSE /\ stream[s].initial = TRUE
          /\ reads[s] = 0 /\ reaction[s] = Idle /\ call[s] = "new" /\ AllIdle(s)
        BY DEF Init, NewStream, AllIdle, Calls
    <2>2. Armed(s) = {}
        BY <2>1 DEF Armed, AllIdle
    <2>3. \A r \in Readers : reader[s][r] # "stored"
        BY <2>1 DEF AllIdle
    <2> QED
        BY <2>1, <2>2, <2>3 DEF StreamReads, OneRead, CallbackInPlace, DeliveryAlone, NotStarted,
           Delivering, Open, Idle
<1> QED
    BY <1>1 DEF Init, ReadsInv, MessagesReachAReader

\* Steps that leave what a stream reads alone.
LEMMA StreamReadsKept ==
    ASSUME NEW s \in Streams, StreamReads(s),
           call'[s] = call[s], reads'[s] = reads[s], reader'[s] = reader[s],
           reaction'[s] = reaction[s], stream'[s].readCb = stream[s].readCb,
           stream'[s].pending <=> stream[s].pending, stream'[s].initial <=> stream[s].initial
    PROVE  StreamReads(s)'
<1>1. Armed(s)' = Armed(s) /\ (AllIdle(s)' <=> AllIdle(s))
    BY DEF Armed, AllIdle
<1>2. OneRead(s)'
    BY <1>1 DEF StreamReads, OneRead
<1>3. CallbackInPlace(s)'
    BY DEF StreamReads, CallbackInPlace, Open
<1>4. DeliveryAlone(s)'
    BY <1>1 DEF StreamReads, DeliveryAlone, Delivering
<1>5. NotStarted(s)'
    BY <1>1 DEF StreamReads, NotStarted
<1> QED
    BY <1>2, <1>3, <1>4, <1>5 DEF StreamReads

\* The same for all streams but one.
LEMMA OtherStreamsKept ==
    ASSUME NEW s \in Streams, \A t \in Streams : StreamReads(t),
           \A t \in Streams \ {s} : /\ call'[t] = call[t] /\ reads'[t] = reads[t]
                                    /\ reader'[t] = reader[t] /\ reaction'[t] = reaction[t]
                                    /\ stream'[t] = stream[t],
           StreamReads(s)', lost' = lost, MessagesReachAReader
    PROVE  ReadsInv'
<1>1. ASSUME NEW t \in Streams \ {s} PROVE StreamReads(t)'
    BY StreamReadsKept
<1> QED
    BY <1>1 DEF ReadsInv, MessagesReachAReader

LEMMA ReactionKeepsReads ==
    ASSUME "readBeforeReset" \in Avoided, TypeOK, ReadsInv, NEW s \in Streams, StreamReaction(s)
    PROVE  ReadsInv'
<1> USE StreamFields, ReactionKinds DEF TypeOK
<1>1. StreamReads(s) /\ MessagesReachAReader /\ \A t \in Streams : StreamReads(t)
    BY DEF ReadsInv
<1>2. CASE ReadDone(s)
    <2>1. /\ reads[s] = 1 /\ reads'[s] = 0 /\ Open(s) /\ reaction'[s].at = "read"
          /\ UNCHANGED <<call, reader, lost>>
          /\ \A r \in Readers : reader[s][r] # "checked"
          /\ \A t \in Streams \ {s} : /\ reads'[t] = reads[t] /\ reaction'[t] = reaction[t]
                                     /\ stream'[t] = stream[t]
        BY <1>1, <1>2 DEF ReadDone, ReactionFrame, callVars, Regular, Open, StreamReads, OneRead,
           TypeOK, StreamsTyped
    <2>2. /\ stream'[s].readCb = stream[s].readCb /\ stream'[s].pending = FALSE
        BY <1>2 DEF ReadDone, TypeOK, StreamsTyped, StreamType
    <2>3. AllIdle(s) /\ Armed(s) = {} /\ stream[s].readCb # None
        BY <1>1, <2>1 DEF StreamReads, OneRead, CallbackInPlace, Armed, AllIdle, TypeOK,
           CallersTyped
    <2>4. AllIdle(s)' /\ Armed(s)' = {}
        BY <2>1, <2>3 DEF AllIdle, Armed
    <2>5. StreamReads(s)'
        BY <2>1, <2>2, <2>3, <2>4 DEF StreamReads, OneRead, CallbackInPlace, DeliveryAlone,
           NotStarted, Open, AllIdle
    <2> QED
        BY <1>1, <2>1, <2>5, OtherStreamsKept
<1>3. CASE ReadFailed(s)
    <2>1. /\ reads[s] = 1 /\ reads'[s] = 0 /\ Open(s) /\ reaction' = reaction
          /\ reaction[s].at = "idle" /\ UNCHANGED <<call, reader, lost>>
          /\ \A t \in Streams \ {s} : reads'[t] = reads[t] /\ stream'[t] = stream[t]
        BY <1>1, <1>3 DEF ReadFailed, ReactionFrame, callVars, Open, StreamReads, OneRead,
           TypeOK, StreamsTyped
    <2>2. stream'[s].readCb = stream[s].readCb /\ stream'[s].pending = FALSE
        BY <1>3 DEF ReadFailed, TypeOK, StreamsTyped, StreamType
    <2>3. Armed(s) = {} /\ Armed(s)' = Armed(s)
        BY <1>1, <2>1 DEF StreamReads, OneRead, Armed
    <2>4. \A r \in Readers : reader[s][r] # "stored"
        BY <2>3 DEF Armed
    <2>5. StreamReads(s)'
        BY <2>1, <2>2, <2>3, <2>4 DEF StreamReads, OneRead, CallbackInPlace, DeliveryAlone,
           NotStarted, Open, Delivering
    <2> QED
        BY <1>1, <2>1, <2>5, OtherStreamsKept
<1>4. CASE ReadCopy(s)
    <2>1. /\ reaction[s].at = "read"
          /\ reaction'[s] = [at |-> "handle", cb |-> stream[s].readCb]
          /\ UNCHANGED <<call, stream, reads, reader, lost>>
          /\ \A t \in Streams \ {s} : reaction'[t] = reaction[t]
        BY <1>4 DEF ReadCopy, ReactionFrame, callVars, TypeOK, StreamsTyped
    <2>2. /\ AllIdle(s) /\ ~stream[s].pending /\ stream[s].readCb # None
          /\ reaction[s] # Idle
        BY <1>1, <2>1 DEF StreamReads, DeliveryAlone, Delivering, Idle
    <2>3. (AllIdle(s)' <=> AllIdle(s)) /\ Armed(s)' = Armed(s)
        BY <2>1 DEF AllIdle, Armed
    <2>4. DeliveryAlone(s)'
        BY <2>1, <2>2, <2>3 DEF DeliveryAlone
    <2>5. OneRead(s)' /\ CallbackInPlace(s)' /\ NotStarted(s)'
        BY <1>1, <2>1, <2>2, <2>3 DEF StreamReads, OneRead, CallbackInPlace, NotStarted, Open
    <2> QED
        BY <1>1, <2>1, <2>4, <2>5, OtherStreamsKept DEF StreamReads
<1>5. CASE ReadTell(s)
    <2>1. /\ reaction[s].at = "handle" /\ reaction[s] # Idle
          /\ reaction'[s].at = "told" /\ UNCHANGED <<call, reads, reader>>
          /\ \A t \in Streams \ {s} : reaction'[t] = reaction[t] /\ stream'[t] = stream[t]
        BY <1>5 DEF ReadTell, ReactionFrame, callVars, Idle, ReadReaction, TypeOK, StreamsTyped
    <2>2. /\ stream'[s].readCb = stream[s].readCb
          /\ stream'[s].pending = stream[s].pending
        BY <1>5 DEF ReadTell, TypeOK, StreamsTyped, StreamType
    <2>3. /\ AllIdle(s) /\ ~stream[s].pending /\ reaction[s].cb # None /\ call[s] # "new"
        BY <1>1, <2>1 DEF StreamReads, DeliveryAlone, Delivering, NotStarted
    <2>4. (AllIdle(s)' <=> AllIdle(s)) /\ Armed(s)' = Armed(s)
        BY <2>1 DEF AllIdle, Armed
    <2>5. lost' = lost
        BY <1>5, <2>3 DEF ReadTell
    <2>6. DeliveryAlone(s)'
        BY <2>1, <2>2, <2>3, <2>4 DEF DeliveryAlone
    <2>7. OneRead(s)' /\ CallbackInPlace(s)' /\ NotStarted(s)'
        BY <1>1, <2>1, <2>2, <2>3, <2>4 DEF StreamReads, OneRead, CallbackInPlace, NotStarted, Open
    <2> QED
        BY <1>1, <2>1, <2>5, <2>6, <2>7, OtherStreamsKept DEF StreamReads
<1>6. CASE ReadReset(s)
    <2>1. /\ reaction[s].at = "told" /\ reaction[s] # Idle /\ reaction'[s] = Idle
          /\ UNCHANGED <<call, reads, reader, lost>>
          /\ \A t \in Streams \ {s} : reaction'[t] = reaction[t] /\ stream'[t] = stream[t]
        BY <1>6 DEF ReadReset, ReactionFrame, callVars, Idle, TypeOK, StreamsTyped
    <2>2. stream'[s].pending = stream[s].pending
        BY <1>6 DEF ReadReset, TypeOK, StreamsTyped, StreamType
    <2>3. AllIdle(s) /\ ~stream[s].pending /\ call[s] # "new"
        BY <1>1, <2>1 DEF StreamReads, DeliveryAlone, Delivering, NotStarted
    <2>4. (AllIdle(s)' <=> AllIdle(s)) /\ Armed(s)' = Armed(s) /\ reads[s] = 0
        BY <1>1, <2>1, <2>3 DEF AllIdle, Armed, StreamReads, OneRead
    <2>5. DeliveryAlone(s)' /\ NotStarted(s)'
        BY <2>1, <2>3 DEF DeliveryAlone, NotStarted, Delivering, Idle
    <2>6. OneRead(s)' /\ CallbackInPlace(s)'
        BY <1>1, <2>1, <2>2, <2>3, <2>4 DEF StreamReads, OneRead, CallbackInPlace, AllIdle
    <2> QED
        BY <1>1, <2>1, <2>5, <2>6, OtherStreamsKept DEF StreamReads
<1>7. CASE DoneCopy(s)
    <2>1. /\ call[s] = "open" /\ reads[s] = 0
          /\ UNCHANGED <<call, reads, reader, lost>>
          /\ \A t \in Streams \ {s} : reaction'[t] = reaction[t] /\ stream'[t] = stream[t]
        BY <1>7 DEF DoneCopy, ReactionFrame, callVars, TypeOK, StreamsTyped
    <2>2. reaction'[s].at = "done"
        BY <1>7 DEF DoneCopy, TypeOK, StreamsTyped
    <2>3. /\ stream'[s].readCb = stream[s].readCb
          /\ stream'[s].pending = stream[s].pending
        BY <1>7 DEF DoneCopy, TypeOK, StreamsTyped, StreamType
    <2>4. Armed(s)' = Armed(s)
        BY <2>1 DEF Armed
    <2>5. DeliveryAlone(s)' /\ NotStarted(s)'
        BY <2>1, <2>2 DEF DeliveryAlone, NotStarted, Delivering
    <2>6. OneRead(s)' /\ CallbackInPlace(s)'
        BY <1>1, <2>1, <2>3, <2>4 DEF StreamReads, OneRead, CallbackInPlace, Open
    <2> QED
        BY <1>1, <2>1, <2>5, <2>6, OtherStreamsKept DEF StreamReads
<1>8. CASE DoneTell(s)
    <2>1. /\ reaction[s].at = "done" /\ reaction[s] # Idle
          /\ reaction'[s].at = "ending"
          /\ UNCHANGED <<call, stream, reads, reader, lost>>
          /\ \A t \in Streams \ {s} : reaction'[t] = reaction[t]
        BY <1>8 DEF DoneTell, callVars, Idle, DoneReaction, TypeOK, StreamsTyped
    <2>2. call[s] # "new" /\ Armed(s)' = Armed(s)
        BY <1>1, <2>1 DEF StreamReads, NotStarted, Armed
    <2>3. DeliveryAlone(s)' /\ NotStarted(s)'
        BY <2>1, <2>2 DEF DeliveryAlone, NotStarted, Delivering
    <2>4. OneRead(s)' /\ CallbackInPlace(s)'
        BY <1>1, <2>1, <2>2 DEF StreamReads, OneRead, CallbackInPlace, Open
    <2> QED
        BY <1>1, <2>1, <2>3, <2>4, OtherStreamsKept DEF StreamReads
<1>9. CASE DoneEnd(s)
    <2>1. /\ call'[s] = "done" /\ reaction'[s] = Idle
          /\ UNCHANGED <<reads, reader, lost>>
          /\ \A t \in Streams \ {s} : /\ call'[t] = call[t] /\ reaction'[t] = reaction[t]
                                     /\ stream'[t] = stream[t]
        BY <1>9 DEF DoneEnd, appVars, Calls, TypeOK, ChannelTyped, StreamsTyped
    <2>2. stream'[s].pending = stream[s].pending
        BY <1>9 DEF DoneEnd, TypeOK, StreamsTyped, StreamType
    <2>3. Armed(s)' = Armed(s)
        BY <2>1 DEF Armed
    <2>4. DeliveryAlone(s)' /\ NotStarted(s)' /\ CallbackInPlace(s)'
        BY <2>1 DEF DeliveryAlone, NotStarted, CallbackInPlace, Delivering, Idle, Open
    <2>5. OneRead(s)'
        BY <1>1, <2>1, <2>2, <2>3 DEF StreamReads, OneRead
    <2> QED
        BY <1>1, <2>1, <2>4, <2>5, OtherStreamsKept DEF StreamReads
<1> QED
    BY <1>2, <1>3, <1>4, <1>5, <1>6, <1>7, <1>8, <1>9 DEF StreamReaction

LEMMA ReaderKeepsReads ==
    ASSUME "readBeforeReset" \in Avoided, TypeOK, ReadsInv, NEW s \in Streams, NEW r \in Readers,
           ReadNext(s, r) \/ ReaderStep(s, r)
    PROVE  ReadsInv'
<1> USE StreamFields, ReactionKinds DEF TypeOK
<1>1. StreamReads(s) /\ MessagesReachAReader /\ \A t \in Streams : StreamReads(t)
    BY DEF ReadsInv
<1>2. /\ UNCHANGED <<call, reaction, lost>>
      /\ \A t \in Streams \ {s} : reader'[t] = reader[t]
      /\ \A q \in Readers : q # r => reader'[s][q] = reader[s][q]
    BY DEF ReadNext, ReaderStep, ReadArm, ReadStore, ReadStart, ReaderAt, callVars, CallersTyped
<1>3. CASE ReadNext(s, r)
    <2>1. /\ reader[s][r] = "idle" /\ reader'[s][r] = "checked" /\ ~stream[s].initial
          /\ ~Delivering(s) /\ UNCHANGED <<stream, reads>>
        BY <1>3 DEF ReadNext, ReaderAt, Regular, Delivering, CallersTyped
    <2>2. Armed(s)' = Armed(s) /\ call[s] # "new"
        BY <1>1, <1>2, <2>1 DEF Armed, StreamReads, NotStarted
    <2>3. OneRead(s)' /\ CallbackInPlace(s)'
        BY <1>1, <1>2, <2>1, <2>2 DEF StreamReads, OneRead, CallbackInPlace, Open
    <2>4. DeliveryAlone(s)' /\ NotStarted(s)'
        BY <1>1, <1>2, <2>1, <2>2 DEF StreamReads, DeliveryAlone, NotStarted, Delivering
    <2> QED
        BY <1>1, <1>2, <2>1, <2>3, <2>4, OtherStreamsKept DEF StreamReads
\* A reader that is in readNext: nothing is being delivered.
<1>4. ASSUME reader[s][r] # "idle" PROVE ~Delivering(s) /\ call[s] # "new"
    BY <1>1, <1>4 DEF StreamReads, DeliveryAlone, NotStarted, AllIdle
<1>5. CASE ReadArm(s, r) /\ stream[s].pending
    <2>1. /\ reader[s][r] = "checked" /\ reader'[s][r] = "idle" /\ UNCHANGED <<stream, reads>>
        BY <1>5 DEF ReadArm, ReaderAt, CallersTyped
    <2>2. Armed(s)' = Armed(s) /\ ~Delivering(s) /\ call[s] # "new"
        BY <1>2, <1>4, <2>1 DEF Armed
    <2>3. OneRead(s)' /\ CallbackInPlace(s)'
        BY <1>1, <1>2, <2>1, <2>2 DEF StreamReads, OneRead, CallbackInPlace, Open
    <2>4. DeliveryAlone(s)' /\ NotStarted(s)'
        BY <1>1, <1>2, <2>1, <2>2 DEF StreamReads, DeliveryAlone, NotStarted, Delivering
    <2> QED
        BY <1>1, <1>2, <2>1, <2>3, <2>4, OtherStreamsKept DEF StreamReads
<1>6. CASE ReadArm(s, r) /\ ~stream[s].pending
    <2>1. /\ reader[s][r] = "checked" /\ reader'[s][r] = "armed" /\ UNCHANGED reads
          /\ \A t \in Streams \ {s} : stream'[t] = stream[t]
        BY <1>6 DEF ReadArm, ReaderAt, CallersTyped, StreamsTyped
    <2>2. stream'[s].pending = TRUE /\ stream'[s].readCb = stream[s].readCb
        BY <1>6 DEF ReadArm, StreamsTyped, StreamType
    <2>3. Armed(s) = {} /\ reads[s] = 0
        BY <1>1, <1>6 DEF StreamReads, OneRead
    <2>4. Armed(s)' = {r} /\ ~Delivering(s) /\ call[s] # "new"
        BY <1>2, <1>4, <2>1, <2>3 DEF Armed
    <2>5. \A q \in Readers : reader'[s][q] # "stored"
        BY <1>2, <2>1, <2>3 DEF Armed
    <2>6. OneRead(s)' /\ CallbackInPlace(s)'
        BY <2>1, <2>2, <2>3, <2>4, <2>5 DEF OneRead, CallbackInPlace
    <2>7. DeliveryAlone(s)' /\ NotStarted(s)'
        BY <1>1, <1>2, <2>1, <2>2, <2>4 DEF StreamReads, DeliveryAlone, NotStarted, Delivering
    <2> QED
        BY <1>1, <1>2, <2>1, <2>6, <2>7, OtherStreamsKept DEF StreamReads
<1>7. CASE ReadStore(s, r)
    <2>1. /\ reader[s][r] = "armed" /\ reader'[s][r] = "stored" /\ UNCHANGED reads
          /\ \A t \in Streams \ {s} : stream'[t] = stream[t]
        BY <1>7 DEF ReadStore, ReaderAt, CallersTyped, StreamsTyped
    <2>2. stream'[s].pending = stream[s].pending /\ stream'[s].readCb = r /\ r # None
        BY <1>7, GrpcCallsAssumption DEF ReadStore, StreamsTyped, StreamType
    <2>3. Armed(s)' = Armed(s) /\ ~Delivering(s) /\ call[s] # "new"
        BY <1>2, <1>4, <2>1 DEF Armed
    <2>4. OneRead(s)' /\ CallbackInPlace(s)'
        BY <1>1, <2>1, <2>2, <2>3 DEF StreamReads, OneRead, CallbackInPlace
    <2>5. DeliveryAlone(s)' /\ NotStarted(s)'
        BY <1>1, <1>2, <2>1, <2>2, <2>3 DEF StreamReads, DeliveryAlone, NotStarted, Delivering
    <2> QED
        BY <1>1, <1>2, <2>1, <2>4, <2>5, OtherStreamsKept DEF StreamReads
<1>8. CASE ReadStart(s, r)
    <2>1. /\ reader[s][r] = "stored" /\ reader'[s][r] = "idle" /\ UNCHANGED stream
          /\ r \in Armed(s)
          /\ \A t \in Streams \ {s} : reads'[t] = reads[t]
        BY <1>8 DEF ReadStart, ReaderAt, CallersTyped, StreamsTyped, Armed
    <2>2. Armed(s) = {r} /\ stream[s].pending /\ reads[s] = 0
        BY <1>1, <2>1 DEF StreamReads, OneRead
    <2>3. Armed(s)' = {} /\ reads'[s] = 1 /\ ~Delivering(s) /\ call[s] # "new"
        BY <1>2, <1>4, <1>8, <2>1, <2>2 DEF ReadStart, Armed, StreamsTyped
    <2>4. Open(s) => stream[s].readCb # None
        BY <1>1, <2>1 DEF StreamReads, CallbackInPlace
    <2>5. OneRead(s)' /\ CallbackInPlace(s)'
        BY <1>2, <2>1, <2>2, <2>3, <2>4 DEF OneRead, CallbackInPlace, Open
    <2>6. DeliveryAlone(s)' /\ NotStarted(s)'
        BY <1>1, <1>2, <2>1, <2>3 DEF StreamReads, DeliveryAlone, NotStarted, Delivering
    <2> QED
        BY <1>1, <1>2, <2>1, <2>5, <2>6, OtherStreamsKept DEF StreamReads
<1> QED
    BY <1>3, <1>5, <1>6, <1>7, <1>8 DEF ReaderStep

LEMMA ReadsPreserved ==
    ASSUME "readBeforeReset" \in Avoided, TypeOK, ReadsInv, [Next]_grpcCallsVars
    PROVE  ReadsInv'
<1> USE DEF TypeOK
<1>1. MessagesReachAReader /\ \A t \in Streams : StreamReads(t)
    BY DEF ReadsInv
\* Steps of the client's thread other than sending, and of closers.
<1>2. ASSUME UNCHANGED <<call, reads, reader, reaction, lost>>,
             \A s \in Streams : /\ stream'[s].readCb = stream[s].readCb
                                /\ stream'[s].pending = stream[s].pending
                                /\ stream'[s].initial = stream[s].initial
      PROVE  ReadsInv'
    BY <1>1, <1>2, StreamReadsKept DEF ReadsInv, MessagesReachAReader
\* Calls that are no streams.
<1>3. ASSUME NEW c \in Calls \ Streams, UNCHANGED <<stream, reads, reader, reaction, lost>>,
             \A d \in Calls : d # c => call'[d] = call[d]
      PROVE  ReadsInv'
    BY <1>1, <1>3, StreamReadsKept DEF ReadsInv, MessagesReachAReader, Calls
<1>4. ASSUME NEW c \in Calls, SendRefused(c) PROVE ReadsInv'
    <2>1. /\ UNCHANGED <<stream, reads, reader, reaction, lost>>
          /\ call[c] = "new" /\ call'[c] = "refused" /\ \A d \in Calls : d # c => call'[d] = call[d]
        BY <1>4 DEF SendRefused, grpcVars, appVars, ChannelTyped
    <2>2. CASE c \in Streams
        <3>1. /\ Armed(c)' = Armed(c) /\ (AllIdle(c)' <=> AllIdle(c))
              /\ ~stream[c].pending /\ ~Delivering(c)
            BY <1>1, <2>1, <2>2 DEF Armed, AllIdle, StreamReads, NotStarted, Delivering, Idle
        <3>2. StreamReads(c)'
            BY <1>1, <2>1, <2>2, <3>1 DEF StreamReads, OneRead, CallbackInPlace, DeliveryAlone,
               NotStarted, Delivering, Open
        <3> QED
            BY <1>1, <2>1, <2>2, <3>2, OtherStreamsKept DEF Calls
    <2> QED
        BY <1>3, <2>1, <2>2
<1>5. ASSUME NEW c \in Unary, (\E a \in FreeAddresses : SendUnary(c, a)) \/ UnaryDone(c)
      PROVE  ReadsInv'
    BY <1>3, <1>5, GrpcCallsAssumption DEF SendUnary, SendCall, UnaryDone, grpcVars, appVars, Calls,
       ChannelTyped
<1>6. ASSUME NEW a \in FreeAddresses, NEW s \in Streams, SendStream(s, a) PROVE ReadsInv'
    <2>1. /\ call[s] = "new" /\ call'[s] = "open" /\ reads'[s] = 1
          /\ UNCHANGED <<reader, reaction, lost>>
          /\ \A t \in Streams \ {s} : /\ call'[t] = call[t] /\ reads'[t] = reads[t]
                                     /\ stream'[t] = stream[t]
        BY <1>6 DEF SendStream, SendCall, Calls, ChannelTyped, StreamsTyped
    <2>2. stream'[s].readCb = Opener /\ stream'[s].pending = TRUE /\ Opener # None
        BY <1>6, GrpcCallsAssumption DEF SendStream, StreamsTyped, StreamType
    <2>3. AllIdle(s) /\ reaction[s] = Idle
        BY <1>1, <2>1 DEF StreamReads, NotStarted
    <2>4. Armed(s)' = {} /\ \A r \in Readers : reader'[s][r] # "stored"
        BY <2>1, <2>3 DEF Armed, AllIdle
    <2>5. StreamReads(s)'
        BY <2>1, <2>2, <2>3, <2>4 DEF StreamReads, OneRead, CallbackInPlace, DeliveryAlone,
           NotStarted, Delivering, Idle
    <2> QED
        BY <1>1, <2>1, <2>5, OtherStreamsKept
<1>7. ASSUME NEW c \in Calls, Cancel(c) PROVE ReadsInv'
    BY <1>2, <1>7 DEF Cancel, grpcVars, appVars
<1>8. ASSUME CloseChannel \/ Reconnect \/ InitChannel \/ NetworkDown \/ NetworkUp
      PROVE  ReadsInv'
    BY <1>2, <1>8 DEF CloseChannel, Reconnect, InitChannel, NetworkDown, NetworkUp, ControlFrame,
       grpcVars, appVars
<1>9. ASSUME NEW s \in Streams, CloseBegin(s) \/ CloseStore(s) \/ TryCancel(s)
      PROVE  ReadsInv'
    <2>1. UNCHANGED <<call, reads, reader, reaction, lost>>
        BY <1>9 DEF CloseBegin, CloseStore, TryCancel, CloserAt, grpcVars
    <2>2. UNCHANGED stream \/ stream' = [stream EXCEPT ![s].closeCb = TRUE]
        BY <1>9 DEF CloseBegin, CloseStore, TryCancel
    <2>3. \A t \in Streams : /\ stream'[t].readCb = stream[t].readCb
                             /\ stream'[t].pending = stream[t].pending
                             /\ stream'[t].initial = stream[t].initial
        <3>1. CASE UNCHANGED stream
            BY <3>1
        <3>2. CASE stream' = [stream EXCEPT ![s].closeCb = TRUE]
            BY <3>2 DEF StreamsTyped, StreamType
        <3> QED
            BY <2>2, <3>1, <3>2
    <2> QED
        BY <1>2, <2>1, <2>3
<1>10. CASE UNCHANGED grpcCallsVars
    BY <1>2, <1>10 DEF grpcCallsVars, callVars, grpcVars, appVars
<1>11. ASSUME NEW s \in Streams, StreamReaction(s) PROVE ReadsInv'
    BY <1>11, ReactionKeepsReads
<1>12. ASSUME NEW s \in Streams, NEW r \in Readers, ReadNext(s, r) \/ ReaderStep(s, r)
       PROVE  ReadsInv'
    BY <1>12, ReaderKeepsReads
<1> QED
    BY <1>4, <1>5, <1>6, <1>7, <1>8, <1>9, <1>10, <1>11, <1>12 DEF Next

(***************************************************************************)
(* Theorems                                                                 *)
(***************************************************************************)

\* Every variable keeps its type, whatever irregular behaviour there is.
THEOREM TypeCorrect == GrpcCallsSpec => []TypeOK
<1>1. Init => TypeOK
    BY InitTyped
<1>2. TypeOK /\ [Next]_grpcCallsVars => TypeOK'
    BY TypePreserved
<1> QED
    BY <1>1, <1>2, PTL DEF GrpcCallsSpec

\* No call escapes suspend, close and the loss of the network, as long as the
\* address of a request is not used again while its stream is registered
\* (PriorityChannel::emplace and removeRequest go by the address).
THEOREM CallsDoNotEscape ==
    ASSUME "reusedAddress" \in Avoided
    PROVE  GrpcCallsSpec => []NothingEscapes
<1>1. Init => TypeOK /\ RegistryInv
    BY InitTyped, InitRegistry
<1>2. TypeOK /\ RegistryInv /\ [Next]_grpcCallsVars => TypeOK' /\ RegistryInv'
    BY TypePreserved, RegistryPreserved
<1>3. RegistryInv => NothingEscapes
    BY DEF RegistryInv
<1> QED
    BY <1>1, <1>2, <1>3, PTL DEF GrpcCallsSpec

\* Every message that arrives is passed to a reader's callback, as long as
\* readNext is not called before the reaction of the last read is over
\* (GrpcStream::OnReadDone resets the callback when it is).
THEOREM NoMessageIsLost ==
    ASSUME "readBeforeReset" \in Avoided
    PROVE  GrpcCallsSpec => []MessagesReachAReader
<1>1. Init => TypeOK /\ ReadsInv
    BY InitTyped, InitReads
<1>2. TypeOK /\ ReadsInv /\ [Next]_grpcCallsVars => TypeOK' /\ ReadsInv'
    BY TypePreserved, ReadsPreserved
<1>3. ReadsInv => MessagesReachAReader
    BY DEF ReadsInv
<1> QED
    BY <1>1, <1>2, <1>3, PTL DEF GrpcCallsSpec

-----------------------------------------------------------------------------
(* ClientLifecycle                                                          *)
-----------------------------------------------------------------------------

Handler == NetCalls \cup AppCalls

(***************************************************************************)
(* Posted handlers                                                          *)
(***************************************************************************)

\* post() puts a handler behind those that are there.
LEMMA PostedLast ==
    ASSUME handlers \in Seq(Handler), NEW h \in Handler, handlers' = Append(handlers, h)
    PROVE  /\ handlers' \in Seq(Handler)
           /\ SetOf(handlers') = SetOf(handlers) \cup {h}
           /\ Len(handlers') = Len(handlers) + 1 /\ handlers'[Len(handlers) + 1] = h
           /\ \A i \in DOMAIN handlers : i \in DOMAIN handlers' /\ handlers'[i] = handlers[i]
           /\ \A i \in DOMAIN handlers' : i \in DOMAIN handlers \/ i = Len(handlers) + 1
<1>1. /\ handlers' \in Seq(Handler)
      /\ DOMAIN handlers = 1..Len(handlers) /\ DOMAIN handlers' = 1..(Len(handlers) + 1)
      /\ Len(handlers') = Len(handlers) + 1 /\ handlers'[Len(handlers) + 1] = h
      /\ \A i \in 1..Len(handlers) : handlers'[i] = handlers[i]
      /\ Len(handlers) \in Nat
    OBVIOUS
<1>2. SetOf(handlers') \subseteq SetOf(handlers) \cup {h}
    BY <1>1 DEF SetOf
<1>3. SetOf(handlers) \cup {h} \subseteq SetOf(handlers')
    BY <1>1 DEF SetOf
<1> QED
    BY <1>1, <1>2, <1>3

\* The thread takes the oldest handler; every other one moves up.
LEMMA RunTakesFirst ==
    ASSUME handlers \in Seq(Handler), NEW h, Run(h)
    PROVE  /\ handlers' \in Seq(Handler)
           /\ 1 \in DOMAIN handlers /\ handlers[1] = h /\ h \in SetOf(handlers)
           /\ SetOf(handlers) = SetOf(handlers') \cup {h}
           /\ \A i \in DOMAIN handlers' :
                 i + 1 \in DOMAIN handlers /\ handlers'[i] = handlers[i + 1]
           /\ \A i \in DOMAIN handlers : i # 1 =>
                i - 1 \in DOMAIN handlers' /\ handlers'[i - 1] = handlers[i]
<1>1. /\ handlers' \in Seq(Handler)
      /\ Len(handlers) \in Nat \ {0} /\ handlers[1] = h
      /\ DOMAIN handlers = 1..Len(handlers) /\ DOMAIN handlers' = 1..(Len(handlers) - 1)
      /\ \A i \in 1..(Len(handlers) - 1) : handlers'[i] = handlers[i + 1]
    BY DEF Run
<1>2. /\ \A i \in DOMAIN handlers' : i + 1 \in DOMAIN handlers /\ handlers'[i] = handlers[i + 1]
      /\ \A i \in DOMAIN handlers : i # 1 =>
                i - 1 \in DOMAIN handlers' /\ handlers'[i - 1] = handlers[i]
    BY <1>1
<1>3. SetOf(handlers') \cup {h} \subseteq SetOf(handlers)
    BY <1>1, <1>2 DEF SetOf
<1>4. SetOf(handlers) \subseteq SetOf(handlers') \cup {h}
    BY <1>1, <1>2 DEF SetOf
<1>5. 1 \in DOMAIN handlers /\ h \in SetOf(handlers)
    BY <1>1, <1>3
<1> QED
    BY <1>1, <1>2, <1>3, <1>4, <1>5

(***************************************************************************)
(* The inductive invariant                                                  *)
(***************************************************************************)

\* After close() the channel is gone, or the handler that closes it is to come.
ClosedInv == m_closed /\ channel => "close" \in SetOf(handlers)

\* A reconnect that is still pending comes before a suspend.
ReconnectsCovered ==
    \A i \in DOMAIN handlers : handlers[i] = "reconnect" =>
        \E j \in DOMAIN handlers : j > i /\ handlers[j] = "suspend"

\* While a suspend() that overtook nothing is in force, the guard is up, no
\* network call has passed it and no resume is pending; no reconnect comes
\* after the last suspend, and the channel is gone or a suspend is pending.
GuardUp == m_suspended /\ netCall = "none" /\ "resume" \notin SetOf(handlers)

GuardedInv ==
    background /\ ~overtaken =>
        /\ GuardUp
        /\ m_closed \/ (ReconnectsCovered /\ (~channel \/ "suspend" \in SetOf(handlers)))

IInv == LifecycleTypeOK /\ ClosedInv /\ GuardedInv

\* LifecycleTypeOK by the provers that can deal with each part.
FlagsTyped ==
    /\ m_closed \in BOOLEAN /\ m_networkDisconnected \in BOOLEAN /\ m_suspended \in BOOLEAN
    /\ channel \in BOOLEAN /\ channelDisconnected \in BOOLEAN
    /\ background \in BOOLEAN /\ overtaken \in BOOLEAN

RestTyped ==
    /\ netCall \in NetCalls \cup {"none"}
    /\ handlers \in Seq(Handler)
    /\ calls \in Nat

LEMMA TypeOKParts == LifecycleTypeOK <=> FlagsTyped /\ RestTyped
BY DEF LifecycleTypeOK, FlagsTyped, RestTyped, Handler

\* What is posted later than a reconnect does not uncover it.
LEMMA PostKeepsCover ==
    ASSUME handlers \in Seq(Handler), NEW h \in Handler, handlers' = Append(handlers, h),
           h = "suspend" \/ (h # "reconnect" /\ ReconnectsCovered)
    PROVE  ReconnectsCovered'
<1> SUFFICES ASSUME NEW i \in DOMAIN handlers', handlers'[i] = "reconnect"
             PROVE  \E j \in DOMAIN handlers' : j > i /\ handlers'[j] = "suspend"
    BY DEF ReconnectsCovered
<1>1. i \in DOMAIN handlers /\ handlers[i] = "reconnect" /\ i < Len(handlers) + 1
    BY PostedLast
<1>2. CASE h = "suspend"
    BY <1>1, <1>2, PostedLast
<1>3. CASE ReconnectsCovered
    BY <1>1, <1>3, PostedLast DEF ReconnectsCovered
<1> QED
    BY <1>2, <1>3

\* Nor does running the oldest handler, and when that is a reconnect there is
\* a suspend to come.
LEMMA RunKeepsCover ==
    ASSUME handlers \in Seq(Handler), NEW h, Run(h), ReconnectsCovered
    PROVE  ReconnectsCovered' /\ (h = "reconnect" => "suspend" \in SetOf(handlers'))
<1>1. ASSUME NEW i \in DOMAIN handlers', handlers'[i] = "reconnect"
      PROVE  \E j \in DOMAIN handlers' : j > i /\ handlers'[j] = "suspend"
    <2>1. i + 1 \in DOMAIN handlers /\ handlers[i + 1] = "reconnect"
        BY <1>1, RunTakesFirst
    <2>2. PICK j \in DOMAIN handlers : j > i + 1 /\ handlers[j] = "suspend"
        BY <2>1 DEF ReconnectsCovered
    <2>3. j - 1 \in DOMAIN handlers' /\ handlers'[j - 1] = "suspend" /\ j - 1 > i
        BY <2>2, RunTakesFirst
    <2> QED
        BY <2>3
<1>2. h = "reconnect" => "suspend" \in SetOf(handlers')
    <2> SUFFICES ASSUME h = "reconnect" PROVE "suspend" \in SetOf(handlers')
        OBVIOUS
    <2>1. PICK j \in DOMAIN handlers : j > 1 /\ handlers[j] = "suspend"
        BY RunTakesFirst DEF ReconnectsCovered
    <2> QED
        BY <2>1, RunTakesFirst DEF SetOf
<1> QED
    BY <1>1, <1>2 DEF ReconnectsCovered

(***************************************************************************)
(* Every action preserves the invariant                                     *)
(***************************************************************************)

\* suspend() raises the guard and posts behind everything that is pending.
LEMMA SuspendPreserves == ASSUME IInv, Suspend PROVE IInv'
<1> USE TypeOKParts DEF IInv
<1>1. FlagsTyped'
    BY Zenon DEF FlagsTyped, Suspend
<1>2. /\ handlers \in Seq(Handler) /\ "suspend" \in Handler
      /\ handlers' = Append(handlers, "suspend")
    BY DEF RestTyped, Suspend, Handler, AppCalls
<1>3. RestTyped'
    BY <1>2, PostedLast DEF RestTyped, Suspend, CountCall
<1>4. ClosedInv'
    BY <1>2, PostedLast DEF ClosedInv, Suspend
<1>5. ReconnectsCovered' /\ "suspend" \in SetOf(handlers')
    BY <1>2, PostKeepsCover, PostedLast
<1>6. ~overtaken' => GuardUp'
    <2>1. ~overtaken' => "resume" \notin SetOf(handlers) /\ netCall = "none"
        BY Zenon DEF Suspend
    <2>2. m_suspended' /\ netCall' = netCall
        BY Zenon DEF Suspend
    <2>3. "resume" \in SetOf(handlers') => "resume" \in SetOf(handlers)
        BY <1>2, PostedLast
    <2> QED
        BY <2>1, <2>2, <2>3 DEF GuardUp
<1> QED
    BY <1>1, <1>3, <1>4, <1>5, <1>6 DEF LifecycleTypeOK, FlagsTyped, RestTyped, Handler, GuardedInv

\* resume() ends what the invariant says of the background.
LEMMA ResumePreserves == ASSUME IInv, Resume PROVE IInv'
<1> USE TypeOKParts DEF IInv
<1>1. FlagsTyped'
    BY Zenon DEF FlagsTyped, Resume, flags
<1>2. /\ handlers \in Seq(Handler) /\ "resume" \in Handler
      /\ handlers' = Append(handlers, "resume")
    BY DEF RestTyped, Resume, Handler, AppCalls
<1>3. RestTyped'
    BY <1>2, PostedLast DEF RestTyped, Resume, CountCall
<1>4. ClosedInv'
    BY <1>2, PostedLast DEF ClosedInv, Resume, flags
<1>5. GuardedInv'
    BY DEF GuardedInv, Resume
<1> QED
    BY <1>1, <1>3, <1>4, <1>5 DEF LifecycleTypeOK, FlagsTyped, RestTyped, Handler

\* close() posts the handler that closes the channel.
LEMMA ClosePreserves == ASSUME IInv, Close PROVE IInv'
<1> USE TypeOKParts DEF IInv
<1>1. FlagsTyped'
    BY Zenon DEF FlagsTyped, Close
<1>2. /\ handlers \in Seq(Handler) /\ "close" \in Handler
      /\ handlers' = Append(handlers, "close")
    BY DEF RestTyped, Close, Handler, AppCalls
<1>3. RestTyped'
    BY <1>2, PostedLast DEF RestTyped, Close, CountCall
<1>4. ClosedInv'
    BY <1>2, PostedLast DEF ClosedInv, Close
<1>5. GuardedInv'
    BY <1>2, PostedLast DEF GuardedInv, GuardUp, Close
<1> QED
    BY <1>1, <1>3, <1>4, <1>5 DEF LifecycleTypeOK, FlagsTyped, RestTyped, Handler

\* A network call passes its test only while the guard is down.
LEMMA NetGuardPreserves == ASSUME IInv, NEW c \in NetCalls, NetGuard(c) PROVE IInv'
<1> USE TypeOKParts DEF IInv
<1>1. FlagsTyped'
    BY Zenon DEF FlagsTyped, NetGuard, flags
<1>2. RestTyped'
    BY DEF RestTyped, NetGuard, CountCall
<1>3. ClosedInv'
    BY DEF ClosedInv, NetGuard, flags
<1>4. GuardedInv'
    BY DEF GuardedInv, GuardUp, NetGuard
<1> QED
    BY <1>1, <1>2, <1>3, <1>4 DEF LifecycleTypeOK, FlagsTyped, RestTyped, Handler

\* A network call under way contradicts the guard.
LEMMA NetPostPreserves == ASSUME IInv, NetPost PROVE IInv'
<1> USE TypeOKParts DEF IInv
<1>1. FlagsTyped'
    BY Zenon DEF FlagsTyped, NetPost
<1>2. handlers \in Seq(Handler) /\ netCall \in Handler /\ handlers' = Append(handlers, netCall)
    BY DEF RestTyped, NetPost, Handler
<1>3. RestTyped'
    BY <1>2, PostedLast DEF RestTyped, NetPost
<1>4. ClosedInv'
    BY <1>2, PostedLast DEF ClosedInv, NetPost
<1>5. GuardedInv'
    BY DEF GuardedInv, GuardUp, NetPost
<1> QED
    BY <1>1, <1>3, <1>4, <1>5 DEF LifecycleTypeOK, FlagsTyped, RestTyped, Handler

\* A handler runs: suspend and close destroy the channel, a pending resume
\* contradicts the guard, and a reconnect has a suspend behind it.
LEMMA HandlerStepPreserves == ASSUME IInv, HandlerStep PROVE IInv'
<1> USE TypeOKParts DEF IInv
<1> DEFINE Effect(h) ==
         /\ Run(h)
         /\ UNCHANGED <<m_closed, netCall, background, overtaken, calls>>
         /\ h = "resume" \/ UNCHANGED m_suspended
         /\ \/ h \in {"suspend", "close"} /\ ~channel'
            \/ h # "close" /\ m_closed /\ UNCHANGED channel
            \/ h \in {"resume", "reconnect"} /\ ~m_closed
            \/ h \in {"netUp", "netDown", "foreground"} /\ UNCHANGED channel
<1>1. PICK h \in Handler : Effect(h)
    <2>1. CASE SuspendHandler
        <3>1. Effect("suspend") /\ "suspend" \in Handler
            BY <2>1 DEF SuspendHandler, closeChannels, flags, Handler, AppCalls
        <3> QED
            BY <3>1
    <2>2. CASE ResumeHandler
        <3>1. Effect("resume") /\ "resume" \in Handler
            BY <2>2 DEF ResumeHandler, initChannels, flags, Handler, AppCalls
        <3> QED
            BY <3>1
    <2>3. CASE ReconnectHandler
        <3>1. Effect("reconnect") /\ "reconnect" \in Handler
            BY <2>3 DEF ReconnectHandler, initChannels, flags, Handler, NetCalls
        <3> QED
            BY <3>1
    <2>4. CASE NetworkHandler
        <3>1. {"netUp", "netDown", "foreground"} \subseteq Handler
            BY DEF Handler, NetCalls
        <3>2. Effect("netUp") \/ Effect("netDown") \/ Effect("foreground")
            BY <2>4 DEF NetworkHandler, flags
        <3> QED
            BY <3>1, <3>2
    <2>5. CASE CloseHandler
        <3>1. Effect("close") /\ "close" \in Handler
            BY <2>5 DEF CloseHandler, closeChannels, flags, Handler, AppCalls
        <3> QED
            BY <3>1
    <2> QED
        BY <2>1, <2>2, <2>3, <2>4, <2>5 DEF HandlerStep
<1>2. handlers \in Seq(Handler)
    BY DEF RestTyped
<1>3. FlagsTyped'
    BY Zenon DEF FlagsTyped, HandlerStep, SuspendHandler, ResumeHandler, ReconnectHandler,
           NetworkHandler, CloseHandler, closeChannels, initChannels, flags
<1>4. RestTyped'
    BY <1>1, <1>2, RunTakesFirst DEF RestTyped
<1>5. ClosedInv'
    <2>1. SetOf(handlers) = SetOf(handlers') \cup {h}
        BY <1>1, <1>2, RunTakesFirst
    <2> QED
        BY <1>1, <2>1 DEF ClosedInv
<1>6. GuardedInv'
    <2>1. SUFFICES ASSUME background, ~overtaken
                   PROVE  /\ GuardUp'
                          /\ \/ m_closed'
                             \/ ReconnectsCovered' /\ (~channel' \/ "suspend" \in SetOf(handlers'))
        BY <1>1 DEF GuardedInv
    <2>2. h # "resume" /\ GuardUp'
        <3>1. GuardUp
            BY <2>1 DEF GuardedInv
        <3>2. h \in SetOf(handlers) /\ SetOf(handlers') \subseteq SetOf(handlers)
            BY <1>1, <1>2, RunTakesFirst
        <3> QED
            BY <1>1, <3>1, <3>2 DEF GuardUp
    <2>3. CASE ~m_closed
        <3>1. ReconnectsCovered' /\ (h = "reconnect" => "suspend" \in SetOf(handlers'))
            BY <1>1, <1>2, <2>1, <2>3, RunKeepsCover DEF GuardedInv
        <3>2. ~channel' \/ "suspend" \in SetOf(handlers')
            BY <1>1, <1>2, <2>1, <2>2, <2>3, <3>1, RunTakesFirst DEF GuardedInv
        <3> QED
            BY <2>2, <3>1, <3>2
    <2> QED
        BY <1>1, <2>2, <2>3
<1> QED
    BY <1>3, <1>4, <1>5, <1>6 DEF LifecycleTypeOK, FlagsTyped, RestTyped, Handler

(***************************************************************************)
(* The theorems                                                             *)
(***************************************************************************)

\* A client that has just been created.
LEMMA InitInv == LifecycleInit => IInv
<1> SUFFICES ASSUME LifecycleInit PROVE IInv
    OBVIOUS
<1>1. FlagsTyped
    BY Zenon DEF LifecycleInit, FlagsTyped
<1>2. RestTyped
    BY DEF LifecycleInit, RestTyped
<1> QED
    BY <1>1, <1>2, TypeOKParts DEF LifecycleInit, IInv, ClosedInv, GuardedInv

\* One step, by the lemma of its action.
LEMMA NextInv == IInv /\ [LifecycleNext]_vars => IInv'
<1> SUFFICES ASSUME IInv, [LifecycleNext]_vars PROVE IInv'
    OBVIOUS
<1>1. CASE UNCHANGED vars
    BY <1>1 DEF vars, flags, IInv, LifecycleTypeOK, ClosedInv, GuardedInv, GuardUp,
        ReconnectsCovered
<1> QED
    BY <1>1, SuspendPreserves, ResumePreserves, ClosePreserves, NetGuardPreserves,
       NetPostPreserves, HandlerStepPreserves
    DEF LifecycleNext

\* The conjunction is an invariant of the client.
THEOREM LifecycleInvariant == Spec => []IInv
BY InitInv, NextInv, PTL DEF Spec

\* Every variable keeps its type.
THEOREM LifecycleTypeCorrect == Spec => []LifecycleTypeOK
<1>1. IInv => LifecycleTypeOK
    BY DEF IInv
<1> QED
    BY <1>1, LifecycleInvariant, PTL

\* m_suspended, tested in the callers' threads, keeps reconnect() and
\* updateNetworkState() from re-opening a connection in the background except
\* for a suspend() that overtook a resume or a network call; and the m_closed
\* test of the handlers keeps it shut after close().
THEOREM GuardHolds == Spec => []GuardHoldsUnlessOvertaken
<1>1. IInv => GuardHoldsUnlessOvertaken
    BY DEF IInv, GuardHoldsUnlessOvertaken, NoConnectionInBackground, ClosedInv, GuardedInv
<1> QED
    BY <1>1, LifecycleInvariant, PTL
=============================================================================
