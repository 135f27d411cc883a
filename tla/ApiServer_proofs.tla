--------------------------- MODULE ApiServer_proofs ---------------------------
(***************************************************************************)
(* Proofs about ApiServer for any number of connections and messages, with  *)
(* and without authentication.  No connection or request is used after it   *)
(* was freed, provided that no peer is lost during authentication and no    *)
(* handler overtakes the accepting thread.  Clients that send one request   *)
(* at a time, and none that is too big, are kept as long as they stay, and  *)
(* their headers are read where messages begin.                             *)
(***************************************************************************)
EXTENDS ApiServer, TLAPS

(***************************************************************************)
(* What a handler does to its connection                                    *)
(***************************************************************************)

\* The fields of a connection that decide anything.
Is(k, op, task, watching, watchQueued, stored, closing, open, request, parent, forced) ==
    /\ k \in Connection
    /\ k.op = op /\ k.task = task /\ k.watching = watching /\ k.watchQueued = watchQueued
    /\ k.stored = stored /\ k.closing = closing /\ k.open = open
    /\ k.request = request /\ k.parent = parent /\ k.forced = forced

LEMMA KindIs ==
    ASSUME NEW k \in Connection, NEW kind \in Kinds
    PROVE  Is([k EXCEPT !.kind = kind], k.op, k.task, k.watching, k.watchQueued, k.stored,
              k.closing, k.open, k.request, k.parent, k.forced)
BY DEF Connection, Is

LEMMA CloseRequestIs ==
    ASSUME NEW k \in Connection
    PROVE  Is(CloseRequest(k), "none", "none", k.watching, k.watchQueued, k.stored, k.closing,
              k.open, k.request, k.parent, k.forced)
BY DEF CloseRequest, Connection, Is

LEMMA ResetConnectionIs ==
    ASSUME NEW k \in Connection
    PROVE  Is(ResetConnection(k), k.op, k.task, k.watching, k.watchQueued, FALSE, k.closing,
              k.open, k.request, 0, k.forced)
BY DEF ResetConnection, Connection, Is

LEMMA CloseConnectionIs ==
    ASSUME NEW k \in Connection
    PROVE  Is(CloseConnection(k), k.op, k.task, FALSE, k.watchQueued, FALSE, k.closing, FALSE,
              k.request, 0, k.forced)
BY DEF CloseConnection, ResetConnection, SocketClosed, Connection, Is

LEMMA CancelWatchIs ==
    ASSUME NEW k \in Connection
    PROVE  Is(CancelWatch(k), k.op, k.task, FALSE, k.watchQueued, k.stored, k.closing, k.open,
              k.request, k.parent, k.forced)
BY DEF CancelWatch, Connection, Is

\* The first handler of the next request, unless the server is closed.
LEMMA WaitForRequestIs ==
    ASSUME NEW k \in Connection
    PROVE  /\ closed => Is(WaitForRequest(k), "none", k.task, k.watching, k.watchQueued, k.stored,
                           k.closing, k.open, k.request, k.parent, k.forced)
           /\ ~closed => Is(WaitForRequest(k), "recvHeader", k.task, k.watching, k.watchQueued,
                            k.stored, k.closing, k.open, k.request + 1, k.request + 1, k.forced)
<1>1. CASE closed
    BY <1>1 DEF WaitForRequest, Connection, Is
<1>2. CASE ~closed
    <2>1. k.request + 1 \in Nat
        BY DEF Connection
    <2>2. WaitForRequest(k) = [k EXCEPT !.op = "recvHeader", !.request = k.request + 1,
                                        !.parent = k.request + 1]
        BY <1>2 DEF WaitForRequest
    <2> QED
        BY <1>2, <2>1, <2>2 DEF Connection, Is
<1> QED
    BY <1>1, <1>2

LEMMA SendResponseIs ==
    ASSUME NEW k \in Connection
    PROVE  /\ closed => Is(SendResponse(k), "none", "none", k.watching, k.watchQueued, k.stored,
                           k.closing, k.open, k.request, k.parent, k.forced)
           /\ ~closed => Is(SendResponse(k), "sendHeader", "none", k.watching, k.watchQueued,
                            k.stored, k.closing, k.open, k.request, k.parent, k.forced)
BY DEF SendResponse, CloseRequest, Connection, Is

\* A watch of a socket that is closed completes at once.
LEMMA WatchConnectionIs ==
    ASSUME NEW k \in Connection
    PROVE  /\ k.open => Is(WatchConnection(k), k.op, k.task, TRUE, k.watchQueued, k.stored,
                           k.closing, k.open, k.request, k.parent, k.forced)
           /\ ~k.open => Is(WatchConnection(k), k.op, k.task, k.watching, k.watchQueued + 1,
                            k.stored, k.closing, k.open, k.request, k.parent, k.forced)
<1>1. CASE k.open
    <2>1. WatchConnection(k) = [k EXCEPT !.watching = TRUE]
        BY <1>1 DEF WatchConnection
    <2> QED
        BY <1>1, <2>1 DEF Connection, Is
<1>2. CASE ~k.open
    <2>1. k.watchQueued + 1 \in Nat
        BY DEF Connection
    <2>2. WatchConnection(k) = [k EXCEPT !.watchQueued = k.watchQueued + 1]
        BY <1>2 DEF WatchConnection
    <2> QED
        BY <1>2, <2>1, <2>2 DEF Connection, Is
<1> QED
    BY <1>1, <1>2

\* A request is given to a dispatcher, and the connection watched meanwhile.
LEMMA GivenIs ==
    ASSUME NEW k \in Connection, NEW x, NEW task \in {"auth", "dispatch"},
           x = WatchConnection([k EXCEPT !.op = "none", !.task = task])
    PROVE  /\ k.open => Is(x, "none", task, TRUE, k.watchQueued, k.stored,
                           k.closing, k.open, k.request, k.parent, k.forced)
           /\ ~k.open => Is(x, "none", task, k.watching, k.watchQueued + 1, k.stored,
                            k.closing, k.open, k.request, k.parent, k.forced)
<1>1. PICK y : y = [k EXCEPT !.op = "none", !.task = task]
    OBVIOUS
<1>2. Is(y, "none", task, k.watching, k.watchQueued, k.stored, k.closing, k.open, k.request,
         k.parent, k.forced)
    BY <1>1 DEF Connection, Is
<1>3. x = WatchConnection(y) /\ y \in Connection
    BY <1>1, <1>2 DEF Is
<1>4. /\ y.open => Is(x, y.op, y.task, TRUE, y.watchQueued, y.stored,
                      y.closing, y.open, y.request, y.parent, y.forced)
      /\ ~y.open => Is(x, y.op, y.task, y.watching, y.watchQueued + 1,
                       y.stored, y.closing, y.open, y.request, y.parent, y.forced)
    BY <1>3, WatchConnectionIs
<1> QED
    BY <1>2, <1>4 DEF Is

LEMMA DispatchRequestIs ==
    ASSUME NEW k \in Connection
    PROVE  /\ closed => Is(DispatchRequest(k), "none", "none", k.watching, k.watchQueued, k.stored,
                           k.closing, k.open, k.request, k.parent, k.forced)
           /\ ~closed /\ k.open => Is(DispatchRequest(k), "none", "dispatch", TRUE, k.watchQueued,
                                      k.stored, k.closing, k.open, k.request, k.parent, k.forced)
           /\ ~closed /\ ~k.open => Is(DispatchRequest(k), "none", "dispatch", k.watching,
                                       k.watchQueued + 1, k.stored, k.closing, k.open, k.request,
                                       k.parent, k.forced)
BY CloseRequestIs, GivenIs DEF DispatchRequest

LEMMA AuthRequestIs ==
    ASSUME NEW k \in Connection
    PROVE  /\ closed => Is(AuthRequest(k), "none", "none", k.watching, k.watchQueued, k.stored,
                           k.closing, k.open, k.request, k.parent, k.forced)
           /\ ~closed /\ k.open => Is(AuthRequest(k), "none", "auth", TRUE, k.watchQueued,
                                      k.stored, k.closing, k.open, k.request, k.parent, k.forced)
           /\ ~closed /\ ~k.open => Is(AuthRequest(k), "none", "auth", k.watching,
                                       k.watchQueued + 1, k.stored, k.closing, k.open, k.request,
                                       k.parent, k.forced)
BY CloseRequestIs, GivenIs DEF AuthRequest

\* Everything but one connection and its client stays as it is.
Alone(c) ==
    /\ UNCHANGED <<closed, closer, acceptor>>
    /\ \A d \in Conns : d # c => conn'[d] = conn[d] /\ peer'[d] = peer[d]
    /\ conn' \in [Conns -> Connection] /\ peer' \in [Conns -> Peer]

\* What becomes of the connection.
Turns(c, op, task, watching, watchQueued) ==
    Is(conn'[c], op, task, watching, watchQueued, conn[c].stored, conn[c].closing, conn[c].open,
       conn[c].request, conn[c].parent, conn[c].forced)

Moves(c, op, task) == Turns(c, op, task, conn[c].watching, conn[c].watchQueued)
Ends(c) == Moves(c, "none", "none")

Drops(c) ==
    Is(conn'[c], "none", "none", conn[c].watching, conn[c].watchQueued, FALSE, conn[c].closing,
       conn[c].open, conn[c].request, 0, conn[c].forced)

Forces(c) ==
    Is(conn'[c], "none", "none", FALSE, conn[c].watchQueued, FALSE, conn[c].closing, FALSE,
       conn[c].request, 0, TRUE)

Awaits(c) ==
    Is(conn'[c], "recvHeader", "none", conn[c].watching, conn[c].watchQueued, conn[c].stored,
       conn[c].closing, conn[c].open, conn[c].request + 1, conn[c].request + 1, conn[c].forced)

PeerIs(c, sent, finished, bytes) ==
    /\ peer'[c].gone = peer[c].gone
    /\ peer'[c].sent = sent /\ peer'[c].finished = finished /\ peer'[c].bytes = bytes

LEMMA Updated ==
    ASSUME TypeOK, NEW c \in Conns, NEW k \in Connection, Becomes(c, k)
    PROVE  /\ conn' \in [Conns -> Connection] /\ conn'[c] = k
           /\ \A d \in Conns : d # c => conn'[d] = conn[d]
BY DEF Becomes, TypeOK

LEMMA ConnTyped == TypeOK => \A c \in Conns : conn[c] \in Connection /\ peer[c] \in Peer
BY DEF TypeOK

LEMMA TakenIs ==
    ASSUME TypeOK, NEW c \in Conns, peer[c].bytes # <<>>, Taken(c)
    PROVE  /\ peer' \in [Conns -> Peer] /\ \A d \in Conns : d # c => peer'[d] = peer[d]
           /\ PeerIs(c, peer[c].sent, peer[c].finished, Tail(peer[c].bytes))
<1>1. peer[c] \in Peer /\ Tail(peer[c].bytes) \in Seq(Part)
    BY DEF TypeOK, Peer
<1>2. [peer[c] EXCEPT !.bytes = Tail(peer[c].bytes)] \in Peer
    BY <1>1 DEF Peer
<1>3. peer' = [peer EXCEPT ![c] = [peer[c] EXCEPT !.bytes = Tail(peer[c].bytes)]]
    BY DEF Taken
<1> QED
    BY <1>1, <1>2, <1>3 DEF TypeOK, PeerIs, Peer

LEMMA ReceiveFailsDoes ==
    ASSUME TypeOK, NEW c \in Conns, ReceiveFails(c)
    PROVE  /\ Alone(c) /\ UNCHANGED <<peer, freed>> /\ Runs(c)
           /\ conn[c].op \in {"recvHeader", "recvBody"} /\ (~conn[c].open \/ peer[c].gone)
           /\ Drops(c)
<1>1. PICK x : x = CloseRequest(conn[c])
    OBVIOUS
<1>2. Is(x, "none", "none", conn[c].watching, conn[c].watchQueued, conn[c].stored,
         conn[c].closing, conn[c].open, conn[c].request, conn[c].parent, conn[c].forced)
    BY <1>1, ConnTyped, CloseRequestIs
<1>3. Is(ResetConnection(x), x.op, x.task, x.watching, x.watchQueued, FALSE, x.closing, x.open,
         x.request, 0, x.forced)
    BY <1>2, ResetConnectionIs DEF Is
<1>4. Becomes(c, ResetConnection(x)) /\ UNCHANGED <<closed, closer, acceptor, peer, freed>>
    BY <1>1 DEF ReceiveFails
<1>5. Alone(c) /\ conn'[c] = ResetConnection(x)
    BY <1>3, <1>4, Updated DEF Is, Alone, TypeOK
<1>6. Drops(c)
    BY <1>2, <1>3, <1>5 DEF Is, Drops
<1> QED
    BY <1>4, <1>5, <1>6 DEF ReceiveFails, Broken

LEMMA SendFailsDoes ==
    ASSUME TypeOK, NEW c \in Conns, SendFails(c)
    PROVE  /\ Alone(c) /\ UNCHANGED <<peer, freed>> /\ Runs(c)
           /\ conn[c].op \in {"sendHeader", "sendBody"} /\ (~conn[c].open \/ peer[c].gone)
           /\ (closed /\ Ends(c)) \/ Drops(c)
<1>1. PICK x : x = CloseRequest(conn[c])
    OBVIOUS
<1>2. Is(x, "none", "none", conn[c].watching, conn[c].watchQueued, conn[c].stored,
         conn[c].closing, conn[c].open, conn[c].request, conn[c].parent, conn[c].forced)
    BY <1>1, ConnTyped, CloseRequestIs
<1>3. Is(ResetConnection(x), x.op, x.task, x.watching, x.watchQueued, FALSE, x.closing, x.open,
         x.request, 0, x.forced)
    BY <1>2, ResetConnectionIs DEF Is
<1>4. /\ (closed /\ Becomes(c, x)) \/ Becomes(c, ResetConnection(x))
      /\ UNCHANGED <<closed, closer, acceptor, peer, freed>>
    BY <1>1 DEF SendFails
<1>5. /\ Alone(c)
      /\ (closed /\ conn'[c] = x) \/ conn'[c] = ResetConnection(x)
    BY <1>2, <1>3, <1>4, Updated DEF Is, Alone, TypeOK
<1>6. (closed /\ Ends(c)) \/ Drops(c)
    BY <1>2, <1>3, <1>5 DEF Is, Drops, Ends, Moves, Turns
<1> QED
    BY <1>4, <1>5, <1>6 DEF SendFails, Broken

LEMMA HeaderSentDoes ==
    ASSUME TypeOK, NEW c \in Conns, HeaderSent(c)
    PROVE  /\ Alone(c) /\ UNCHANGED <<peer, freed>> /\ Runs(c)
           /\ conn[c].op = "sendHeader" /\ conn[c].open
           /\ IF closed THEN Ends(c) ELSE Moves(c, "sendBody", conn[c].task)
<1>1. PICK x : x = IF closed THEN CloseRequest(conn[c]) ELSE [conn[c] EXCEPT !.op = "sendBody"]
    OBVIOUS
<1>2. CASE closed
    <2>1. Is(x, "none", "none", conn[c].watching, conn[c].watchQueued, conn[c].stored,
             conn[c].closing, conn[c].open, conn[c].request, conn[c].parent, conn[c].forced)
        BY <1>1, <1>2, ConnTyped, CloseRequestIs
    <2>2. Becomes(c, x) /\ UNCHANGED <<closed, closer, acceptor, peer, freed>>
        BY <1>1 DEF HeaderSent
    <2>3. Alone(c) /\ conn'[c] = x
        BY <2>1, <2>2, Updated DEF Is, Alone, TypeOK
    <2> QED
        BY <1>2, <2>1, <2>2, <2>3 DEF HeaderSent, Ends, Moves, Turns
<1>3. CASE ~closed
    <2>1. Is(x, "sendBody", conn[c].task, conn[c].watching, conn[c].watchQueued, conn[c].stored,
             conn[c].closing, conn[c].open, conn[c].request, conn[c].parent, conn[c].forced)
        BY <1>1, <1>3, ConnTyped DEF Connection, Is
    <2>2. Becomes(c, x) /\ UNCHANGED <<closed, closer, acceptor, peer, freed>>
        BY <1>1 DEF HeaderSent
    <2>3. Alone(c) /\ conn'[c] = x
        BY <2>1, <2>2, Updated DEF Is, Alone, TypeOK
    <2> QED
        BY <1>3, <2>1, <2>2, <2>3 DEF HeaderSent, Moves, Turns
<1> QED
    BY <1>2, <1>3

LEMMA BodySentDoes ==
    ASSUME TypeOK, NEW c \in Conns, BodySent(c)
    PROVE  /\ Alone(c) /\ UNCHANGED freed /\ Runs(c)
           /\ conn[c].op = "sendBody" /\ conn[c].open
           /\ PeerIs(c, peer[c].sent, peer[c].finished + 1, peer[c].bytes)
           /\ IF closed THEN Ends(c) ELSE Awaits(c)
<1>1. PICK x : x = CloseRequest(conn[c])
    OBVIOUS
<1>2. Is(x, "none", "none", conn[c].watching, conn[c].watchQueued, conn[c].stored,
         conn[c].closing, conn[c].open, conn[c].request, conn[c].parent, conn[c].forced)
    BY <1>1, ConnTyped, CloseRequestIs
<1>3. /\ closed => Is(WaitForRequest(x), "none", x.task, x.watching, x.watchQueued, x.stored,
                       x.closing, x.open, x.request, x.parent, x.forced)
      /\ ~closed => Is(WaitForRequest(x), "recvHeader", x.task, x.watching, x.watchQueued,
                        x.stored, x.closing, x.open, x.request + 1, x.request + 1, x.forced)
    BY <1>2, WaitForRequestIs DEF Is
<1>4. Becomes(c, WaitForRequest(x)) /\ UNCHANGED <<closed, closer, acceptor, freed>>
    BY <1>1 DEF BodySent
<1>5. /\ conn' \in [Conns -> Connection] /\ conn'[c] = WaitForRequest(x)
      /\ \A d \in Conns : d # c => conn'[d] = conn[d]
    BY <1>3, <1>4, Updated DEF Is
<1>6. /\ peer' \in [Conns -> Peer] /\ \A d \in Conns : d # c => peer'[d] = peer[d]
      /\ PeerIs(c, peer[c].sent, peer[c].finished + 1, peer[c].bytes)
    <2>1. peer[c] \in Peer /\ peer[c].finished + 1 \in Nat
        BY DEF TypeOK, Peer
    <2>2. [peer[c] EXCEPT !.finished = peer[c].finished + 1] \in Peer
        BY <2>1 DEF Peer
    <2>3. peer' = [peer EXCEPT ![c] = [peer[c] EXCEPT !.finished = peer[c].finished + 1]]
        BY DEF BodySent, Finished
    <2> QED
        BY <2>1, <2>2, <2>3 DEF TypeOK, PeerIs, Peer
<1>7. IF closed THEN Ends(c) ELSE Awaits(c)
    BY <1>2, <1>3, <1>5 DEF Is, Ends, Moves, Turns, Awaits
<1> QED
    BY <1>4, <1>5, <1>6, <1>7 DEF BodySent, Alone

AuthTasks == {"auth", "authOk", "authFailed", "authForced"}
DispatchTasks == {"dispatch", "dispatched", "dispatchForced"}

\* A request is given to a dispatcher; the watch of a closed socket completes.
Gives(c, task, watching) ==
    IF conn[c].open THEN Turns(c, "none", task, TRUE, conn[c].watchQueued)
    ELSE Turns(c, "none", task, watching, conn[c].watchQueued + 1)

LEMMA AuthDoneDoes ==
    ASSUME TypeOK, NEW c \in Conns, NEW result \in {"ok", "failed", "forced"}, AuthDone(c, result)
    PROVE  /\ Alone(c) /\ UNCHANGED <<peer, freed>> /\ conn[c].task \in AuthTasks
           /\ \E task \in AuthTasks : Moves(c, conn[c].op, task)
<1>1. PICK task \in AuthTasks : Becomes(c, [conn[c] EXCEPT !.task = task])
    BY DEF AuthDone, AuthTasks
<1>2. PICK x : x = [conn[c] EXCEPT !.task = task]
    OBVIOUS
<1>3. Is(x, conn[c].op, task, conn[c].watching, conn[c].watchQueued, conn[c].stored,
         conn[c].closing, conn[c].open, conn[c].request, conn[c].parent, conn[c].forced)
    BY <1>2, ConnTyped DEF Connection, Is, AuthTasks
<1>4. UNCHANGED <<closed, closer, acceptor, peer, freed>> /\ conn[c].task \in AuthTasks
    BY DEF AuthDone, AuthTasks
<1>5. Alone(c) /\ conn'[c] = x
    BY <1>1, <1>2, <1>3, <1>4, Updated DEF Is, Alone, TypeOK
<1> QED
    BY <1>3, <1>4, <1>5 DEF Moves, Turns

LEMMA DispatchDoneDoes ==
    ASSUME TypeOK, NEW c \in Conns, NEW result \in {"ok", "forced"}, DispatchDone(c, result)
    PROVE  /\ Alone(c) /\ UNCHANGED <<peer, freed>> /\ conn[c].task \in DispatchTasks
           /\ \E task \in DispatchTasks : Moves(c, conn[c].op, task)
<1>1. PICK task \in DispatchTasks : Becomes(c, [conn[c] EXCEPT !.task = task])
    BY DEF DispatchDone, DispatchTasks
<1>2. PICK x : x = [conn[c] EXCEPT !.task = task]
    OBVIOUS
<1>3. Is(x, conn[c].op, task, conn[c].watching, conn[c].watchQueued, conn[c].stored,
         conn[c].closing, conn[c].open, conn[c].request, conn[c].parent, conn[c].forced)
    BY <1>2, ConnTyped DEF Connection, Is, DispatchTasks
<1>4. UNCHANGED <<closed, closer, acceptor, peer, freed>> /\ conn[c].task \in DispatchTasks
    BY DEF DispatchDone, DispatchTasks
<1>5. Alone(c) /\ conn'[c] = x
    BY <1>1, <1>2, <1>3, <1>4, Updated DEF Is, Alone, TypeOK
<1> QED
    BY <1>3, <1>4, <1>5 DEF Moves, Turns

\* The two callbacks of a dispatcher after the check of the context.
LEMMA ForcedIs ==
    ASSUME NEW k \in Connection
    PROVE  Is([CloseConnection(CloseRequest(k)) EXCEPT !.forced = TRUE], "none", "none", FALSE,
              k.watchQueued, FALSE, k.closing, FALSE, k.request, 0, TRUE)
BY DEF CloseConnection, ResetConnection, SocketClosed, CloseRequest, Connection, Is

LEMMA RespondIs ==
    ASSUME NEW k \in Connection, ~closed
    PROVE  Is(SendResponse(CancelWatch(k)), "sendHeader", "none", FALSE, k.watchQueued, k.stored,
              k.closing, k.open, k.request, k.parent, k.forced)
BY DEF SendResponse, CloseRequest, CancelWatch, Connection, Is

LEMMA RedispatchIs ==
    ASSUME NEW k \in Connection, ~closed
    PROVE  /\ k.open => Is(DispatchRequest(CancelWatch(k)), "none", "dispatch", TRUE, k.watchQueued,
                           k.stored, k.closing, k.open, k.request, k.parent, k.forced)
           /\ ~k.open => Is(DispatchRequest(CancelWatch(k)), "none", "dispatch", FALSE,
                            k.watchQueued + 1, k.stored, k.closing, k.open, k.request, k.parent,
                            k.forced)
<1>1. PICK x : x = CancelWatch(k)
    OBVIOUS
<1>2. Is(x, k.op, k.task, FALSE, k.watchQueued, k.stored, k.closing, k.open, k.request, k.parent,
         k.forced)
    BY <1>1, CancelWatchIs
<1>3. /\ x.open => Is(DispatchRequest(x), "none", "dispatch", TRUE, x.watchQueued,
                      x.stored, x.closing, x.open, x.request, x.parent, x.forced)
      /\ ~x.open => Is(DispatchRequest(x), "none", "dispatch", x.watching,
                       x.watchQueued + 1, x.stored, x.closing, x.open, x.request,
                       x.parent, x.forced)
    BY <1>2, DispatchRequestIs DEF Is
<1> QED
    BY <1>1, <1>2, <1>3 DEF Is

LEMMA AuthCallbackDoes ==
    ASSUME TypeOK, NEW c \in Conns, AuthCallback(c)
    PROVE  /\ Alone(c) /\ UNCHANGED peer /\ Runs(c) /\ conn[c].task \in AuthTasks
           /\ \/ closed /\ Ends(c) /\ UNCHANGED freed
              \/ /\ ~closed /\ Alive(c) /\ UNCHANGED freed
                 /\ \/ Forces(c)
                    \/ Turns(c, "sendHeader", "none", FALSE, conn[c].watchQueued)
                    \/ Gives(c, "dispatch", FALSE)
              \/ ~closed /\ ~Alive(c) /\ Ends(c)
<1> DEFINE k == conn[c]
<1>0. k \in Connection
    BY ConnTyped
<1>1. /\ Runs(c) /\ k.task \in AuthTasks /\ UNCHANGED <<closed, closer, acceptor, peer>>
    BY DEF AuthCallback, AuthTasks
<1>2. ASSUME NEW x \in Connection, Becomes(c, x)
      PROVE  Alone(c) /\ conn'[c] = x
    BY <1>1, <1>2, Updated DEF Alone, TypeOK
<1>3. CASE closed \/ ~Alive(c)
    <2>1. Becomes(c, CloseRequest(k))
        BY <1>3 DEF AuthCallback
    <2>2. closed => UNCHANGED freed
        BY DEF AuthCallback
    <2>3. Is(CloseRequest(k), "none", "none", k.watching, k.watchQueued, k.stored, k.closing,
             k.open, k.request, k.parent, k.forced)
        BY <1>0, CloseRequestIs
    <2>4. Alone(c) /\ Ends(c)
        BY <1>2, <2>1, <2>3 DEF Is, Ends, Moves, Turns
    <2> QED
        BY <1>1, <1>3, <2>2, <2>4
<1>4. CASE ~closed /\ Alive(c)
    <2>1. /\ UNCHANGED freed
          /\ Becomes(c, IF k.task = "authForced"
                        THEN [CloseConnection(CloseRequest(k)) EXCEPT !.forced = TRUE]
                        ELSE IF k.task = "authFailed" THEN SendResponse(CancelWatch(k))
                             ELSE DispatchRequest(CancelWatch(k)))
        BY <1>4 DEF AuthCallback
    <2>2. CASE k.task = "authForced"
        <3>1. PICK x : /\ x = [CloseConnection(CloseRequest(k)) EXCEPT !.forced = TRUE]
                       /\ Becomes(c, x)
            BY <2>1, <2>2
        <3>2. Is(x, "none", "none", FALSE, k.watchQueued, FALSE, k.closing, FALSE,
                 k.request, 0, TRUE)
            BY <1>0, <3>1, ForcedIs
        <3>3. Alone(c) /\ Forces(c)
            BY <1>2, <3>1, <3>2 DEF Is, Forces
        <3> QED
            BY <1>1, <1>4, <2>1, <3>3
    <2>3. CASE k.task = "authFailed"
        <3>1. PICK x : x = SendResponse(CancelWatch(k)) /\ Becomes(c, x)
            BY <2>1, <2>3
        <3>2. Is(x, "sendHeader", "none", FALSE, k.watchQueued, k.stored, k.closing, k.open,
                 k.request, k.parent, k.forced)
            BY <1>0, <1>4, <3>1, RespondIs
        <3>3. Alone(c) /\ Turns(c, "sendHeader", "none", FALSE, k.watchQueued)
            BY <1>2, <3>1, <3>2 DEF Is, Turns
        <3> QED
            BY <1>1, <1>4, <2>1, <3>3
    <2>4. CASE k.task # "authForced" /\ k.task # "authFailed"
        <3>1. PICK x : x = DispatchRequest(CancelWatch(k)) /\ Becomes(c, x)
            BY <2>1, <2>4
        <3>2. /\ k.open => Is(x, "none", "dispatch", TRUE, k.watchQueued, k.stored, k.closing,
                              k.open, k.request, k.parent, k.forced)
              /\ ~k.open => Is(x, "none", "dispatch", FALSE, k.watchQueued + 1, k.stored, k.closing,
                               k.open, k.request, k.parent, k.forced)
            BY <1>0, <1>4, <3>1, RedispatchIs
        <3>3. Alone(c) /\ conn'[c] = x
            BY <1>2, <3>1, <3>2 DEF Is
        <3>4. Alone(c) /\ Gives(c, "dispatch", FALSE)
            BY <3>2, <3>3 DEF Gives, Turns
        <3> QED
            BY <1>1, <1>4, <2>1, <3>4
    <2> QED
        BY <2>2, <2>3, <2>4
<1> QED
    BY <1>3, <1>4

LEMMA DispatchCallbackDoes ==
    ASSUME TypeOK, NEW c \in Conns, DispatchCallback(c)
    PROVE  /\ Alone(c) /\ UNCHANGED <<peer, freed>> /\ Runs(c) /\ conn[c].task \in DispatchTasks
           /\ \/ (closed \/ ~Alive(c)) /\ Ends(c)
              \/ ~closed /\ Forces(c)
              \/ ~closed /\ Turns(c, "sendHeader", "none", FALSE, conn[c].watchQueued)
<1> DEFINE k == conn[c]
<1>0. k \in Connection
    BY ConnTyped
<1>1. /\ Runs(c) /\ k.task \in DispatchTasks /\ UNCHANGED <<closed, closer, acceptor, peer, freed>>
    BY DEF DispatchCallback, DispatchTasks
<1>2. ASSUME NEW x \in Connection, Becomes(c, x)
      PROVE  Alone(c) /\ conn'[c] = x
    BY <1>1, <1>2, Updated DEF Alone, TypeOK
<1>3. CASE closed \/ ~Alive(c)
    <2>1. Becomes(c, CloseRequest(k))
        BY <1>3 DEF DispatchCallback
    <2>2. Is(CloseRequest(k), "none", "none", k.watching, k.watchQueued, k.stored, k.closing,
             k.open, k.request, k.parent, k.forced)
        BY <1>0, CloseRequestIs
    <2>3. Alone(c) /\ Ends(c)
        BY <1>2, <2>1, <2>2 DEF Is, Ends, Moves, Turns
    <2> QED
        BY <1>1, <1>3, <2>3
<1>4. CASE ~closed /\ Alive(c) /\ k.task = "dispatchForced"
    <2>1. Becomes(c, [CloseConnection(CloseRequest(k)) EXCEPT !.forced = TRUE])
        BY <1>4 DEF DispatchCallback
    <2>2. PICK x : /\ x = [CloseConnection(CloseRequest(k)) EXCEPT !.forced = TRUE]
                   /\ Becomes(c, x)
        BY <2>1
    <2>3. Is(x, "none", "none", FALSE, k.watchQueued, FALSE, k.closing, FALSE, k.request, 0, TRUE)
        BY <1>0, <2>2, ForcedIs
    <2>4. Alone(c) /\ conn'[c] = x
        BY <1>2, <2>2, <2>3 DEF Is
    <2>5. Alone(c) /\ Forces(c)
        BY <2>3, <2>4 DEF Forces
    <2> QED
        BY <1>1, <1>4, <2>5
<1>5. CASE ~closed /\ Alive(c) /\ k.task # "dispatchForced"
    <2>1. PICK x : x = SendResponse(CancelWatch(k)) /\ Becomes(c, x)
        BY <1>5 DEF DispatchCallback
    <2>2. Is(x, "sendHeader", "none", FALSE, k.watchQueued, k.stored, k.closing, k.open,
             k.request, k.parent, k.forced)
        BY <1>0, <1>5, <2>1, RespondIs
    <2>3. Alone(c) /\ Turns(c, "sendHeader", "none", FALSE, k.watchQueued)
        BY <1>2, <2>1, <2>2 DEF Is, Turns
    <2> QED
        BY <1>1, <1>5, <2>3
<1> QED
    BY <1>3, <1>4, <1>5

LEMMA WatchCompletesDoes ==
    ASSUME TypeOK, NEW c \in Conns, WatchCompletes(c)
    PROVE  /\ Alone(c) /\ UNCHANGED <<peer, freed>>
           /\ conn[c].watching /\ (peer[c].gone \/ peer[c].bytes # <<>>)
           /\ Turns(c, conn[c].op, conn[c].task, FALSE, conn[c].watchQueued + 1)
<1>1. conn[c] \in Connection /\ conn[c].watchQueued + 1 \in Nat
    BY DEF TypeOK, Connection
<1>2. PICK x : /\ x = [conn[c] EXCEPT !.watching = FALSE, !.watchQueued = conn[c].watchQueued + 1]
               /\ Becomes(c, x)
    BY DEF WatchCompletes
<1>3. Is(x, conn[c].op, conn[c].task, FALSE, conn[c].watchQueued + 1, conn[c].stored,
         conn[c].closing, conn[c].open, conn[c].request, conn[c].parent, conn[c].forced)
    BY <1>1, <1>2 DEF Connection, Is
<1>4. Alone(c) /\ conn'[c] = x
    BY <1>2, <1>3, Updated DEF WatchCompletes, Is, Alone, TypeOK
<1> QED
    BY <1>3, <1>4 DEF WatchCompletes, Readable, Turns

LEMMA WatchHandlerDoes ==
    ASSUME TypeOK, NEW c \in Conns, WatchHandler(c)
    PROVE  /\ Alone(c) /\ UNCHANGED <<peer, freed>>
           /\ conn[c].watchQueued # 0
           /\ "lostInAuth" \in Avoided => conn[c].task \notin AuthTasks
           /\ Is(conn'[c], conn[c].op, conn[c].task, FALSE, conn[c].watchQueued - 1, FALSE,
                 conn[c].closing, FALSE, conn[c].request, 0, conn[c].forced)
<1>1. /\ conn[c] \in Connection /\ conn[c].watchQueued # 0
      /\ conn[c].watchQueued - 1 \in Nat
    BY DEF WatchHandler, TypeOK, Connection
<1>2. PICK y : y = [conn[c] EXCEPT !.watchQueued = conn[c].watchQueued - 1]
    OBVIOUS
<1>3. Is(y, conn[c].op, conn[c].task, conn[c].watching, conn[c].watchQueued - 1, conn[c].stored,
         conn[c].closing, conn[c].open, conn[c].request, conn[c].parent, conn[c].forced)
    BY <1>1, <1>2 DEF Connection, Is
<1>4. PICK x : x = CloseConnection(y) /\ Becomes(c, x)
    BY <1>2 DEF WatchHandler
<1>5. Is(x, y.op, y.task, FALSE, y.watchQueued, FALSE, y.closing, FALSE, y.request, 0, y.forced)
    BY <1>3, <1>4, CloseConnectionIs DEF Is
<1>6. Alone(c) /\ conn'[c] = x
    BY <1>4, <1>5, Updated DEF WatchHandler, Is, Alone, TypeOK
<1>7. Is(conn'[c], conn[c].op, conn[c].task, FALSE, conn[c].watchQueued - 1, FALSE,
         conn[c].closing, FALSE, conn[c].request, 0, conn[c].forced)
    BY <1>3, <1>5, <1>6 DEF Is
<1> QED
    BY <1>1, <1>6, <1>7 DEF WatchHandler, May, AuthTasks

LEMMA DoCloseDoes ==
    ASSUME TypeOK, NEW c \in Conns, DoClose(c)
    PROVE  /\ Alone(c) /\ UNCHANGED <<peer, freed>> /\ conn[c].closing
           /\ Is(conn'[c], conn[c].op, conn[c].task, FALSE, conn[c].watchQueued, conn[c].stored,
                 FALSE, FALSE, conn[c].request, conn[c].parent, conn[c].forced)
<1>1. PICK x : x = [SocketClosed(conn[c]) EXCEPT !.closing = FALSE] /\ Becomes(c, x)
    BY DEF DoClose
<1>2. Is(x, conn[c].op, conn[c].task, FALSE, conn[c].watchQueued, conn[c].stored,
         FALSE, FALSE, conn[c].request, conn[c].parent, conn[c].forced)
    BY <1>1, ConnTyped DEF SocketClosed, Connection, Is
<1>3. Alone(c) /\ conn'[c] = x
    BY <1>1, <1>2, Updated DEF DoClose, Is, Alone, TypeOK
<1> QED
    BY <1>2, <1>3 DEF DoClose

\* The kind of the message is of no further interest, except that an empty one
\* is over and one that is too big is answered.
LEMMA HeaderReceivedDoes ==
    ASSUME TypeOK, NEW c \in Conns, HeaderReceived(c)
    PROVE  /\ Alone(c) /\ UNCHANGED freed /\ Runs(c)
           /\ conn[c].op = "recvHeader" /\ conn[c].open /\ peer[c].bytes # <<>>
           /\ \E kind \in Kinds :
                /\ Head(peer[c].bytes).part = "header" => kind = Head(peer[c].bytes).kind
                /\ \/ /\ kind = "empty"
                      /\ PeerIs(c, peer[c].sent, peer[c].finished + 1, Tail(peer[c].bytes))
                      /\ IF closed THEN Ends(c) ELSE Awaits(c)
                   \/ /\ kind = "tooBig"
                      /\ PeerIs(c, peer[c].sent, peer[c].finished, Tail(peer[c].bytes))
                      /\ IF closed THEN Ends(c) ELSE Moves(c, "sendHeader", "none")
                   \/ /\ kind \notin {"empty", "tooBig"}
                      /\ PeerIs(c, peer[c].sent, peer[c].finished, Tail(peer[c].bytes))
                      /\ Moves(c, "recvBody", conn[c].task)
<1>1. /\ Runs(c) /\ conn[c].op = "recvHeader" /\ conn[c].open /\ peer[c].bytes # <<>>
      /\ UNCHANGED <<closed, closer, acceptor, freed>>
    BY DEF HeaderReceived, Received
<1>2. /\ conn[c] \in Connection /\ peer[c] \in Peer
      /\ Head(peer[c].bytes) \in Part /\ Tail(peer[c].bytes) \in Seq(Part)
    BY <1>1 DEF TypeOK, Peer
<1>3. PICK first : first = Head(peer[c].bytes)
    OBVIOUS
<1>4. PICK kind \in Kinds :
        /\ first.part = "header" => kind = first.kind
        /\ \E k : /\ k = [conn[c] EXCEPT !.kind = kind]
                  /\ \/ /\ kind = "empty"
                        /\ Becomes(c, WaitForRequest(CloseRequest(k)))
                        /\ peer' = [peer EXCEPT ![c].bytes = Tail(@), ![c].finished = @ + 1]
                     \/ kind = "tooBig" /\ Becomes(c, SendResponse(k)) /\ Taken(c)
                     \/ /\ kind \notin {"empty", "tooBig"}
                        /\ Becomes(c, [k EXCEPT !.op = "recvBody"]) /\ Taken(c)
    <2>1. PICK kind \in IF first.part = "header" THEN {first.kind} ELSE Kinds :
            \/ /\ kind = "empty"
               /\ Becomes(c, WaitForRequest(CloseRequest([conn[c] EXCEPT !.kind = kind])))
               /\ peer' = [peer EXCEPT ![c].bytes = Tail(@), ![c].finished = @ + 1]
            \/ /\ kind = "tooBig"
               /\ Becomes(c, SendResponse([conn[c] EXCEPT !.kind = kind])) /\ Taken(c)
            \/ /\ kind \notin {"empty", "tooBig"}
               /\ Becomes(c, [[conn[c] EXCEPT !.kind = kind] EXCEPT !.op = "recvBody"])
               /\ Taken(c)
        BY <1>3 DEF HeaderReceived
    <2>2. kind \in Kinds /\ (first.part = "header" => kind = first.kind)
        BY <1>2, <1>3 DEF Part
    <2> QED
        BY <2>1, <2>2
<1>5. PICK k : /\ k = [conn[c] EXCEPT !.kind = kind]
                /\ \/ /\ kind = "empty"
                      /\ Becomes(c, WaitForRequest(CloseRequest(k)))
                      /\ peer' = [peer EXCEPT ![c].bytes = Tail(@), ![c].finished = @ + 1]
                   \/ kind = "tooBig" /\ Becomes(c, SendResponse(k)) /\ Taken(c)
                   \/ /\ kind \notin {"empty", "tooBig"}
                      /\ Becomes(c, [k EXCEPT !.op = "recvBody"]) /\ Taken(c)
    BY <1>4
<1>6. Is(k, conn[c].op, conn[c].task, conn[c].watching, conn[c].watchQueued, conn[c].stored,
         conn[c].closing, conn[c].open, conn[c].request, conn[c].parent, conn[c].forced)
    BY <1>2, <1>5, KindIs
<1>7. k \in Connection
    BY <1>6 DEF Is
<1>8. ASSUME NEW x \in Connection, Becomes(c, x),
             peer' \in [Conns -> Peer], \A d \in Conns : d # c => peer'[d] = peer[d]
      PROVE  Alone(c) /\ conn'[c] = x
    BY <1>1, <1>8, Updated DEF Alone
<1>9. CASE kind = "empty"
    <2>1. PICK y : y = CloseRequest(k)
        OBVIOUS
    <2>2. Is(y, "none", "none", k.watching, k.watchQueued, k.stored, k.closing, k.open, k.request,
             k.parent, k.forced)
        BY <1>7, <2>1, CloseRequestIs
    <2>3. PICK x : x = WaitForRequest(y) /\ Becomes(c, x)
        BY <1>9, <1>5, <2>1
    <2>4. /\ closed => Is(x, "none", y.task, y.watching, y.watchQueued, y.stored, y.closing,
                          y.open, y.request, y.parent, y.forced)
          /\ ~closed => Is(x, "recvHeader", y.task, y.watching, y.watchQueued, y.stored, y.closing,
                           y.open, y.request + 1, y.request + 1, y.forced)
        BY <2>2, <2>3, WaitForRequestIs DEF Is
    <2>5. /\ peer' \in [Conns -> Peer] /\ \A d \in Conns : d # c => peer'[d] = peer[d]
          /\ PeerIs(c, peer[c].sent, peer[c].finished + 1, Tail(peer[c].bytes))
        <3>1. peer[c].finished + 1 \in Nat
            BY <1>2 DEF Peer
        <3>2. PICK p : p = [peer[c] EXCEPT !.bytes = Tail(peer[c].bytes),
                                          !.finished = peer[c].finished + 1]
            OBVIOUS
        <3>3. /\ p \in Peer /\ p.gone = peer[c].gone /\ p.sent = peer[c].sent
              /\ p.finished = peer[c].finished + 1 /\ p.bytes = Tail(peer[c].bytes)
            BY <1>2, <3>1, <3>2 DEF Peer
        <3>4. peer' = [peer EXCEPT ![c] = p]
            BY <1>9, <1>5, <3>2
        <3> QED
            BY <3>3, <3>4 DEF TypeOK, PeerIs
    <2>6. Alone(c) /\ conn'[c] = x
        BY <1>8, <2>3, <2>4, <2>5 DEF Is
    <2>7. IF closed THEN Ends(c) ELSE Awaits(c)
        BY <1>6, <2>2, <2>4, <2>6 DEF Is, Ends, Moves, Turns, Awaits
    <2> QED
        BY <1>1, <1>3, <1>4, <1>9, <2>5, <2>6, <2>7
<1>10. CASE kind = "tooBig"
    <2>1. PICK x : x = SendResponse(k) /\ Becomes(c, x) /\ Taken(c)
        BY <1>10, <1>5
    <2>2. /\ closed => Is(x, "none", "none", k.watching, k.watchQueued, k.stored,
                          k.closing, k.open, k.request, k.parent, k.forced)
          /\ ~closed => Is(x, "sendHeader", "none", k.watching, k.watchQueued,
                           k.stored, k.closing, k.open, k.request, k.parent, k.forced)
        BY <1>7, <2>1, SendResponseIs
    <2>3. /\ peer' \in [Conns -> Peer] /\ \A d \in Conns : d # c => peer'[d] = peer[d]
          /\ PeerIs(c, peer[c].sent, peer[c].finished, Tail(peer[c].bytes))
        BY <1>1, <2>1, TakenIs
    <2>4. Alone(c) /\ conn'[c] = x
        BY <1>8, <2>1, <2>2, <2>3 DEF Is
    <2>5. IF closed THEN Ends(c) ELSE Moves(c, "sendHeader", "none")
        BY <1>6, <2>2, <2>4 DEF Is, Ends, Moves, Turns
    <2> QED
        BY <1>1, <1>3, <1>4, <1>10, <2>3, <2>4, <2>5
<1>11. CASE kind \notin {"empty", "tooBig"}
    <2>1. PICK x : x = [k EXCEPT !.op = "recvBody"] /\ Becomes(c, x) /\ Taken(c)
        BY <1>11, <1>5
    <2>2. Is(x, "recvBody", k.task, k.watching, k.watchQueued, k.stored, k.closing, k.open,
             k.request, k.parent, k.forced)
        BY <1>7, <2>1 DEF Connection, Is
    <2>3. /\ peer' \in [Conns -> Peer] /\ \A d \in Conns : d # c => peer'[d] = peer[d]
          /\ PeerIs(c, peer[c].sent, peer[c].finished, Tail(peer[c].bytes))
        BY <1>1, <2>1, TakenIs
    <2>4. Alone(c) /\ conn'[c] = x
        BY <1>8, <2>1, <2>2, <2>3 DEF Is
    <2>5. Moves(c, "recvBody", conn[c].task)
        BY <1>6, <2>2, <2>4 DEF Is, Moves, Turns
    <2> QED
        BY <1>1, <1>3, <1>4, <1>11, <2>3, <2>4, <2>5
<1> QED
    BY <1>9, <1>10, <1>11

LEMMA BodyReceivedDoes ==
    ASSUME TypeOK, NEW c \in Conns, BodyReceived(c)
    PROVE  /\ Alone(c) /\ UNCHANGED freed /\ Runs(c)
           /\ conn[c].op = "recvBody" /\ conn[c].open /\ peer[c].bytes # <<>>
           /\ PeerIs(c, peer[c].sent, peer[c].finished, Tail(peer[c].bytes))
           /\ \/ closed /\ Ends(c)
              \/ ~closed /\ Moves(c, "sendHeader", "none")
              \/ ~closed /\ Turns(c, "none", "auth", TRUE, conn[c].watchQueued)
              \/ ~closed /\ Turns(c, "none", "dispatch", TRUE, conn[c].watchQueued)
<1>1. /\ Runs(c) /\ conn[c].op = "recvBody" /\ conn[c].open /\ peer[c].bytes # <<>>
      /\ UNCHANGED <<closed, closer, acceptor, freed>> /\ Taken(c)
    BY DEF BodyReceived, Received
<1>2. /\ peer' \in [Conns -> Peer] /\ \A d \in Conns : d # c => peer'[d] = peer[d]
      /\ PeerIs(c, peer[c].sent, peer[c].finished, Tail(peer[c].bytes))
    BY <1>1, TakenIs
<1>3. conn[c] \in Connection
    BY ConnTyped
<1>4. PICK x : /\ Becomes(c, x)
               /\ \/ x = SendResponse(conn[c])
                  \/ x = AuthRequest(conn[c])
                  \/ x = DispatchRequest(conn[c])
    BY DEF BodyReceived
<1>5. ASSUME x \in Connection PROVE Alone(c) /\ conn'[c] = x
    BY <1>1, <1>2, <1>4, <1>5, Updated DEF Alone
<1>6. CASE x = SendResponse(conn[c])
    <2>1. /\ closed => Is(x, "none", "none", conn[c].watching, conn[c].watchQueued, conn[c].stored,
                          conn[c].closing, conn[c].open, conn[c].request, conn[c].parent,
                          conn[c].forced)
          /\ ~closed => Is(x, "sendHeader", "none", conn[c].watching, conn[c].watchQueued,
                           conn[c].stored, conn[c].closing, conn[c].open, conn[c].request,
                           conn[c].parent, conn[c].forced)
        BY <1>1, <1>3, <1>6, SendResponseIs
    <2>2. Alone(c) /\ conn'[c] = x
        BY <1>5, <2>1 DEF Is
    <2>3. IF closed THEN Ends(c) ELSE Moves(c, "sendHeader", "none")
        BY <2>1, <2>2 DEF Ends, Moves, Turns
    <2> QED
        BY <1>1, <1>2, <2>2, <2>3
<1>7. CASE x = AuthRequest(conn[c])
    <2>1. /\ closed => Is(x, "none", "none", conn[c].watching, conn[c].watchQueued, conn[c].stored,
                          conn[c].closing, conn[c].open, conn[c].request, conn[c].parent,
                          conn[c].forced)
          /\ ~closed => Is(x, "none", "auth", TRUE, conn[c].watchQueued,
                           conn[c].stored, conn[c].closing, conn[c].open, conn[c].request,
                           conn[c].parent, conn[c].forced)
        BY <1>1, <1>3, <1>7, AuthRequestIs
    <2>2. Alone(c) /\ conn'[c] = x
        BY <1>5, <2>1 DEF Is
    <2>3. IF closed THEN Ends(c) ELSE Turns(c, "none", "auth", TRUE, conn[c].watchQueued)
        BY <2>1, <2>2 DEF Ends, Moves, Turns
    <2> QED
        BY <1>1, <1>2, <2>2, <2>3
<1>8. CASE x = DispatchRequest(conn[c])
    <2>1. /\ closed => Is(x, "none", "none", conn[c].watching, conn[c].watchQueued, conn[c].stored,
                          conn[c].closing, conn[c].open, conn[c].request, conn[c].parent,
                          conn[c].forced)
          /\ ~closed => Is(x, "none", "dispatch", TRUE, conn[c].watchQueued,
                           conn[c].stored, conn[c].closing, conn[c].open, conn[c].request,
                           conn[c].parent, conn[c].forced)
        BY <1>1, <1>3, <1>8, DispatchRequestIs
    <2>2. Alone(c) /\ conn'[c] = x
        BY <1>5, <2>1 DEF Is
    <2>3. IF closed THEN Ends(c) ELSE Turns(c, "none", "dispatch", TRUE, conn[c].watchQueued)
        BY <2>1, <2>2 DEF Ends, Moves, Turns
    <2> QED
        BY <1>1, <1>2, <2>2, <2>3
<1> QED
    BY <1>4, <1>6, <1>7, <1>8

LEMMA ShortSeqs ==
    ASSUME NEW S, NEW h \in S, NEW b \in S
    PROVE  <<h>> \in Seq(S) /\ <<h, b>> \in Seq(S)
OBVIOUS

LEMMA SendDoes ==
    ASSUME TypeOK, NEW c \in Conns, NEW kind \in Kinds, Send(c, kind)
    PROVE  /\ Alone(c) /\ UNCHANGED <<conn, freed>> /\ conn[c].request > 0
           /\ "pipelining" \in Avoided => peer[c].sent = peer[c].finished
           /\ "unreadBody" \in Avoided => kind # "tooBig"
           /\ PeerIs(c, peer[c].sent + 1, peer[c].finished, peer[c].bytes \o Parts(kind))
<1>1. /\ peer[c] \in Peer /\ peer[c].sent + 1 \in Nat /\ peer[c].bytes \in Seq(Part)
      /\ Parts(kind) \in Seq(Part) /\ peer[c].bytes \o Parts(kind) \in Seq(Part)
    <2>1. /\ [part |-> "header", kind |-> kind] \in Part
          /\ [part |-> "body", kind |-> kind] \in Part
        BY DEF Part
    <2>2. PICK h \in Part, b \in Part : /\ h = [part |-> "header", kind |-> kind]
                                       /\ b = [part |-> "body", kind |-> kind]
        BY <2>1
    <2>3. Parts(kind) = <<h>> \/ Parts(kind) = <<h, b>>
        BY <2>2 DEF Parts
    <2>4. Parts(kind) \in Seq(Part)
        BY <2>2, <2>3, ShortSeqs
    <2>5. peer[c] \in Peer /\ peer[c].sent + 1 \in Nat /\ peer[c].bytes \in Seq(Part)
        BY DEF TypeOK, Peer
    <2> QED
        BY <2>4, <2>5
<1>2. PICK p : p = [peer[c] EXCEPT !.sent = peer[c].sent + 1,
                                   !.bytes = peer[c].bytes \o Parts(kind)]
    OBVIOUS
<1>3. /\ p \in Peer /\ p.gone = peer[c].gone /\ p.sent = peer[c].sent + 1
      /\ p.finished = peer[c].finished /\ p.bytes = peer[c].bytes \o Parts(kind)
    BY <1>1, <1>2 DEF Peer
<1>4. peer' = [peer EXCEPT ![c] = p] /\ UNCHANGED <<closed, closer, acceptor, conn, freed>>
    BY <1>2 DEF Send
<1>5. Alone(c) /\ PeerIs(c, peer[c].sent + 1, peer[c].finished, peer[c].bytes \o Parts(kind))
    BY <1>3, <1>4 DEF Alone, PeerIs, TypeOK
<1> QED
    BY <1>4, <1>5 DEF Send, May

LEMMA LeaveDoes ==
    ASSUME TypeOK, NEW c \in Conns, Leave(c)
    PROVE  /\ Alone(c) /\ UNCHANGED <<conn, freed>> /\ conn[c].request > 0
           /\ peer'[c].gone /\ peer'[c].sent = peer[c].sent
           /\ peer'[c].finished = peer[c].finished /\ peer'[c].bytes = peer[c].bytes
<1>1. PICK p : p = [peer[c] EXCEPT !.gone = TRUE] /\ peer' = [peer EXCEPT ![c] = p]
    BY DEF Leave
<1>2. /\ p \in Peer /\ p.gone /\ p.sent = peer[c].sent
      /\ p.finished = peer[c].finished /\ p.bytes = peer[c].bytes
    BY <1>1, ConnTyped DEF Peer
<1> QED
    BY <1>1, <1>2 DEF Leave, Alone, TypeOK

(***************************************************************************)
(* Invariants of a connection                                               *)
(***************************************************************************)

\* Until waitForRequest was called nothing happens to a connection.
FreshInv(c) ==
    conn[c].request = 0 =>
        /\ conn[c].op = "none" /\ conn[c].task = "none"
        /\ ~conn[c].watching /\ conn[c].watchQueued = 0
        /\ peer[c].sent = peer[c].finished /\ peer[c].bytes = <<>>

\* The accepting thread registers the connection before it waits for requests.
AcceptedInv(c) ==
    acceptor.conn = c =>
        /\ acceptor.does \in {"register", "wait"} => conn[c].request = 0
        /\ acceptor.does = "wait" => closed \/ conn[c].stored

\* A request is transferred or given to a dispatcher, not both; only a closed
\* server closes connections from outside.
TurnInv(c) == /\ conn[c].op # "none" => conn[c].task = "none"
              /\ conn[c].closing => closed

BaseInv(c) == FreshInv(c) /\ AcceptedInv(c) /\ TurnInv(c)

\* While the server is open, a request in progress has a registered connection,
\* unless the socket is closed; one that is being authenticated always has.
\* The first request stays where it is until the accepting thread is done.
UsesInv(c) ==
    /\ ~closed /\ conn[c].open /\ (conn[c].op # "none" \/ conn[c].task # "none")
         => conn[c].stored
    /\ ~closed /\ conn[c].task \in AuthTasks => conn[c].stored
    /\ acceptor.conn = c /\ acceptor.does = "after" =>
         /\ conn[c].op = "recvHeader" /\ conn[c].request = 1 /\ conn[c].parent = 1
         /\ conn[c].watchQueued = 0 /\ ~conn[c].watching

\* What is under way to the server fits what the server is about to do.
ProtocolInv(c) ==
    /\ conn[c].op = "recvHeader" =>
         \/ peer[c].sent = peer[c].finished /\ peer[c].bytes = <<>>
         \/ /\ peer[c].sent = peer[c].finished + 1
            /\ \E kind \in Kinds \ {"tooBig"} : peer[c].bytes = Parts(kind)
    /\ conn[c].op = "recvBody" =>
         /\ peer[c].sent = peer[c].finished + 1
         /\ \E part \in Part : peer[c].bytes = <<part>>
    /\ conn[c].op \in {"sendHeader", "sendBody"} \/ conn[c].task # "none" =>
         peer[c].sent = peer[c].finished + 1 /\ peer[c].bytes = <<>>

\* A connection is kept as long as nobody leaves, closes or asks for it; its
\* socket is watched only while a request is dispatched.
KeptInv(c) ==
    \/ peer[c].gone \/ closed \/ conn[c].forced
    \/ /\ conn[c].open /\ (conn[c].request > 0 => conn[c].stored)
       /\ conn[c].watchQueued = 0
       /\ conn[c].watching => conn[c].task # "none"

CloserInv == closer # "none" => closed
AcceptorInv ==
    acceptor.does \in {"register", "wait", "after", "next"} => acceptor.conn \in Conns

\* The stages of the proof: each needs those before it.
Inv == TypeOK /\ CloserInv /\ AcceptorInv /\ \A c \in Conns : BaseInv(c)
UsesAll == NothingUsedAfterFree /\ \A c \in Conns : UsesInv(c)
ProtocolAll == \A c \in Conns : ProtocolInv(c) /\ KeptInv(c)

\* A step that leaves a connection and its client alone keeps what holds of it.
LEMMA Frame ==
    ASSUME NEW c \in Conns, closed' = closed, conn'[c] = conn[c], peer'[c] = peer[c],
           acceptor' = acceptor \/ acceptor'.conn # c
    PROVE  /\ BaseInv(c) => BaseInv(c)'
           /\ UsesInv(c) => UsesInv(c)'
           /\ ProtocolInv(c) => ProtocolInv(c)'
           /\ KeptInv(c) => KeptInv(c)'
<1>1. FreshInv(c) => FreshInv(c)'
    BY DEF FreshInv
<1>2. AcceptedInv(c) => AcceptedInv(c)'
    BY DEF AcceptedInv
<1>3. TurnInv(c) => TurnInv(c)'
    BY DEF TurnInv
<1>4. UsesInv(c) => UsesInv(c)'
    BY DEF UsesInv
<1>5. ProtocolInv(c) => ProtocolInv(c)'
    BY DEF ProtocolInv
<1>6. KeptInv(c) => KeptInv(c)'
    BY DEF KeptInv
<1> QED
    BY <1>1, <1>2, <1>3, <1>4, <1>5, <1>6 DEF BaseInv

LEMMA AloneKeeps ==
    ASSUME Inv, NEW c \in Conns, Alone(c), freed' \subseteq {"connection", "request"}
    PROVE  /\ BaseInv(c)' => Inv'
           /\ (UsesAll /\ UsesInv(c)' /\ freed' = freed) => UsesAll'
           /\ (ProtocolAll /\ ProtocolInv(c)' /\ KeptInv(c)') => ProtocolAll'
<1>1. /\ closed' = closed /\ acceptor' = acceptor
      /\ \A d \in Conns : d # c => conn'[d] = conn[d] /\ peer'[d] = peer[d]
    BY DEF Alone
<1>2. /\ \A d \in Conns : (d # c /\ BaseInv(d)) => BaseInv(d)'
      /\ \A d \in Conns : (d # c /\ UsesInv(d)) => UsesInv(d)'
      /\ \A d \in Conns : (d # c /\ ProtocolInv(d)) => ProtocolInv(d)'
      /\ \A d \in Conns : (d # c /\ KeptInv(d)) => KeptInv(d)'
    <2> SUFFICES ASSUME NEW d \in Conns, d # c
                 PROVE  /\ BaseInv(d) => BaseInv(d)'
                        /\ UsesInv(d) => UsesInv(d)'
                        /\ ProtocolInv(d) => ProtocolInv(d)'
                        /\ KeptInv(d) => KeptInv(d)'
        OBVIOUS
    <2> QED
        BY <1>1, Frame
<1>3. TypeOK' /\ CloserInv' /\ AcceptorInv'
    BY DEF Inv, Alone, TypeOK, CloserInv, AcceptorInv
<1>4. BaseInv(c)' => Inv'
    BY <1>2, <1>3 DEF Inv
<1>5. (UsesAll /\ UsesInv(c)' /\ freed' = freed) => UsesAll'
    BY <1>2 DEF UsesAll, NothingUsedAfterFree
<1>6. ProtocolAll /\ ProtocolInv(c)' /\ KeptInv(c)' => ProtocolAll'
    BY <1>2 DEF ProtocolAll
<1> QED
    BY <1>4, <1>5, <1>6

\* What clients, dispatchers and handlers do with one connection.
ConnStep(c) ==
    \/ \E kind \in Kinds : Send(c, kind)
    \/ Leave(c) \/ WatchCompletes(c) \/ Handler(c) \/ Dispatcher(c)

LEMMA StepIsAlone ==
    ASSUME Inv, NEW c \in Conns, ConnStep(c)
    PROVE  Alone(c) /\ freed' \subseteq {"connection", "request"}
<1>1. TypeOK /\ freed \subseteq {"connection", "request"}
    BY DEF Inv, TypeOK
<1>2. ASSUME NEW kind \in Kinds, Send(c, kind)
      PROVE  Alone(c) /\ freed' \subseteq {"connection", "request"}
    BY <1>1, <1>2, SendDoes
<1>3. ASSUME Leave(c) PROVE Alone(c) /\ freed' \subseteq {"connection", "request"}
    BY <1>1, <1>3, LeaveDoes
<1>4. ASSUME WatchCompletes(c) PROVE Alone(c) /\ freed' \subseteq {"connection", "request"}
    BY <1>1, <1>4, WatchCompletesDoes
<1>5. ASSUME HeaderReceived(c) PROVE Alone(c) /\ freed' \subseteq {"connection", "request"}
    BY <1>1, <1>5, HeaderReceivedDoes
<1>6. ASSUME BodyReceived(c) PROVE Alone(c) /\ freed' \subseteq {"connection", "request"}
    BY <1>1, <1>6, BodyReceivedDoes
<1>7. ASSUME ReceiveFails(c) PROVE Alone(c) /\ freed' \subseteq {"connection", "request"}
    BY <1>1, <1>7, ReceiveFailsDoes
<1>8. ASSUME NEW result \in {"ok", "failed", "forced"}, AuthDone(c, result)
      PROVE  Alone(c) /\ freed' \subseteq {"connection", "request"}
    BY <1>1, <1>8, AuthDoneDoes
<1>9. ASSUME NEW result \in {"ok", "forced"}, DispatchDone(c, result)
      PROVE  Alone(c) /\ freed' \subseteq {"connection", "request"}
    BY <1>1, <1>9, DispatchDoneDoes
<1>10. ASSUME AuthCallback(c) PROVE Alone(c) /\ freed' \subseteq {"connection", "request"}
    BY <1>1, <1>10, AuthCallbackDoes DEF AuthCallback
<1>11. ASSUME DispatchCallback(c) PROVE Alone(c) /\ freed' \subseteq {"connection", "request"}
    BY <1>1, <1>11, DispatchCallbackDoes
<1>12. ASSUME WatchHandler(c) PROVE Alone(c) /\ freed' \subseteq {"connection", "request"}
    BY <1>1, <1>12, WatchHandlerDoes
<1>13. ASSUME HeaderSent(c) PROVE Alone(c) /\ freed' \subseteq {"connection", "request"}
    BY <1>1, <1>13, HeaderSentDoes
<1>14. ASSUME BodySent(c) PROVE Alone(c) /\ freed' \subseteq {"connection", "request"}
    BY <1>1, <1>14, BodySentDoes
<1>15. ASSUME SendFails(c) PROVE Alone(c) /\ freed' \subseteq {"connection", "request"}
    BY <1>1, <1>15, SendFailsDoes
<1>16. ASSUME DoClose(c) PROVE Alone(c) /\ freed' \subseteq {"connection", "request"}
    BY <1>1, <1>16, DoCloseDoes
<1> QED
    BY <1>2, <1>3, <1>4, <1>5, <1>6, <1>7, <1>8, <1>9,
       <1>10, <1>11, <1>12, <1>13, <1>14, <1>15, <1>16 DEF ConnStep, Handler, Dispatcher

\* All but the close happens to a connection that has waited for a request.
LEMMA InUse ==
    ASSUME Inv, NEW c \in Conns, ConnStep(c), ~DoClose(c)
    PROVE  conn[c].request # 0 /\ conn'[c].request # 0
<1>1. TypeOK /\ BaseInv(c) /\ conn[c].request \in Nat
    BY ConnTyped DEF Inv, Connection
<1>2. conn[c].request # 0
    <2>1. ASSUME NEW kind \in Kinds, Send(c, kind) PROVE conn[c].request # 0
        BY <1>1, <2>1, SendDoes DEF BaseInv, FreshInv
    <2>2. ASSUME Leave(c) PROVE conn[c].request # 0
        BY <1>1, <2>2, LeaveDoes DEF BaseInv, FreshInv
    <2>3. ASSUME WatchCompletes(c) PROVE conn[c].request # 0
        BY <1>1, <2>3, WatchCompletesDoes DEF BaseInv, FreshInv
    <2>4. ASSUME HeaderReceived(c) PROVE conn[c].request # 0
        BY <1>1, <2>4, HeaderReceivedDoes DEF BaseInv, FreshInv
    <2>5. ASSUME BodyReceived(c) PROVE conn[c].request # 0
        BY <1>1, <2>5, BodyReceivedDoes DEF BaseInv, FreshInv
    <2>6. ASSUME ReceiveFails(c) PROVE conn[c].request # 0
        BY <1>1, <2>6, ReceiveFailsDoes DEF BaseInv, FreshInv
    <2>7. ASSUME NEW result \in {"ok", "failed", "forced"}, AuthDone(c, result)
          PROVE  conn[c].request # 0
        BY <1>1, <2>7, AuthDoneDoes DEF BaseInv, FreshInv, AuthTasks
    <2>8. ASSUME NEW result \in {"ok", "forced"}, DispatchDone(c, result) PROVE conn[c].request # 0
        BY <1>1, <2>8, DispatchDoneDoes DEF BaseInv, FreshInv, DispatchTasks
    <2>9. ASSUME AuthCallback(c) PROVE conn[c].request # 0
        BY <1>1, <2>9, AuthCallbackDoes DEF BaseInv, FreshInv, AuthTasks
    <2>10. ASSUME DispatchCallback(c) PROVE conn[c].request # 0
        BY <1>1, <2>10, DispatchCallbackDoes DEF BaseInv, FreshInv, DispatchTasks
    <2>11. ASSUME WatchHandler(c) PROVE conn[c].request # 0
        BY <1>1, <2>11, WatchHandlerDoes DEF BaseInv, FreshInv
    <2>12. ASSUME HeaderSent(c) PROVE conn[c].request # 0
        BY <1>1, <2>12, HeaderSentDoes DEF BaseInv, FreshInv
    <2>13. ASSUME BodySent(c) PROVE conn[c].request # 0
        BY <1>1, <2>13, BodySentDoes DEF BaseInv, FreshInv
    <2>14. ASSUME SendFails(c) PROVE conn[c].request # 0
        BY <1>1, <2>14, SendFailsDoes DEF BaseInv, FreshInv
    <2> QED
        BY <2>1, <2>2, <2>3, <2>4, <2>5, <2>6, <2>7, <2>8,
           <2>9, <2>10, <2>11, <2>12, <2>13, <2>14 DEF ConnStep, Handler, Dispatcher
<1>3. conn'[c].request \in {conn[c].request, conn[c].request + 1}
    <2>1. ASSUME NEW kind \in Kinds, Send(c, kind)
          PROVE  conn'[c].request \in {conn[c].request, conn[c].request + 1}
        BY <1>1, <2>1, SendDoes DEF PeerIs, Alone
    <2>2. ASSUME Leave(c)
          PROVE  conn'[c].request \in {conn[c].request, conn[c].request + 1}
        BY <1>1, <2>2, LeaveDoes DEF Alone
    <2>3. ASSUME WatchCompletes(c)
          PROVE  conn'[c].request \in {conn[c].request, conn[c].request + 1}
        BY <1>1, <2>3, WatchCompletesDoes DEF Is, Turns, Alone
    <2>4. ASSUME HeaderReceived(c)
          PROVE  conn'[c].request \in {conn[c].request, conn[c].request + 1}
        BY <1>1, <2>4, HeaderReceivedDoes DEF Is, Ends, Moves, Turns, Awaits, PeerIs, Alone
    <2>5. ASSUME BodyReceived(c)
          PROVE  conn'[c].request \in {conn[c].request, conn[c].request + 1}
        BY <1>1, <2>5, BodyReceivedDoes DEF Is, Ends, Moves, Turns, PeerIs, Alone
    <2>6. ASSUME ReceiveFails(c)
          PROVE  conn'[c].request \in {conn[c].request, conn[c].request + 1}
        BY <1>1, <2>6, ReceiveFailsDoes DEF Is, Drops, Alone
    <2>7. ASSUME NEW result \in {"ok", "failed", "forced"}, AuthDone(c, result)
          PROVE  conn'[c].request \in {conn[c].request, conn[c].request + 1}
        BY <1>1, <2>7, AuthDoneDoes DEF Is, Moves, Turns, Alone
    <2>8. ASSUME NEW result \in {"ok", "forced"}, DispatchDone(c, result)
          PROVE  conn'[c].request \in {conn[c].request, conn[c].request + 1}
        BY <1>1, <2>8, DispatchDoneDoes DEF Is, Moves, Turns, Alone
    <2>9. ASSUME AuthCallback(c)
          PROVE  conn'[c].request \in {conn[c].request, conn[c].request + 1}
        BY <1>1, <2>9, AuthCallbackDoes DEF Is, Ends, Moves, Turns, Forces, Gives, Alone
    <2>10. ASSUME DispatchCallback(c)
          PROVE  conn'[c].request \in {conn[c].request, conn[c].request + 1}
        BY <1>1, <2>10, DispatchCallbackDoes DEF Is, Ends, Moves, Turns, Forces, Alone
    <2>11. ASSUME WatchHandler(c)
          PROVE  conn'[c].request \in {conn[c].request, conn[c].request + 1}
        BY <1>1, <2>11, WatchHandlerDoes DEF Is, Alone
    <2>12. ASSUME HeaderSent(c)
          PROVE  conn'[c].request \in {conn[c].request, conn[c].request + 1}
        BY <1>1, <2>12, HeaderSentDoes DEF Is, Ends, Moves, Turns, Alone
    <2>13. ASSUME BodySent(c)
          PROVE  conn'[c].request \in {conn[c].request, conn[c].request + 1}
        BY <1>1, <2>13, BodySentDoes DEF Is, Ends, Moves, Turns, Awaits, PeerIs, Alone
    <2>14. ASSUME SendFails(c)
          PROVE  conn'[c].request \in {conn[c].request, conn[c].request + 1}
        BY <1>1, <2>14, SendFailsDoes DEF Is, Ends, Moves, Turns, Drops, Alone
    <2> QED
        BY <2>1, <2>2, <2>3, <2>4, <2>5, <2>6, <2>7, <2>8,
           <2>9, <2>10, <2>11, <2>12, <2>13, <2>14 DEF ConnStep, Handler, Dispatcher
<1> QED
    BY <1>1, <1>2, <1>3

LEMMA FreshAndAccepted ==
    ASSUME Inv, NEW c \in Conns, ConnStep(c)
    PROVE  FreshInv(c)' /\ AcceptedInv(c)'
<1>1. UNCHANGED <<closed, acceptor>> /\ TypeOK /\ BaseInv(c)
    BY StepIsAlone DEF Inv, Alone
<1>2. CASE ~DoClose(c)
    BY <1>1, <1>2, InUse DEF BaseInv, FreshInv, AcceptedInv
<1>3. CASE DoClose(c)
    <2>1. /\ conn'[c].op = conn[c].op /\ conn'[c].task = conn[c].task /\ peer' = peer
          /\ ~conn'[c].watching /\ conn'[c].watchQueued = conn[c].watchQueued
          /\ conn'[c].stored = conn[c].stored /\ conn'[c].request = conn[c].request
        BY <1>1, <1>3, DoCloseDoes DEF Is
    <2> QED
        BY <1>1, <2>1 DEF BaseInv, FreshInv, AcceptedInv
<1> QED
    BY <1>2, <1>3

LEMMA TurnStep ==
    ASSUME Inv,
           NEW c \in Conns, ConnStep(c)
    PROVE  TurnInv(c)'
<1>1. TypeOK /\ BaseInv(c) /\ conn[c] \in Connection /\ peer[c] \in Peer
    BY ConnTyped DEF Inv
<1>2. ASSUME NEW kind \in Kinds, Send(c, kind) PROVE TurnInv(c)'
    BY <1>1, <1>2, SendDoes DEF BaseInv, TurnInv, AuthTasks, DispatchTasks, PeerIs, Alone
<1>3. ASSUME Leave(c) PROVE TurnInv(c)'
    BY <1>1, <1>3, LeaveDoes DEF BaseInv, TurnInv, AuthTasks, DispatchTasks, Alone
<1>4. ASSUME WatchCompletes(c) PROVE TurnInv(c)'
    BY <1>1, <1>4, WatchCompletesDoes DEF BaseInv, TurnInv, AuthTasks, DispatchTasks, Is, Turns,
           Alone
<1>5. ASSUME HeaderReceived(c) PROVE TurnInv(c)'
    BY <1>1, <1>5, HeaderReceivedDoes
       DEF BaseInv, TurnInv, AuthTasks, DispatchTasks, Is, Ends, Moves, Turns, Awaits, PeerIs,
           Alone
<1>6. ASSUME BodyReceived(c) PROVE TurnInv(c)'
    BY <1>1, <1>6, BodyReceivedDoes
       DEF BaseInv, TurnInv, AuthTasks, DispatchTasks, Is, Ends, Moves, Turns, PeerIs, Alone
<1>7. ASSUME ReceiveFails(c) PROVE TurnInv(c)'
    BY <1>1, <1>7, ReceiveFailsDoes DEF BaseInv, TurnInv, AuthTasks, DispatchTasks, Is, Drops, Alone
<1>8. ASSUME NEW result \in {"ok", "failed", "forced"}, AuthDone(c, result) PROVE TurnInv(c)'
    BY <1>1, <1>8, AuthDoneDoes DEF BaseInv, TurnInv, AuthTasks, DispatchTasks, Is, Moves, Turns,
           Alone
<1>9. ASSUME NEW result \in {"ok", "forced"}, DispatchDone(c, result) PROVE TurnInv(c)'
    BY <1>1, <1>9, DispatchDoneDoes
       DEF BaseInv, TurnInv, AuthTasks, DispatchTasks, Is, Moves, Turns, Alone
<1>10. ASSUME AuthCallback(c) PROVE TurnInv(c)'
    BY <1>1, <1>10, AuthCallbackDoes
       DEF BaseInv, TurnInv, AuthTasks, DispatchTasks, Is, Ends, Moves, Turns, Forces, Gives,
           Alone
<1>11. ASSUME DispatchCallback(c) PROVE TurnInv(c)'
    BY <1>1, <1>11, DispatchCallbackDoes
       DEF BaseInv, TurnInv, AuthTasks, DispatchTasks, Is, Ends, Moves, Turns, Forces, Alone
<1>12. ASSUME WatchHandler(c) PROVE TurnInv(c)'
    BY <1>1, <1>12, WatchHandlerDoes DEF BaseInv, TurnInv, AuthTasks, DispatchTasks, Is, Alone
<1>13. ASSUME HeaderSent(c) PROVE TurnInv(c)'
    BY <1>1, <1>13, HeaderSentDoes
       DEF BaseInv, TurnInv, AuthTasks, DispatchTasks, Is, Ends, Moves, Turns, Alone
<1>14. ASSUME BodySent(c) PROVE TurnInv(c)'
    BY <1>1, <1>14, BodySentDoes
       DEF BaseInv, TurnInv, AuthTasks, DispatchTasks, Is, Ends, Moves, Turns, Awaits, PeerIs,
           Alone
<1>15. ASSUME SendFails(c) PROVE TurnInv(c)'
    BY <1>1, <1>15, SendFailsDoes
       DEF BaseInv, TurnInv, AuthTasks, DispatchTasks, Is, Ends, Moves, Turns, Drops, Alone
<1>16. ASSUME DoClose(c) PROVE TurnInv(c)'
    BY <1>1, <1>16, DoCloseDoes DEF BaseInv, TurnInv, AuthTasks, DispatchTasks, Is, Alone
<1> QED
    BY <1>2, <1>3, <1>4, <1>5, <1>6, <1>7, <1>8, <1>9,
       <1>10, <1>11, <1>12, <1>13, <1>14, <1>15, <1>16 DEF ConnStep, Handler, Dispatcher

LEMMA StepKeepsInv ==
    ASSUME Inv, NEW c \in Conns, ConnStep(c)
    PROVE  Inv'
BY StepIsAlone, AloneKeeps, FreshAndAccepted, TurnStep DEF BaseInv

LEMMA UsesStep ==
    ASSUME "lostInAuth" \in Avoided, "earlyHandler" \in Avoided, Inv,
           NEW c \in Conns, ConnStep(c), UsesInv(c)
    PROVE  UsesInv(c)' /\ freed' = freed
<1>1. TypeOK /\ BaseInv(c) /\ conn[c] \in Connection /\ peer[c] \in Peer
    BY ConnTyped DEF Inv
<1>2. ASSUME NEW kind \in Kinds, Send(c, kind) PROVE UsesInv(c)' /\ freed' = freed
    BY <1>1, <1>2, SendDoes
       DEF BaseInv, UsesInv, TurnInv, AuthTasks, DispatchTasks, Runs, May, Alive, PeerIs, Alone
<1>3. ASSUME Leave(c) PROVE UsesInv(c)' /\ freed' = freed
    BY <1>1, <1>3, LeaveDoes
       DEF BaseInv, UsesInv, TurnInv, AuthTasks, DispatchTasks, Runs, May, Alive, Alone
<1>4. ASSUME WatchCompletes(c) PROVE UsesInv(c)' /\ freed' = freed
    BY <1>1, <1>4, WatchCompletesDoes
       DEF BaseInv, UsesInv, TurnInv, AuthTasks, DispatchTasks, Runs, May, Alive, Is, Turns, Alone
<1>5. ASSUME HeaderReceived(c) PROVE UsesInv(c)' /\ freed' = freed
    BY <1>1, <1>5, HeaderReceivedDoes
       DEF BaseInv, UsesInv, TurnInv, AuthTasks, DispatchTasks, Runs, May, Alive, Is, Ends, Moves,
           Turns, Awaits, PeerIs, Alone
<1>6. ASSUME BodyReceived(c) PROVE UsesInv(c)' /\ freed' = freed
    BY <1>1, <1>6, BodyReceivedDoes
       DEF BaseInv, UsesInv, TurnInv, AuthTasks, DispatchTasks, Runs, May, Alive, Is, Ends, Moves,
           Turns, PeerIs, Alone
<1>7. ASSUME ReceiveFails(c) PROVE UsesInv(c)' /\ freed' = freed
    BY <1>1, <1>7, ReceiveFailsDoes
       DEF BaseInv, UsesInv, TurnInv, AuthTasks, DispatchTasks, Runs, May, Alive, Is, Drops, Alone
<1>8. ASSUME NEW result \in {"ok", "failed", "forced"}, AuthDone(c, result)
      PROVE  UsesInv(c)' /\ freed' = freed
    BY <1>1, <1>8, AuthDoneDoes
       DEF BaseInv, UsesInv, TurnInv, AuthTasks, DispatchTasks, Runs, May, Alive, Is, Moves,
           Turns, Alone
<1>9. ASSUME NEW result \in {"ok", "forced"}, DispatchDone(c, result)
      PROVE  UsesInv(c)' /\ freed' = freed
    BY <1>1, <1>9, DispatchDoneDoes
       DEF BaseInv, UsesInv, TurnInv, AuthTasks, DispatchTasks, Runs, May, Alive, Is, Moves,
           Turns, Alone
<1>10. ASSUME AuthCallback(c) PROVE UsesInv(c)' /\ freed' = freed
    BY <1>1, <1>10, AuthCallbackDoes
       DEF BaseInv, UsesInv, TurnInv, AuthTasks, DispatchTasks, Runs, May, Alive, Is, Ends, Moves,
           Turns, Forces, Gives, Alone
<1>11. ASSUME DispatchCallback(c) PROVE UsesInv(c)' /\ freed' = freed
    <2>1. /\ freed' = freed /\ closed' = closed /\ acceptor' = acceptor
          /\ Runs(c) /\ conn[c].task \in DispatchTasks
        BY <1>1, <1>11, DispatchCallbackDoes DEF Alone
    <2>2. ~(acceptor.conn = c /\ acceptor.does = "after")
        BY <2>1, <1>1 DEF BaseInv, UsesInv, TurnInv, DispatchTasks
    <2>3. CASE (closed \/ ~Alive(c)) /\ Ends(c)
        <3>1. conn'[c].op = "none" /\ conn'[c].task = "none"
            BY <2>3 DEF Ends, Moves, Turns, Is
        <3> QED
            BY <2>1, <2>2, <3>1 DEF UsesInv, AuthTasks
    <2>4. CASE Forces(c)
        <3>1. conn'[c].op = "none" /\ conn'[c].task = "none"
            BY <2>4 DEF Forces, Is
        <3> QED
            BY <2>1, <2>2, <3>1 DEF UsesInv, AuthTasks
    <2>5. CASE ~closed /\ Turns(c, "sendHeader", "none", FALSE, conn[c].watchQueued)
        <3>1. conn'[c].task = "none" /\ conn'[c].open = conn[c].open
              /\ conn'[c].stored = conn[c].stored
            BY <2>5 DEF Turns, Is
        <3>2. conn[c].task # "none"
            BY <2>1 DEF DispatchTasks
        <3> QED
            BY <2>1, <2>2, <3>1, <3>2 DEF UsesInv, AuthTasks
    <2> QED
        BY <1>1, <1>11, <2>3, <2>4, <2>5, DispatchCallbackDoes
<1>12. ASSUME WatchHandler(c) PROVE UsesInv(c)' /\ freed' = freed
    BY <1>1, <1>12, WatchHandlerDoes
       DEF BaseInv, UsesInv, TurnInv, AuthTasks, DispatchTasks, Runs, May, Alive, Is, Alone
<1>13. ASSUME HeaderSent(c) PROVE UsesInv(c)' /\ freed' = freed
    BY <1>1, <1>13, HeaderSentDoes
       DEF BaseInv, UsesInv, TurnInv, AuthTasks, DispatchTasks, Runs, May, Alive, Is, Ends, Moves,
           Turns, Alone
<1>14. ASSUME BodySent(c) PROVE UsesInv(c)' /\ freed' = freed
    BY <1>1, <1>14, BodySentDoes
       DEF BaseInv, UsesInv, TurnInv, AuthTasks, DispatchTasks, Runs, May, Alive, Is, Ends, Moves,
           Turns, Awaits, PeerIs, Alone
<1>15. ASSUME SendFails(c) PROVE UsesInv(c)' /\ freed' = freed
    BY <1>1, <1>15, SendFailsDoes
       DEF BaseInv, UsesInv, TurnInv, AuthTasks, DispatchTasks, Runs, May, Alive, Is, Ends, Moves,
           Turns, Drops, Alone
<1>16. ASSUME DoClose(c) PROVE UsesInv(c)' /\ freed' = freed
    BY <1>1, <1>16, DoCloseDoes
       DEF BaseInv, UsesInv, TurnInv, AuthTasks, DispatchTasks, Runs, May, Alive, Is, Alone
<1> QED
    BY <1>2, <1>3, <1>4, <1>5, <1>6, <1>7, <1>8, <1>9,
       <1>10, <1>11, <1>12, <1>13, <1>14, <1>15, <1>16 DEF ConnStep, Handler, Dispatcher

\* A message as it is sent, and what is left when its header has been read.
LEMMA PartsAre ==
    ASSUME NEW kind \in Kinds
    PROVE  /\ Parts(kind) \in Seq(Part) /\ Parts(kind) # <<>> /\ Head(Parts(kind)) \in Part
           /\ Head(Parts(kind)).part = "header" /\ Head(Parts(kind)).kind = kind
           /\ kind = "empty" => Tail(Parts(kind)) = <<>>
           /\ kind # "empty" => \E part \in Part : Tail(Parts(kind)) = <<part>>
<1>1. PICK h \in Part, b \in Part : /\ h = [part |-> "header", kind |-> kind]
                                   /\ b = [part |-> "body", kind |-> kind]
    BY DEF Part
<1>2. h.part = "header" /\ h.kind = kind
    BY <1>1
<1>3. CASE kind = "empty"
    <2>1. Parts(kind) = <<h>>
        BY <1>1, <1>3 DEF Parts
    <2>2. <<h>> \in Seq(Part) /\ <<h>> # <<>> /\ Head(<<h>>) = h /\ Tail(<<h>>) = <<>>
        BY ShortSeqs
    <2> QED
        BY <1>2, <1>3, <2>1, <2>2
<1>4. CASE kind # "empty"
    <2>1. Parts(kind) = <<h, b>>
        BY <1>1, <1>4 DEF Parts
    <2>2. <<h, b>> \in Seq(Part) /\ <<h, b>> # <<>> /\ Head(<<h, b>>) = h /\ Tail(<<h, b>>) = <<b>>
        BY ShortSeqs
    <2> QED
        BY <1>2, <1>4, <2>1, <2>2
<1> QED
    BY <1>3, <1>4

\* A client that waits for its response sends when the server waits for a
\* header and nothing is under way.
LEMMA SendKeepsProtocol ==
    ASSUME "pipelining" \in Avoided, "unreadBody" \in Avoided, TypeOK,
           NEW c \in Conns, NEW kind \in Kinds, Send(c, kind), ProtocolInv(c)
    PROVE  ProtocolInv(c)'
<1>1. /\ conn' = conn /\ peer[c].sent = peer[c].finished /\ kind # "tooBig"
      /\ peer'[c].sent = peer[c].finished + 1 /\ peer'[c].finished = peer[c].finished
      /\ peer'[c].bytes = peer[c].bytes \o Parts(kind)
      /\ peer[c].finished \in Nat
    BY SendDoes, ConnTyped DEF PeerIs, Peer
<1>2. peer[c].sent # peer[c].finished + 1
    BY <1>1
<1>3. CASE conn[c].op = "recvHeader"
    <2>1. peer[c].bytes = <<>>
        BY <1>2, <1>3 DEF ProtocolInv
    <2>2. peer'[c].bytes = Parts(kind)
        BY <1>1, <2>1, PartsAre
    <2>3. conn[c].task = "none"
        BY <1>2 DEF ProtocolInv
    <2> QED
        BY <1>1, <1>3, <2>2, <2>3 DEF ProtocolInv
<1>4. CASE conn[c].op # "recvHeader"
    BY <1>1, <1>2, <1>4 DEF ProtocolInv
<1> QED
    BY <1>3, <1>4

LEMMA HeaderKeepsProtocol ==
    ASSUME Inv, NEW c \in Conns, HeaderReceived(c), ProtocolInv(c)
    PROVE  ProtocolInv(c)'
<1>1. TypeOK /\ conn[c].op = "recvHeader" /\ conn[c].task = "none" /\ peer[c].bytes # <<>>
    BY HeaderReceivedDoes DEF Inv, BaseInv, TurnInv
<1>2. PICK sentKind \in Kinds \ {"tooBig"} :
        peer[c].sent = peer[c].finished + 1 /\ peer[c].bytes = Parts(sentKind)
    BY <1>1 DEF ProtocolInv
<1>3. PICK kind \in Kinds :
        /\ Head(peer[c].bytes).part = "header" => kind = Head(peer[c].bytes).kind
        /\ \/ /\ kind = "empty"
              /\ PeerIs(c, peer[c].sent, peer[c].finished + 1, Tail(peer[c].bytes))
              /\ IF closed THEN Ends(c) ELSE Awaits(c)
           \/ /\ kind = "tooBig"
              /\ PeerIs(c, peer[c].sent, peer[c].finished, Tail(peer[c].bytes))
              /\ IF closed THEN Ends(c) ELSE Moves(c, "sendHeader", "none")
           \/ /\ kind \notin {"empty", "tooBig"}
              /\ PeerIs(c, peer[c].sent, peer[c].finished, Tail(peer[c].bytes))
              /\ Moves(c, "recvBody", conn[c].task)
    BY <1>1, HeaderReceivedDoes
<1>4. kind = sentKind
    BY <1>2, <1>3, PartsAre
<1>5. CASE kind = "empty"
    <2>1. Tail(peer[c].bytes) = <<>>
        BY <1>2, <1>4, <1>5, PartsAre
    <2>2. peer'[c].sent = peer'[c].finished /\ peer'[c].bytes = <<>>
        BY <1>2, <1>3, <1>5, <2>1 DEF PeerIs
    <2>3. conn'[c].op \in {"none", "recvHeader"} /\ conn'[c].task = "none"
        BY <1>3, <1>5 DEF Ends, Moves, Turns, Awaits, Is
    <2> QED
        BY <2>2, <2>3 DEF ProtocolInv
<1>6. CASE kind # "empty"
    <2>1. PICK part \in Part : Tail(peer[c].bytes) = <<part>>
        BY <1>2, <1>4, <1>6, PartsAre
    <2>2. /\ peer'[c].sent = peer'[c].finished + 1 /\ peer'[c].bytes = <<part>>
          /\ conn'[c].op = "recvBody" /\ conn'[c].task = "none"
        BY <1>1, <1>2, <1>3, <1>4, <1>6, <2>1 DEF PeerIs, Moves, Turns, Is
    <2> QED
        BY <2>2 DEF ProtocolInv
<1> QED
    BY <1>5, <1>6

LEMMA BodyKeepsProtocol ==
    ASSUME Inv, NEW c \in Conns, BodyReceived(c), ProtocolInv(c)
    PROVE  ProtocolInv(c)'
<1>1. /\ conn[c].op = "recvBody"
      /\ PeerIs(c, peer[c].sent, peer[c].finished, Tail(peer[c].bytes))
      /\ \/ Ends(c)
         \/ Moves(c, "sendHeader", "none")
         \/ Turns(c, "none", "auth", TRUE, conn[c].watchQueued)
         \/ Turns(c, "none", "dispatch", TRUE, conn[c].watchQueued)
    BY BodyReceivedDoes DEF Inv
<1>2. PICK part \in Part : peer[c].sent = peer[c].finished + 1 /\ peer[c].bytes = <<part>>
    BY <1>1 DEF ProtocolInv
<1>3. Tail(peer[c].bytes) = <<>>
    BY <1>2
<1>4. peer'[c].sent = peer'[c].finished + 1 /\ peer'[c].bytes = <<>>
    BY <1>1, <1>2, <1>3 DEF PeerIs
<1>5. conn'[c].op \notin {"recvHeader", "recvBody"}
    BY <1>1 DEF Ends, Moves, Turns, Is
<1> QED
    BY <1>4, <1>5 DEF ProtocolInv

LEMMA ProtocolStep ==
    ASSUME "pipelining" \in Avoided, "unreadBody" \in Avoided, Inv,
           NEW c \in Conns, ConnStep(c), ProtocolInv(c)
    PROVE  ProtocolInv(c)'
<1>1. TypeOK /\ BaseInv(c) /\ conn[c] \in Connection /\ peer[c] \in Peer
    BY ConnTyped DEF Inv
<1>2. ASSUME NEW kind \in Kinds, Send(c, kind) PROVE ProtocolInv(c)'
    BY <1>1, <1>2, SendKeepsProtocol
<1>3. ASSUME Leave(c) PROVE ProtocolInv(c)'
    BY <1>1, <1>3, LeaveDoes DEF BaseInv, TurnInv, ProtocolInv, AuthTasks, DispatchTasks, Peer,
           Alone
<1>4. ASSUME WatchCompletes(c) PROVE ProtocolInv(c)'
    <2>1. conn'[c].op = conn[c].op /\ conn'[c].task = conn[c].task /\ peer'[c] = peer[c]
        BY <1>1, <1>4, WatchCompletesDoes DEF Is, Turns
    <2> QED
        BY <2>1 DEF ProtocolInv
<1>5. ASSUME HeaderReceived(c) PROVE ProtocolInv(c)'
    BY <1>1, <1>5, HeaderKeepsProtocol
<1>6. ASSUME BodyReceived(c) PROVE ProtocolInv(c)'
    BY <1>1, <1>6, BodyKeepsProtocol
<1>7. ASSUME ReceiveFails(c) PROVE ProtocolInv(c)'
    BY <1>1, <1>7, ReceiveFailsDoes
       DEF BaseInv, TurnInv, ProtocolInv, AuthTasks, DispatchTasks, Peer, Is, Drops, Alone
<1>8. ASSUME NEW result \in {"ok", "failed", "forced"}, AuthDone(c, result) PROVE ProtocolInv(c)'
    BY <1>1, <1>8, AuthDoneDoes
       DEF BaseInv, TurnInv, ProtocolInv, AuthTasks, DispatchTasks, Peer, Is, Moves, Turns, Alone
<1>9. ASSUME NEW result \in {"ok", "forced"}, DispatchDone(c, result) PROVE ProtocolInv(c)'
    BY <1>1, <1>9, DispatchDoneDoes
       DEF BaseInv, TurnInv, ProtocolInv, AuthTasks, DispatchTasks, Peer, Is, Moves, Turns, Alone
<1>10. ASSUME AuthCallback(c) PROVE ProtocolInv(c)'
    BY <1>1, <1>10, AuthCallbackDoes
       DEF BaseInv, TurnInv, ProtocolInv, AuthTasks, DispatchTasks, Peer, Is, Ends, Moves, Turns,
           Forces, Gives, Alone
<1>11. ASSUME DispatchCallback(c) PROVE ProtocolInv(c)'
    BY <1>1, <1>11, DispatchCallbackDoes
       DEF BaseInv, TurnInv, ProtocolInv, AuthTasks, DispatchTasks, Peer, Is, Ends, Moves, Turns,
           Forces, Alone
<1>12. ASSUME WatchHandler(c) PROVE ProtocolInv(c)'
    BY <1>1, <1>12, WatchHandlerDoes
       DEF BaseInv, TurnInv, ProtocolInv, AuthTasks, DispatchTasks, Peer, Is, Alone
<1>13. ASSUME HeaderSent(c) PROVE ProtocolInv(c)'
    BY <1>1, <1>13, HeaderSentDoes
       DEF BaseInv, TurnInv, ProtocolInv, AuthTasks, DispatchTasks, Peer, Is, Ends, Moves, Turns,
           Alone
<1>14. ASSUME BodySent(c) PROVE ProtocolInv(c)'
    BY <1>1, <1>14, BodySentDoes
       DEF BaseInv, TurnInv, ProtocolInv, AuthTasks, DispatchTasks, Peer, Is, Ends, Moves, Turns,
           Awaits, PeerIs, Alone
<1>15. ASSUME SendFails(c) PROVE ProtocolInv(c)'
    BY <1>1, <1>15, SendFailsDoes
       DEF BaseInv, TurnInv, ProtocolInv, AuthTasks, DispatchTasks, Peer, Is, Ends, Moves, Turns,
           Drops, Alone
<1>16. ASSUME DoClose(c) PROVE ProtocolInv(c)'
    <2>1. conn'[c].op = conn[c].op /\ conn'[c].task = conn[c].task /\ peer'[c] = peer[c]
        BY <1>1, <1>16, DoCloseDoes DEF Is
    <2> QED
        BY <2>1 DEF ProtocolInv
<1> QED
    BY <1>2, <1>3, <1>4, <1>5, <1>6, <1>7, <1>8, <1>9,
       <1>10, <1>11, <1>12, <1>13, <1>14, <1>15, <1>16 DEF ConnStep, Handler, Dispatcher

LEMMA KeptStep ==
    ASSUME "pipelining" \in Avoided, "unreadBody" \in Avoided, Inv,
           NEW c \in Conns, ConnStep(c),
           ProtocolInv(c), KeptInv(c)
    PROVE  KeptInv(c)'
<1>1. TypeOK /\ BaseInv(c) /\ conn[c] \in Connection /\ peer[c] \in Peer
    BY ConnTyped DEF Inv
<1>2. ASSUME NEW kind \in Kinds, Send(c, kind) PROVE KeptInv(c)'
    BY <1>1, <1>2, SendDoes
       DEF BaseInv, TurnInv, ProtocolInv, KeptInv, Alive, AuthTasks, DispatchTasks, Connection,
           PeerIs, Alone
<1>3. ASSUME Leave(c) PROVE KeptInv(c)'
    BY <1>1, <1>3, LeaveDoes
       DEF BaseInv, TurnInv, ProtocolInv, KeptInv, Alive, AuthTasks, DispatchTasks, Connection,
           Alone
<1>4. ASSUME WatchCompletes(c) PROVE KeptInv(c)'
    BY <1>1, <1>4, WatchCompletesDoes
       DEF BaseInv, TurnInv, ProtocolInv, KeptInv, Alive, AuthTasks, DispatchTasks, Connection,
           Is, Turns, Alone
<1>5. ASSUME HeaderReceived(c) PROVE KeptInv(c)'
    <2>1. (conn[c].request > 0 /\ ~conn[c].watching) \/ closed \/ conn[c].forced \/ peer[c].gone
        BY <1>1, <1>5, HeaderReceivedDoes DEF BaseInv, FreshInv, TurnInv, KeptInv, Connection
    <2>2. peer'[c].gone = peer[c].gone /\ closed' = closed
        BY <1>1, <1>5, HeaderReceivedDoes DEF PeerIs, Alone
    <2>3. \/ Ends(c) /\ closed
          \/ Awaits(c)
          \/ Moves(c, "sendHeader", "none")
          \/ Moves(c, "recvBody", conn[c].task)
        BY <1>1, <1>5, HeaderReceivedDoes
    <2>4. /\ conn'[c].open = conn[c].open /\ conn'[c].stored = conn[c].stored
          /\ conn'[c].watchQueued = conn[c].watchQueued /\ conn'[c].watching = conn[c].watching
          /\ conn'[c].forced = conn[c].forced
        BY <2>3 DEF Ends, Awaits, Moves, Turns, Is
    <2> QED
        BY <2>1, <2>2, <2>4 DEF KeptInv
<1>6. ASSUME BodyReceived(c) PROVE KeptInv(c)'
    <2>1. peer'[c].gone = peer[c].gone /\ closed' = closed
        BY <1>1, <1>6, BodyReceivedDoes DEF PeerIs, Alone
    <2>2. \/ closed
          \/ Moves(c, "sendHeader", "none")
          \/ Turns(c, "none", "auth", TRUE, conn[c].watchQueued)
          \/ Turns(c, "none", "dispatch", TRUE, conn[c].watchQueued)
        BY <1>1, <1>6, BodyReceivedDoes
    <2>3. conn[c].task = "none"
        BY <1>1, <1>6, BodyReceivedDoes DEF BaseInv, TurnInv
    <2>4. CASE closed
        BY <2>1, <2>4 DEF KeptInv
    <2>5. CASE Moves(c, "sendHeader", "none")
        BY <2>1, <2>3, <2>5 DEF KeptInv, Moves, Turns, Is
    <2>6. CASE Turns(c, "none", "auth", TRUE, conn[c].watchQueued)
        BY <2>1, <2>6 DEF KeptInv, Turns, Is
    <2>7. CASE Turns(c, "none", "dispatch", TRUE, conn[c].watchQueued)
        BY <2>1, <2>7 DEF KeptInv, Turns, Is
    <2> QED
        BY <2>2, <2>4, <2>5, <2>6, <2>7
<1>7. ASSUME ReceiveFails(c) PROVE KeptInv(c)'
    BY <1>1, <1>7, ReceiveFailsDoes
       DEF BaseInv, TurnInv, ProtocolInv, KeptInv, Alive, AuthTasks, DispatchTasks, Connection,
           Is, Drops, Alone
<1>8. ASSUME NEW result \in {"ok", "failed", "forced"}, AuthDone(c, result) PROVE KeptInv(c)'
    <2>1. PICK task \in AuthTasks : Moves(c, conn[c].op, task)
        BY <1>1, <1>8, AuthDoneDoes
    <2>2. peer' = peer /\ closed' = closed
        BY <1>1, <1>8, AuthDoneDoes DEF Alone
    <2> QED
        BY <2>1, <2>2 DEF KeptInv, Moves, Turns, Is, AuthTasks
<1>9. ASSUME NEW result \in {"ok", "forced"}, DispatchDone(c, result) PROVE KeptInv(c)'
    <2>1. PICK task \in DispatchTasks : Moves(c, conn[c].op, task)
        BY <1>1, <1>9, DispatchDoneDoes
    <2>2. peer' = peer /\ closed' = closed
        BY <1>1, <1>9, DispatchDoneDoes DEF Alone
    <2> QED
        BY <2>1, <2>2 DEF KeptInv, Moves, Turns, Is, DispatchTasks
<1>10. ASSUME AuthCallback(c) PROVE KeptInv(c)'
    <2>1. peer' = peer /\ closed' = closed /\ conn[c].task \in AuthTasks
        BY <1>1, <1>10, AuthCallbackDoes DEF Alone
    <2>2. conn[c].request > 0 \/ closed \/ conn[c].forced \/ peer[c].gone
        BY <1>1, <2>1 DEF BaseInv, FreshInv, TurnInv, KeptInv, AuthTasks, Connection
    <2>3. CASE closed
        BY <2>1, <2>3 DEF KeptInv
    <2>4. CASE ~closed /\ ~Alive(c) /\ Ends(c)
        BY <1>1, <2>1, <2>2, <2>4 DEF KeptInv, Alive, Ends, Moves, Turns, Is, Connection
    <2>5. CASE Forces(c)
        BY <2>5 DEF KeptInv, Forces, Is
    <2>6. CASE Turns(c, "sendHeader", "none", FALSE, conn[c].watchQueued)
        BY <2>1, <2>6 DEF KeptInv, Turns, Is
    <2>7. CASE Gives(c, "dispatch", FALSE)
        <3>1. CASE conn[c].open
            BY <2>1, <2>7, <3>1 DEF KeptInv, Gives, Turns, Is
        <3>2. CASE ~conn[c].open
            BY <2>1, <2>7, <3>2 DEF KeptInv, Gives, Turns, Is
        <3> QED
            BY <3>1, <3>2
    <2> QED
        BY <1>1, <1>10, <2>3, <2>4, <2>5, <2>6, <2>7, AuthCallbackDoes
<1>11. ASSUME DispatchCallback(c) PROVE KeptInv(c)'
    BY <1>1, <1>11, DispatchCallbackDoes
       DEF BaseInv, TurnInv, ProtocolInv, KeptInv, Alive, AuthTasks, DispatchTasks, Connection,
           Is, Ends, Moves, Turns, Forces, Alone
<1>12. ASSUME WatchHandler(c) PROVE KeptInv(c)'
    BY <1>1, <1>12, WatchHandlerDoes
       DEF BaseInv, TurnInv, ProtocolInv, KeptInv, Alive, AuthTasks, DispatchTasks, Connection,
           Is, Alone
<1>13. ASSUME HeaderSent(c) PROVE KeptInv(c)'
    BY <1>1, <1>13, HeaderSentDoes
       DEF BaseInv, TurnInv, ProtocolInv, KeptInv, Alive, AuthTasks, DispatchTasks, Connection,
           Is, Ends, Moves, Turns, Alone
<1>14. ASSUME BodySent(c) PROVE KeptInv(c)'
    <2>1. (conn[c].request > 0 /\ ~conn[c].watching) \/ closed \/ conn[c].forced \/ peer[c].gone
        BY <1>1, <1>14, BodySentDoes DEF BaseInv, FreshInv, TurnInv, KeptInv, Connection
    <2>2. peer'[c].gone = peer[c].gone /\ closed' = closed
        BY <1>1, <1>14, BodySentDoes DEF PeerIs, Alone
    <2>3. \/ Ends(c) /\ closed
          \/ Awaits(c)
          \/ Moves(c, "sendHeader", "none")
          \/ Moves(c, "recvBody", conn[c].task)
        BY <1>1, <1>14, BodySentDoes
    <2>4. /\ conn'[c].open = conn[c].open /\ conn'[c].stored = conn[c].stored
          /\ conn'[c].watchQueued = conn[c].watchQueued /\ conn'[c].watching = conn[c].watching
          /\ conn'[c].forced = conn[c].forced
        BY <2>3 DEF Ends, Awaits, Moves, Turns, Is
    <2> QED
        BY <2>1, <2>2, <2>4 DEF KeptInv
<1>15. ASSUME SendFails(c) PROVE KeptInv(c)'
    BY <1>1, <1>15, SendFailsDoes
       DEF BaseInv, TurnInv, ProtocolInv, KeptInv, Alive, AuthTasks, DispatchTasks, Connection,
           Is, Ends, Moves, Turns, Drops, Alone
<1>16. ASSUME DoClose(c) PROVE KeptInv(c)'
    BY <1>1, <1>16, DoCloseDoes
       DEF BaseInv, TurnInv, ProtocolInv, KeptInv, Alive, AuthTasks, DispatchTasks, Connection,
           Is, Alone
<1> QED
    BY <1>2, <1>3, <1>4, <1>5, <1>6, <1>7, <1>8, <1>9,
       <1>10, <1>11, <1>12, <1>13, <1>14, <1>15, <1>16 DEF ConnStep, Handler, Dispatcher

(***************************************************************************)
(* The accepting thread and the thread that closes the server               *)
(***************************************************************************)

\* What changes is one connection, or what the accepting thread does with it.
LEMMA AroundKeeps ==
    ASSUME Inv, TypeOK', AcceptorInv', UNCHANGED <<closed, closer, peer>>, NEW c \in Conns,
           \A d \in Conns : d # c => conn'[d] = conn[d] /\ acceptor'.conn # d
    PROVE  /\ BaseInv(c)' => Inv'
           /\ (UsesAll /\ UsesInv(c)' /\ freed' = freed) => UsesAll'
           /\ (ProtocolAll /\ ProtocolInv(c)' /\ KeptInv(c)') => ProtocolAll'
<1>1. ASSUME NEW d \in Conns, d # c
      PROVE  /\ BaseInv(d) => BaseInv(d)'
             /\ UsesInv(d) => UsesInv(d)'
             /\ ProtocolInv(d) => ProtocolInv(d)'
             /\ KeptInv(d) => KeptInv(d)'
    BY <1>1, Frame
<1>2. BaseInv(c)' => Inv'
    BY <1>1 DEF Inv, CloserInv
<1>3. (UsesAll /\ UsesInv(c)' /\ freed' = freed) => UsesAll'
    BY <1>1 DEF UsesAll, NothingUsedAfterFree
<1>4. (ProtocolAll /\ ProtocolInv(c)' /\ KeptInv(c)') => ProtocolAll'
    BY <1>1 DEF ProtocolAll
<1> QED
    BY <1>2, <1>3, <1>4

LEMMA AcceptKeeps ==
    ASSUME Inv, NEW c \in Conns, Accept(c)
    PROVE  Inv' /\ (UsesAll => UsesAll') /\ (ProtocolAll => ProtocolAll')
<1>1. /\ UNCHANGED <<closed, closer, conn, peer, freed>> /\ conn[c].request = 0
      /\ \/ acceptor' = [does |-> "stopped", conn |-> Nobody]
         \/ acceptor' = [does |-> "register", conn |-> c]
    BY DEF Accept
<1>2. /\ acceptor'.does \in {"stopped", "register"} /\ acceptor'.conn \in {c, Nobody}
      /\ acceptor'.does = "register" => acceptor'.conn = c
      /\ acceptor' \in [does : {"accept", "register", "wait", "after", "next", "stopped"},
                        conn : Conns \cup {Nobody}]
    BY <1>1
<1>3. TypeOK' /\ AcceptorInv'
    BY <1>1, <1>2 DEF Inv, TypeOK, AcceptorInv
<1>4. \A d \in Conns : d # c => conn'[d] = conn[d] /\ acceptor'.conn # d
    BY <1>1, <1>2, ApiServerAssumption
<1>5. BaseInv(c) => BaseInv(c)'
    BY <1>1, <1>2 DEF BaseInv, FreshInv, AcceptedInv, TurnInv
<1>6. UsesInv(c) => UsesInv(c)'
    BY <1>1, <1>2 DEF UsesInv
<1>7. ProtocolInv(c) /\ KeptInv(c) => ProtocolInv(c)' /\ KeptInv(c)'
    BY <1>1 DEF ProtocolInv, KeptInv
<1> QED
    BY <1>1, <1>3, <1>4, <1>5, <1>6, <1>7, AroundKeeps DEF Inv, UsesAll, ProtocolAll

LEMMA RegisterKeeps ==
    ASSUME Inv, Register
    PROVE  Inv' /\ (UsesAll => UsesAll') /\ (ProtocolAll => ProtocolAll')
<1>1. PICK c : c = acceptor.conn
    OBVIOUS
<1>2. c \in Conns /\ acceptor.does = "register"
    BY <1>1 DEF Register, Inv, AcceptorInv
<1>3. PICK k : k = [conn[c] EXCEPT !.stored = TRUE]
    OBVIOUS
<1>4. Is(k, conn[c].op, conn[c].task, conn[c].watching, conn[c].watchQueued, TRUE,
         conn[c].closing, conn[c].open, conn[c].request, conn[c].parent, conn[c].forced)
    BY <1>2, <1>3, ConnTyped DEF Inv, Connection, Is
<1>5. /\ conn' = [conn EXCEPT ![c] = k] /\ UNCHANGED <<closed, closer, peer, freed>>
      /\ acceptor' = [acceptor EXCEPT !.does = "wait"]
    BY <1>1, <1>3 DEF Register
<1>6. /\ acceptor'.does = "wait" /\ acceptor'.conn = c
      /\ acceptor' \in [does : {"accept", "register", "wait", "after", "next", "stopped"},
                        conn : Conns \cup {Nobody}]
    BY <1>1, <1>2, <1>5 DEF Inv, TypeOK
<1>7. TypeOK' /\ AcceptorInv' /\ conn'[c] = k
    BY <1>2, <1>4, <1>5, <1>6 DEF Inv, TypeOK, AcceptorInv, Is
<1>8. \A d \in Conns : d # c => conn'[d] = conn[d] /\ acceptor'.conn # d
    BY <1>5, <1>6 DEF Inv, TypeOK
<1>9. BaseInv(c) => BaseInv(c)'
    BY <1>1, <1>2, <1>4, <1>5, <1>6, <1>7 DEF BaseInv, FreshInv, AcceptedInv, TurnInv, Is
<1>10. UsesInv(c) => UsesInv(c)'
    BY <1>4, <1>5, <1>6, <1>7 DEF UsesInv, Is
<1>11. ProtocolInv(c) /\ KeptInv(c) => ProtocolInv(c)' /\ KeptInv(c)'
    BY <1>4, <1>5, <1>7 DEF ProtocolInv, KeptInv, Is
<1> QED
    BY <1>2, <1>5, <1>7, <1>8, <1>9, <1>10, <1>11, AroundKeeps DEF Inv, UsesAll, ProtocolAll

LEMMA FirstWaitKeeps ==
    ASSUME Inv, FirstWait
    PROVE  Inv' /\ (UsesAll => UsesAll') /\ (ProtocolAll => ProtocolAll')
<1>1. PICK c : c = acceptor.conn
    OBVIOUS
<1>2. c \in Conns /\ acceptor.does = "wait" /\ BaseInv(c) /\ conn[c] \in Connection
    BY <1>1, ConnTyped DEF FirstWait, Inv, AcceptorInv
<1>3. /\ conn[c].request = 0 /\ conn[c].op = "none" /\ conn[c].task = "none"
      /\ ~conn[c].watching /\ conn[c].watchQueued = 0 /\ (closed \/ conn[c].stored)
      /\ peer[c].sent = peer[c].finished /\ peer[c].bytes = <<>>
    BY <1>1, <1>2 DEF BaseInv, FreshInv, AcceptedInv
<1>4. PICK k : k = WaitForRequest(conn[c])
    OBVIOUS
<1>5. /\ closed => Is(k, "none", "none", conn[c].watching, conn[c].watchQueued, conn[c].stored,
                      conn[c].closing, conn[c].open, conn[c].request, conn[c].parent,
                      conn[c].forced)
      /\ ~closed => Is(k, "recvHeader", "none", conn[c].watching, conn[c].watchQueued,
                       conn[c].stored, conn[c].closing, conn[c].open, conn[c].request + 1,
                       conn[c].request + 1, conn[c].forced)
    BY <1>2, <1>3, <1>4, WaitForRequestIs
<1>6. /\ conn' = [conn EXCEPT ![c] = k] /\ UNCHANGED <<closed, closer, peer, freed>>
      /\ acceptor' = [acceptor EXCEPT !.does = IF closed THEN "next" ELSE "after"]
    BY <1>1, <1>4 DEF FirstWait, Becomes
<1>7. /\ acceptor'.does = (IF closed THEN "next" ELSE "after") /\ acceptor'.conn = c
      /\ acceptor' \in [does : {"accept", "register", "wait", "after", "next", "stopped"},
                        conn : Conns \cup {Nobody}]
    BY <1>1, <1>2, <1>6 DEF Inv, TypeOK
<1>8. TypeOK' /\ AcceptorInv' /\ conn'[c] = k
    BY <1>2, <1>5, <1>6, <1>7 DEF Inv, TypeOK, AcceptorInv, Is
<1>9. \A d \in Conns : d # c => conn'[d] = conn[d] /\ acceptor'.conn # d
    BY <1>6, <1>7 DEF Inv, TypeOK
<1>10. FreshInv(c)' /\ AcceptedInv(c)' /\ TurnInv(c)'
    BY <1>2, <1>3, <1>5, <1>6, <1>7, <1>8 DEF BaseInv, FreshInv, AcceptedInv, TurnInv, Is
<1>11. UsesInv(c)'
    BY <1>3, <1>5, <1>6, <1>7, <1>8 DEF UsesInv, Is, AuthTasks
<1>12. ProtocolInv(c)'
    BY <1>3, <1>5, <1>6, <1>8 DEF ProtocolInv, Is
<1>13. KeptInv(c) => KeptInv(c)'
    BY <1>3, <1>5, <1>6, <1>8 DEF KeptInv, Is
<1> QED
    BY <1>2, <1>6, <1>8, <1>9, <1>10, <1>11, <1>12, <1>13, AroundKeeps
       DEF BaseInv, UsesAll, ProtocolAll

\* The accepting thread goes on; the first request still has its owner.
LEMMA AcceptorGoesOn ==
    ASSUME Inv, FirstWaitEnds \/ AcceptNext \/ CloseNetworkServer
    PROVE  Inv' /\ (UsesAll => UsesAll') /\ (ProtocolAll => ProtocolAll')
<1>1. UNCHANGED <<closed, conn, peer>> /\ TypeOK /\ (closer' = closer \/ closed)
    BY DEF FirstWaitEnds, AcceptNext, CloseNetworkServer, Inv, CloserInv
<1>2. /\ acceptor' \in [does : {"accept", "register", "wait", "after", "next", "stopped"},
                        conn : Conns \cup {Nobody}]
      /\ \/ acceptor' = acceptor
         \/ /\ acceptor'.does \in {"next", "accept", "stopped"}
            /\ acceptor'.does = "next" => acceptor.does = "after" /\ acceptor'.conn = acceptor.conn
    <2>1. CASE FirstWaitEnds
        BY <1>1, <2>1 DEF FirstWaitEnds, TypeOK
    <2>2. CASE AcceptNext
        BY <1>1, <2>2 DEF AcceptNext, TypeOK
    <2>3. CASE CloseNetworkServer
        BY <1>1, <2>3 DEF CloseNetworkServer, TypeOK
    <2> QED
        BY <2>1, <2>2, <2>3
<1>3. /\ freed' \subseteq {"connection", "request"}
      /\ closer' \in {"none", "flagged", "cleared", "done"}
    BY <1>1 DEF FirstWaitEnds, AcceptNext, CloseNetworkServer, TypeOK
<1>4. TypeOK' /\ CloserInv'
    BY <1>1, <1>2, <1>3 DEF Inv, TypeOK, CloserInv
<1>5. AcceptorInv'
    BY <1>2 DEF Inv, AcceptorInv
<1>6. ASSUME NEW c \in Conns
      PROVE  /\ BaseInv(c) => BaseInv(c)'
             /\ UsesInv(c) => UsesInv(c)'
             /\ ProtocolInv(c) => ProtocolInv(c)'
             /\ KeptInv(c) => KeptInv(c)'
    <2>1. CASE acceptor' = acceptor
        BY <1>1, <2>1, Frame
    <2>2. CASE acceptor'.does \in {"next", "accept", "stopped"}
        <3>1. BaseInv(c) => BaseInv(c)'
            BY <1>1, <2>2 DEF BaseInv, FreshInv, AcceptedInv, TurnInv
        <3>2. UsesInv(c) => UsesInv(c)'
            BY <1>1, <2>2 DEF UsesInv
        <3>3. ProtocolInv(c) => ProtocolInv(c)'
            BY <1>1 DEF ProtocolInv
        <3>4. KeptInv(c) => KeptInv(c)'
            BY <1>1 DEF KeptInv
        <3> QED
            BY <3>1, <3>2, <3>3, <3>4
    <2> QED
        BY <1>2, <2>1, <2>2
<1>7. UsesAll => freed' = freed
    <2> SUFFICES ASSUME UsesAll PROVE freed' = freed
        OBVIOUS
    <2>1. CASE FirstWaitEnds
        <3>1. acceptor.does = "after" /\ acceptor.conn \in Conns
            BY <2>1 DEF FirstWaitEnds, Inv, AcceptorInv
        <3>2. conn[acceptor.conn].parent = 1
            BY <3>1 DEF UsesAll, UsesInv
        <3> QED
            BY <2>1, <3>2 DEF FirstWaitEnds, FirstRequestAlive
    <2>2. CASE AcceptNext \/ CloseNetworkServer
        BY <2>2 DEF AcceptNext, CloseNetworkServer
    <2> QED
        BY <2>1, <2>2
<1>8. Inv'
    BY <1>4, <1>5, <1>6 DEF Inv
<1>9. UsesAll => UsesAll'
    BY <1>6, <1>7 DEF UsesAll, NothingUsedAfterFree
<1>10. ProtocolAll => ProtocolAll'
    BY <1>6 DEF ProtocolAll
<1> QED
    BY <1>8, <1>9, <1>10

\* From then on the server is closed, and nothing is promised of connections.
LEMMA CloseKeeps ==
    ASSUME Inv, CloseServer \/ Clear
    PROVE  Inv' /\ (UsesAll => UsesAll') /\ (ProtocolAll => ProtocolAll')
<1>1. UNCHANGED <<acceptor, peer, freed>> /\ closed' /\ TypeOK
    BY DEF CloseServer, Clear, Inv, CloserInv
<1>2. /\ conn' \in [Conns -> Connection]
      /\ \A c \in Conns : /\ conn'[c].op = conn[c].op /\ conn'[c].task = conn[c].task
                          /\ conn'[c].watching = conn[c].watching
                          /\ conn'[c].watchQueued = conn[c].watchQueued
                          /\ conn'[c].request = conn[c].request
                          /\ conn'[c].parent = conn[c].parent
    <2>1. CASE CloseServer
        BY <1>1, <2>1 DEF CloseServer, TypeOK
    <2>2. CASE Clear
        <3>1. ASSUME NEW c \in Conns, NEW k, k = [conn[c] EXCEPT !.closing = @ \/ conn[c].stored,
                                                                !.stored = FALSE]
              PROVE  /\ k \in Connection
                     /\ k.op = conn[c].op /\ k.task = conn[c].task
                     /\ k.watching = conn[c].watching /\ k.watchQueued = conn[c].watchQueued
                     /\ k.request = conn[c].request /\ k.parent = conn[c].parent
            <4>1. PICK b \in BOOLEAN : k = [conn[c] EXCEPT !.closing = b, !.stored = FALSE]
                BY <3>1
            <4> QED
                BY <1>1, <4>1, ConnTyped DEF Connection
        <3>2. \A c \in Conns : conn'[c] = [conn[c] EXCEPT !.closing = @ \/ conn[c].stored,
                                                          !.stored = FALSE]
            BY <2>2 DEF Clear
        <3>3. conn' = [c \in Conns |-> conn'[c]]
            BY <2>2 DEF Clear
        <3>4. ASSUME NEW c \in Conns
              PROVE  /\ conn'[c] \in Connection
                     /\ conn'[c].op = conn[c].op /\ conn'[c].task = conn[c].task
                     /\ conn'[c].watching = conn[c].watching
                     /\ conn'[c].watchQueued = conn[c].watchQueued
                     /\ conn'[c].request = conn[c].request
                     /\ conn'[c].parent = conn[c].parent
            <4>1. conn'[c] = [conn[c] EXCEPT !.closing = @ \/ conn[c].stored, !.stored = FALSE]
                BY <3>2
            <4> QED
                BY <3>1, <4>1
        <3> QED
            BY <3>3, <3>4
    <2> QED
        BY <2>1, <2>2
<1>3. closer' \in {"none", "flagged", "cleared", "done"} /\ closed' \in BOOLEAN
    BY DEF CloseServer, Clear, Inv, TypeOK
<1>4. TypeOK' /\ CloserInv' /\ AcceptorInv'
    BY <1>1, <1>2, <1>3 DEF Inv, TypeOK, CloserInv, AcceptorInv
<1>5. ASSUME NEW c \in Conns
      PROVE  /\ BaseInv(c) => BaseInv(c)'
             /\ UsesInv(c) => UsesInv(c)'
             /\ ProtocolInv(c) => ProtocolInv(c)'
             /\ KeptInv(c)'
    <2>1. BaseInv(c) => BaseInv(c)'
        BY <1>1, <1>2 DEF BaseInv, FreshInv, AcceptedInv, TurnInv
    <2>2. UsesInv(c) => UsesInv(c)'
        BY <1>1, <1>2 DEF UsesInv
    <2>3. ProtocolInv(c) => ProtocolInv(c)'
        BY <1>1, <1>2 DEF ProtocolInv
    <2>4. KeptInv(c)'
        BY <1>1 DEF KeptInv
    <2> QED
        BY <2>1, <2>2, <2>3, <2>4
<1>6. Inv'
    BY <1>4, <1>5 DEF Inv
<1>7. UsesAll => UsesAll'
    BY <1>1, <1>5 DEF UsesAll, NothingUsedAfterFree
<1>8. ProtocolAll => ProtocolAll'
    BY <1>5 DEF ProtocolAll
<1> QED
    BY <1>6, <1>7, <1>8

LEMMA StutterKeeps ==
    ASSUME Inv, UNCHANGED vars
    PROVE  Inv' /\ (UsesAll => UsesAll') /\ (ProtocolAll => ProtocolAll')
<1>1. UNCHANGED <<closed, closer, acceptor, conn, peer, freed>>
    BY DEF vars
<1>2. Inv'
    BY <1>1 DEF Inv, TypeOK, CloserInv, AcceptorInv, BaseInv, FreshInv, AcceptedInv, TurnInv
<1>3. UsesAll => UsesAll'
    BY <1>1 DEF UsesAll, UsesInv, NothingUsedAfterFree
<1>4. ProtocolAll => ProtocolAll'
    BY <1>1 DEF ProtocolAll, ProtocolInv, KeptInv
<1> QED
    BY <1>2, <1>3, <1>4

(***************************************************************************)
(* Theorems                                                                 *)
(***************************************************************************)

LEMMA InitHolds == Init => Inv /\ UsesAll /\ ProtocolAll
<1> SUFFICES ASSUME Init PROVE Inv /\ UsesAll /\ ProtocolAll
    OBVIOUS
<1>1. NewConnection \in Connection /\ NewPeer \in Peer
    <2>1. <<>> \in Seq(Part)
        OBVIOUS
    <2> QED
        BY <2>1 DEF NewConnection, Connection, NewPeer, Peer
<1>2. TypeOK /\ CloserInv /\ AcceptorInv
    BY <1>1 DEF Init, TypeOK, CloserInv, AcceptorInv
<1>3. ASSUME NEW c \in Conns PROVE BaseInv(c) /\ UsesInv(c) /\ ProtocolInv(c) /\ KeptInv(c)
    <2>1. /\ conn[c].op = "none" /\ conn[c].task = "none" /\ conn[c].watching = FALSE
          /\ conn[c].watchQueued = 0 /\ conn[c].closing = FALSE /\ conn[c].open = TRUE
          /\ conn[c].request = 0 /\ peer[c].sent = 0 /\ peer[c].finished = 0
          /\ peer[c].bytes = <<>> /\ acceptor.does = "accept"
        BY DEF Init, NewConnection, NewPeer
    <2>2. BaseInv(c)
        BY <2>1 DEF BaseInv, FreshInv, AcceptedInv, TurnInv
    <2>3. UsesInv(c) /\ ProtocolInv(c)
        BY <2>1 DEF UsesInv, ProtocolInv, AuthTasks
    <2>4. KeptInv(c)
        BY <2>1 DEF KeptInv
    <2> QED
        BY <2>2, <2>3, <2>4
<1>4. NothingUsedAfterFree
    BY DEF Init, NothingUsedAfterFree
<1> QED
    BY <1>2, <1>3, <1>4 DEF Inv, UsesAll, ProtocolAll

\* A step is one of a connection, of the accepting thread or of the closing one.
LEMMA Steps ==
    ASSUME [Next]_vars
    PROVE  \/ \E c \in Conns : ConnStep(c) \/ Accept(c)
           \/ Register \/ FirstWait
           \/ FirstWaitEnds \/ AcceptNext \/ CloseNetworkServer
           \/ CloseServer \/ Clear \/ UNCHANGED vars
BY DEF Next, ConnStep, Acceptor

LEMMA InvPreserved == Inv /\ [Next]_vars => Inv'
BY Steps, StepKeepsInv, AcceptKeeps, RegisterKeeps, FirstWaitKeeps, AcceptorGoesOn, CloseKeeps,
   StutterKeeps

LEMMA UsesPreserved ==
    ASSUME "lostInAuth" \in Avoided, "earlyHandler" \in Avoided, Inv, UsesAll, [Next]_vars
    PROVE  UsesAll'
<1>1. ASSUME NEW c \in Conns, ConnStep(c) PROVE UsesAll'
    <2>1. UsesInv(c)
        BY DEF UsesAll
    <2>2. UsesInv(c)' /\ freed' = freed
        BY <1>1, <2>1, UsesStep
    <2> QED
        BY <1>1, <2>2, StepIsAlone, AloneKeeps
<1> QED
    BY <1>1, Steps, AcceptKeeps, RegisterKeeps, FirstWaitKeeps, AcceptorGoesOn, CloseKeeps,
       StutterKeeps

LEMMA ProtocolPreserved ==
    ASSUME "pipelining" \in Avoided, "unreadBody" \in Avoided, Inv, ProtocolAll, [Next]_vars
    PROVE  ProtocolAll'
<1>1. ASSUME NEW c \in Conns, ConnStep(c) PROVE ProtocolAll'
    <2>1. ProtocolInv(c) /\ KeptInv(c)
        BY DEF ProtocolAll
    <2>2. ProtocolInv(c)' /\ KeptInv(c)'
        BY <1>1, <2>1, ProtocolStep, KeptStep
    <2> QED
        BY <1>1, <2>2, StepIsAlone, AloneKeeps
<1> QED
    BY <1>1, Steps, AcceptKeeps, RegisterKeeps, FirstWaitKeeps, AcceptorGoesOn, CloseKeeps,
       StutterKeeps

\* Every variable keeps its type, whatever irregular behaviour there is.
THEOREM TypeCorrect == Spec => []TypeOK
<1>1. Init => Inv
    BY InitHolds
<1>2. Inv /\ [Next]_vars => Inv'
    BY InvPreserved
<1>3. Inv => TypeOK
    BY DEF Inv
<1> QED
    BY <1>1, <1>2, <1>3, PTL DEF Spec

\* No connection or request is used after it was freed, unless a peer is lost
\* while its request is authenticated, or a handler of a connection runs while
\* waitForRequest is not yet over (server.h: the callbacks of authRequest and
\* waitForRequest go on with what they captured).
THEOREM NothingIsUsedAfterFree ==
    ASSUME "lostInAuth" \in Avoided, "earlyHandler" \in Avoided
    PROVE  Spec => []NothingUsedAfterFree
<1>1. Init => Inv /\ UsesAll
    BY InitHolds
<1>2. Inv /\ UsesAll /\ [Next]_vars => Inv' /\ UsesAll'
    BY InvPreserved, UsesPreserved
<1>3. UsesAll => NothingUsedAfterFree
    BY DEF UsesAll
<1> QED
    BY <1>1, <1>2, <1>3, PTL DEF Spec

\* Neither property of the protocol needs more than clients that wait for the
\* response before they send the next request and send none that is too big.
THEOREM ProtocolInvariant ==
    ASSUME "pipelining" \in Avoided, "unreadBody" \in Avoided
    PROVE  Spec => [](Inv /\ ProtocolAll)
<1>1. Init => Inv /\ ProtocolAll
    BY InitHolds
<1>2. Inv /\ ProtocolAll /\ [Next]_vars => Inv' /\ ProtocolAll'
    BY InvPreserved, ProtocolPreserved
<1> QED
    BY <1>1, <1>2, PTL DEF Spec

\* A client that waits for its responses and stays is kept: the watch of its
\* connection (watchConnection) takes nothing for the loss of the peer.
THEOREM PatientClientsStay ==
    ASSUME "pipelining" \in Avoided, "unreadBody" \in Avoided
    PROVE  Spec => []PatientClientsAreKept
<1>1. Inv /\ ProtocolAll => PatientClientsAreKept
    BY DEF ProtocolAll, KeptInv, PatientClientsAreKept
<1> QED
    BY <1>1, ProtocolInvariant, PTL

\* A header is read where a message begins (recvRequest reads a header, then as
\* many bytes as it says).
THEOREM HeadersAreHeaders ==
    ASSUME "pipelining" \in Avoided, "unreadBody" \in Avoided
    PROVE  Spec => []HeadersBeginMessages
<1>1. Inv /\ ProtocolAll => HeadersBeginMessages
    BY PartsAre DEF ProtocolAll, ProtocolInv, HeadersBeginMessages
<1> QED
    BY <1>1, ProtocolInvariant, PTL

=============================================================================
