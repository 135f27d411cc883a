-------------------------- MODULE ClientLifecycle --------------------------
(***************************************************************************)
(* The mobile lifecycle of hatn::api::client::Client over GrpcTransport:    *)
(* suspend, resume, reconnect, updateNetworkState, updateForegroundState    *)
(* and close.  Each call changes a flag in the caller's thread and posts a  *)
(* handler to the client's thread, where the transport's channels are       *)
(* destroyed, rebuilt or marked.                                            *)
(*                                                                          *)
(* The application calls suspend, resume and close.  Network events come    *)
(* from elsewhere; when they come from another thread, their test of        *)
(* m_suspended and what follows it are separate steps.  All PriorityChannel *)
(* objects of the transport are treated alike and are one channel here.     *)
(***************************************************************************)
EXTENDS Naturals, Sequences

CONSTANTS
    NetworkThread, \* network events come from a thread of their own
    MaxCalls       \* bound: calls of all operations together

ASSUME ClientLifecycleAssumption ==
    /\ NetworkThread \in BOOLEAN
    /\ MaxCalls \in Nat

VARIABLES
    m_closed, m_networkDisconnected, m_suspended,
    netCall,      \* the network call that has passed its guard, or "none"
    handlers,     \* handlers posted to the client's thread
    channel,      \* the grpc::Channel and its stub exist
    channelDisconnected,  \* PriorityChannel::disconnected
    background,   \* history: the application's last call was suspend
    overtaken,    \* history: that suspend overtook a resume or a network call
    calls

flags == <<m_closed, m_networkDisconnected, m_suspended>>
vars == <<flags, netCall, handlers, channel, channelDisconnected, background, overtaken, calls>>

NetCalls == {"netUp", "netDown", "reconnect", "foreground"}
AppCalls == {"suspend", "resume", "close"}

SetOf(s) == {s[i] : i \in DOMAIN s}

LifecycleInit ==
    /\ m_closed = FALSE /\ m_networkDisconnected = FALSE /\ m_suspended = FALSE
    /\ netCall = "none"
    /\ handlers = <<>>
    /\ channel = TRUE /\ channelDisconnected = FALSE
    /\ background = FALSE /\ overtaken = FALSE
    /\ calls = 0

-----------------------------------------------------------------------------
(* Calls                                                                    *)

CountCall == calls < MaxCalls /\ calls' = calls + 1

\* Whether the application may call now.
AppReady == NetworkThread \/ netCall = "none"

Suspend ==
    /\ AppReady /\ CountCall
    /\ m_suspended' = TRUE
    /\ background' = TRUE
    /\ overtaken' = ("resume" \in SetOf(handlers) \/ netCall # "none")
    /\ handlers' = Append(handlers, "suspend")
    /\ UNCHANGED <<m_closed, m_networkDisconnected, netCall, channel, channelDisconnected>>

Resume ==
    /\ AppReady /\ CountCall
    /\ background' = FALSE
    /\ handlers' = Append(handlers, "resume")
    /\ UNCHANGED <<flags, netCall, channel, channelDisconnected, overtaken>>

Close ==
    /\ AppReady /\ CountCall
    /\ m_closed' = TRUE
    /\ handlers' = Append(handlers, "close")
    /\ UNCHANGED <<m_networkDisconnected, m_suspended, netCall, channel, channelDisconnected,
                   background, overtaken>>

\* Variant with a bug: reconnect() does not ask whether the client is suspended.
NetGuardReconnects(c) ==
    /\ netCall = "none" /\ CountCall
    /\ c = "reconnect" \/ ~m_suspended
    /\ c = "foreground" => ~m_networkDisconnected
    /\ netCall' = c
    /\ UNCHANGED <<flags, handlers, channel, channelDisconnected, background, overtaken>>

\* The guard of a network call: all are ignored while suspended, and
\* updateForegroundState also while the network is down.
NetGuard(c) ==
    /\ netCall = "none" /\ CountCall
    /\ ~m_suspended
    /\ c = "foreground" => ~m_networkDisconnected
    /\ netCall' = c
    /\ UNCHANGED <<flags, handlers, channel, channelDisconnected, background, overtaken>>

NetPost ==
    /\ netCall # "none"
    /\ m_networkDisconnected' = CASE netCall = "netDown" -> TRUE
                                  [] netCall \in {"netUp", "reconnect"} -> FALSE
                                  [] OTHER -> m_networkDisconnected
    /\ handlers' = Append(handlers, netCall)
    /\ netCall' = "none"
    /\ UNCHANGED <<m_closed, m_suspended, channel, channelDisconnected, background, overtaken,
                   calls>>

-----------------------------------------------------------------------------
(* Handlers on the client's thread                                          *)

Run(h) == handlers # <<>> /\ Head(handlers) = h /\ handlers' = Tail(handlers)

closeChannels == channel' = FALSE /\ channelDisconnected' = TRUE
initChannels  == channel' = TRUE /\ channelDisconnected' = FALSE

SuspendHandler ==
    /\ Run("suspend")
    /\ IF m_closed THEN UNCHANGED <<channel, channelDisconnected>> ELSE closeChannels
    /\ UNCHANGED <<flags, netCall, background, overtaken, calls>>

\* Variant with a bug: the guard is not lifted.
ResumeHandlerStaysSuspended ==
    /\ Run("resume")
    /\ IF m_closed THEN UNCHANGED <<channel, channelDisconnected>> ELSE initChannels
    /\ UNCHANGED <<flags, netCall, background, overtaken, calls>>

\* The guard is lifted after the channels have been rebuilt.
ResumeHandler ==
    /\ Run("resume")
    /\ IF m_closed
       THEN UNCHANGED <<channel, channelDisconnected, m_suspended>>
       ELSE initChannels /\ m_suspended' = FALSE
    /\ UNCHANGED <<m_closed, m_networkDisconnected, netCall, background, overtaken, calls>>

\* GrpcTransport::reconnect closes the channels and creates them anew.
ReconnectHandler ==
    /\ Run("reconnect")
    /\ IF m_closed THEN UNCHANGED <<channel, channelDisconnected>> ELSE initChannels
    /\ UNCHANGED <<flags, netCall, background, overtaken, calls>>

\* PriorityChannel::updateNetworkState; updateForegroundState is its FALSE case.
NetworkHandler ==
    /\ \/ Run("netDown") /\ channelDisconnected' = IF m_closed THEN channelDisconnected ELSE TRUE
       \/ /\ Run("netUp") \/ Run("foreground")
          /\ channelDisconnected' = IF m_closed THEN channelDisconnected ELSE FALSE
    /\ UNCHANGED <<flags, netCall, channel, background, overtaken, calls>>

CloseHandler ==
    /\ Run("close")
    /\ closeChannels
    /\ UNCHANGED <<flags, netCall, background, overtaken, calls>>

HandlerStep ==
    SuspendHandler \/ ResumeHandler \/ ReconnectHandler \/ NetworkHandler \/ CloseHandler

LifecycleNext ==
    \/ Suspend \/ Resume \/ Close
    \/ \E c \in NetCalls : NetGuard(c)
    \/ NetPost
    \/ HandlerStep

Spec == LifecycleInit /\ [][LifecycleNext]_vars

\* A call in progress ends, and the client's thread serves its handlers.
FairSpec == Spec /\ WF_vars(NetPost) /\ WF_vars(HandlerStep)

-----------------------------------------------------------------------------
(* Properties                                                               *)

\* Every variable keeps its type.
LifecycleTypeOK ==
    /\ m_closed \in BOOLEAN /\ m_networkDisconnected \in BOOLEAN /\ m_suspended \in BOOLEAN
    /\ netCall \in NetCalls \cup {"none"}
    /\ handlers \in Seq(NetCalls \cup AppCalls)
    /\ channel \in BOOLEAN /\ channelDisconnected \in BOOLEAN
    /\ background \in BOOLEAN /\ overtaken \in BOOLEAN
    /\ calls \in Nat

\* While the application is in the background, and its suspend() has been
\* carried out, there is no channel: reconnect() and updateNetworkState()
\* triggered by unrelated events cannot silently re-open a connection.
NoConnectionInBackground ==
    background /\ "suspend" \notin SetOf(handlers) => ~channel \/ m_closed

\* The guard of m_suspended, which lives in the callers' threads, fails only
\* for a suspend() that was called while the handler of a resume() was
\* pending or a network call had passed the guard already; any other
\* suspend() keeps the channel closed until the next resume().  Nor is the
\* channel re-opened by what was posted before or after close().
GuardHoldsUnlessOvertaken ==
    /\ overtaken \/ NoConnectionInBackground
    /\ m_closed /\ "close" \notin SetOf(handlers) => ~channel

\* A client that stays in the foreground gets its channel back and listens
\* to network events again, however calls and handlers interleaved before.
ForegroundRecovers ==
    <>[](~background /\ ~m_closed) => <>[](channel /\ ~m_suspended)

=============================================================================
