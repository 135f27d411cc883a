---------------------------- MODULE ApiRequests ----------------------------
(***************************************************************************)
(* What an API client promises to those who execute requests: a request is  *)
(* called back at most once, and it is let go without a call only if its    *)
(* caller cancelled it or the client was closed.                            *)
(***************************************************************************)
CONSTANT Requests

VARIABLES
    status,    \* of each request
    cancelled, \* requests whose caller lost interest
    closed     \* the client was closed

Status == {"new", "pending", "answered", "dropped"}

Init ==
    /\ status = [r \in Requests |-> "new"]
    /\ cancelled = {}
    /\ closed = FALSE

Submit(r) ==
    /\ status[r] = "new"
    /\ status' = [status EXCEPT ![r] = "pending"]
    /\ UNCHANGED <<cancelled, closed>>

\* One step of the client may settle many requests.
Settle(answered, dropped) ==
    /\ answered \cap dropped = {}
    /\ \A r \in answered \cup dropped : status[r] = "pending"
    /\ closed \/ dropped \subseteq cancelled
    /\ status' = [r \in Requests |-> CASE r \in answered -> "answered"
                                       [] r \in dropped -> "dropped"
                                       [] OTHER -> status[r]]
    /\ UNCHANGED <<cancelled, closed>>

Cancel(r) ==
    /\ cancelled' = cancelled \cup {r}
    /\ UNCHANGED <<status, closed>>

Close ==
    /\ closed' = TRUE
    /\ UNCHANGED <<status, cancelled>>

Next ==
    \/ \E r \in Requests : Submit(r) \/ Cancel(r)
    \/ \E answered, dropped \in SUBSET Requests : Settle(answered, dropped)
    \/ Close

Spec == Init /\ [][Next]_<<status, cancelled, closed>>
=============================================================================
