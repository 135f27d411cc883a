---------------------------- MODULE MCApiClient ----------------------------
(* Instance of ApiClient for TLC.                                           *)
EXTENDS ApiClient, TLC

CONSTANTS r1, r2, s1

\* All requests share one session and a priority below the highest one,
\* which is exempt from the queue limit.
SamePriority == [r \in Requests |-> Priorities]
SameSession  == [r \in Requests |-> s1]
============================================================================
