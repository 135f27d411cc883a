----------------------------- MODULE CaResolver -----------------------------
(***************************************************************************)
(* CaResolver (network/src/asio/caresolver.cpp): resolves a host name, the *)
(* targets of a service (SRV) or of a mail domain (MX) into endpoints.     *)
(* A query is a little state machine: each step is a task posted to the    *)
(* resolver's thread, or a question put to c-ares whose answer comes back  *)
(* through queryCb.  The names a SRV or MX answer gives (intermediate      *)
(* endpoints) are resolved one after another within the same query.        *)
(*                                                                         *)
(* c-ares is external: it answers what the zone says or fails, and calls   *)
(* back every question at once when it is cancelled.  An address is the    *)
(* name it was found under and its family.                                 *)
(***************************************************************************)
EXTENDS Naturals, Sequences, SequencesExt, FiniteSets

CONSTANTS Queries,       \* the queries made
          IpVersion,     \* for each query: the families asked for
          Target, Port,  \* the host and port resolveName is called with
          Hosts,         \* host names
          Zones,         \* what the hosts file and the name servers know
          MaxFailures    \* bound: questions that time out or are refused

Families == {"v4", "v6"}

ASSUME ResolverAssumption ==
    /\ \A q \in Queries : IpVersion[q] \subseteq Families /\ IpVersion[q] # {}
    /\ MaxFailures \in Nat

VARIABLES zone,      \* [file, dns: Hosts -> SUBSET Families, service, mx: records]
          query,     \* the Query objects
          place,     \* where a query is: with its "caller", "posted" to the
                     \* resolver's thread, "asked" of c-ares, or "over"
          tasks,     \* queries posted to the resolver's thread
          gone,      \* queries whose task context was destroyed
          cancel,    \* CaResolverTraits_p::cancel
          result,    \* for each query the sequence of calls of its callback
          failures

resolverVars == <<zone, query, place, tasks, gone, cancel, result, failures>>

NewQuery(kind) ==
    [kind |-> kind,
     step |-> CASE kind = "service" -> "RecordSRV"
                [] kind = "mx" -> "RecordMX"
                [] OTHER -> "LocalFile",
     name |-> IF kind = "name" THEN Target ELSE "domain",
     port |-> IF kind = "name" THEN Port ELSE 0,
     endpoints |-> <<>>, intermediate |-> <<>>, lastError |-> "none", ref |-> TRUE]

\* addEndpoint
AddEndpoint(d, host, family, port) ==
    LET ep == [host |-> host, family |-> family, port |-> port]
    IN  IF Contains(d.endpoints, ep) THEN d ELSE [d EXCEPT !.endpoints = Append(@, ep)]

AddAddress(d, families, family) ==
    IF family \in families THEN AddEndpoint(d, d.name, family, d.port) ELSE d

----------------------------------------------------------------------------
(* What a step does: the query after it and where it goes, and how its     *)
(* callback is called.                                                     *)

Aborted == [err |-> "aborted", endpoints |-> <<>>]

Ended(d, calls) == [d |-> [d EXCEPT !.ref = FALSE], to |-> "over", calls |-> calls]

\* processQuery, the end of each step: nothing is done for a caller whose
\* context is gone.
ProcessQuery(q, d) ==
    CASE q \in gone -> Ended(d, <<>>)
      [] q \notin gone /\ cancel -> Ended(d, <<Aborted>>)
      [] OTHER -> [d |-> d, to |-> "posted", calls |-> <<>>]

Apply(q, outcome, posted) ==
    /\ query' = [query EXCEPT ![q] = outcome.d]
    /\ place' = [place EXCEPT ![q] = outcome.to]
    /\ tasks' = IF outcome.to = "posted" THEN Append(posted, q) ELSE posted
    /\ result' = [result EXCEPT ![q] = @ \o outcome.calls]

\* resolveName, resolveService, resolveMx: from any thread.
Resolve(q) ==
    /\ place[q] = "caller" /\ q \notin gone
    /\ \E kind \in {"name", "service", "mx"} : Apply(q, ProcessQuery(q, NewQuery(kind)), tasks)
    /\ UNCHANGED <<zone, gone, cancel, failures>>

----------------------------------------------------------------------------
(* processQueryAsync: a posted task runs in the resolver's thread.         *)

\* The hosts file is looked up for both families at once; what it knows
\* ends the query.
StepLocalFile(q, d) ==
    LET found == zone.file[d.name] \cap IpVersion[q]
        d4 == AddAddress(d, found, "v4")
    IN  [AddAddress(d4, found, "v6") EXCEPT !.step = IF found # {} THEN "Done" ELSE "RecordA"]

\* A bug: the next name is looked up with the port of the one before.
StepNextKeepsPort(d) ==
    IF d.intermediate # <<>>
    THEN [d EXCEPT !.name = Last(d.intermediate).host, !.intermediate = Front(@), !.step = "RecordA"]
    ELSE [d EXCEPT !.step = "Done"]

\* The next of the names an SRV or MX answer gave, taken from the back.
StepNext(d) ==
    IF d.intermediate # <<>>
    THEN [d EXCEPT !.name = Last(d.intermediate).host, !.port = Last(d.intermediate).port,
                   !.intermediate = Front(@), !.step = "RecordA"]
    ELSE [d EXCEPT !.step = "Done"]

\* The query is done: an error counts only if nothing was found.
StepDone(d) ==
    Ended(d, <<[err |-> IF d.endpoints = <<>> THEN d.lastError ELSE "none",
                endpoints |-> d.endpoints]>>)

\* ares_query: the question is with c-ares now.
AresQuery(d) == [d |-> d, to |-> "asked", calls |-> <<>>]

StepOutcome(q, d) ==
    CASE d.step = "LocalFile" -> ProcessQuery(q, StepLocalFile(q, d))
      [] d.step = "RecordA" /\ "v4" \notin IpVersion[q] ->
            ProcessQuery(q, [d EXCEPT !.step = "RecordAAAA"])
      [] d.step = "RecordAAAA" /\ "v6" \notin IpVersion[q] ->
            ProcessQuery(q, [d EXCEPT !.step = "Next"])
      [] d.step = "Next" -> ProcessQuery(q, StepNext(d))
      [] d.step = "Done" -> StepDone(d)
      [] OTHER -> AresQuery(d)

ProcessQueryAsync ==
    /\ tasks # <<>>
    /\ LET q == Head(tasks)
           outcome == CASE q \in gone -> Ended(query[q], <<>>)
                        [] q \notin gone /\ cancel -> Ended(query[q], <<Aborted>>)
                        [] OTHER -> StepOutcome(q, query[q])
       IN  Apply(q, outcome, Tail(tasks))
    /\ UNCHANGED <<zone, gone, cancel, failures>>

----------------------------------------------------------------------------
(* queryCb: c-ares answers a question.                                     *)

\* What the name servers say.
Status(d) ==
    CASE d.step = "RecordA" -> IF "v4" \in zone.dns[d.name] THEN "none" ELSE "notfound"
      [] d.step = "RecordAAAA" -> IF "v6" \in zone.dns[d.name] THEN "none" ELSE "notfound"
      [] d.step = "RecordSRV" -> IF zone.service # {} THEN "none" ELSE "notfound"
      [] OTHER -> IF zone.mx # {} THEN "none" ELSE "notfound"

\* Records of the answer in order of preference: the lower priority value
\* first and, for SRV, the higher weight among equals.
Preferred(records) ==
    SetToSortSeq(records, LAMBDA l, r : \/ l.priority < r.priority
                                        \/ l.priority = r.priority /\ l.weight > r.weight)

\* A target that is an address itself (its host is a family here) becomes
\* an endpoint if that family was asked for, with the port of the query; a
\* name is resolved later, with the port of its record unless that is 0.
AddRecord(q, d, rec) ==
    IF rec.host \in Families
    THEN IF rec.host \in IpVersion[q] THEN AddEndpoint(d, rec.host, rec.host, d.port) ELSE d
    ELSE [d EXCEPT !.intermediate =
             Append(@, [host |-> rec.host, port |-> IF rec.port = 0 THEN d.port ELSE rec.port])]

AddRecords(q, d, records) ==
    FoldLeft(LAMBDA e, rec : AddRecord(q, e, rec), d, Preferred(records))

\* A bug: a question for AAAA records that failed is put again, forever.
ParsedAsksAgain(q, d, status) ==
    [[d EXCEPT !.lastError = status]
        EXCEPT !.step = CASE d.step = "RecordA" -> "RecordAAAA"
                          [] d.step = "RecordAAAA" /\ status # "none" -> "RecordAAAA"
                          [] OTHER -> "Next"]

\* The answer is taken in; a name server that does not respond to the
\* question for A records is not asked for AAAA records.
Parsed(q, d, status) ==
    LET e == [d EXCEPT !.lastError = status]
        ok == status = "none"
    IN  CASE d.step = "RecordA" ->
                [IF ok THEN AddEndpoint(e, d.name, "v4", d.port) ELSE e
                   EXCEPT !.step = IF status \in {"timeout", "refused"} THEN "Next" ELSE "RecordAAAA"]
          [] d.step = "RecordAAAA" ->
                [IF ok THEN AddEndpoint(e, d.name, "v6", d.port) ELSE e EXCEPT !.step = "Next"]
          [] d.step = "RecordSRV" ->
                [IF ok THEN AddRecords(q, e, zone.service) ELSE e EXCEPT !.step = "Next"]
          [] OTHER ->
                [IF ok THEN AddRecords(q, e, zone.mx) ELSE e EXCEPT !.step = "Next"]

QueryCb(q) ==
    /\ place[q] = "asked"
    /\ \/ failures' = failures
          /\ Apply(q, ProcessQuery(q, Parsed(q, query[q], Status(query[q]))), tasks)
       \/ failures < MaxFailures /\ failures' = failures + 1
          /\ \E status \in {"timeout", "refused", "servfail"} :
                Apply(q, ProcessQuery(q, Parsed(q, query[q], status)), tasks)
    /\ UNCHANGED <<zone, gone, cancel>>

\* cancel(), also the first half of the destructor, on any thread: the flag is
\* set, and only then c-ares is told.
Cancel ==
    /\ ~cancel /\ cancel' = TRUE
    /\ UNCHANGED <<zone, query, place, tasks, gone, result, failures>>

\* A bug: the questions c-ares has are left to be answered after all.
CancelLeavesAsked ==
    /\ cancel /\ \E q \in Queries : place[q] = "asked"
    /\ result' = [q \in Queries |->
                     IF place[q] = "asked" THEN Append(result[q], Aborted) ELSE result[q]]
    /\ UNCHANGED <<zone, query, place, tasks, gone, cancel, failures>>

\* ares_cancel, of this cancel() or of another: queryCb is called for each
\* question there is now, which calls the caller back and forgets to let go
\* of the query.
AresCancel ==
    /\ cancel /\ \E q \in Queries : place[q] = "asked"
    /\ LET asked == {q \in Queries : place[q] = "asked"}
       IN  /\ query' = [q \in Queries |->
                          IF q \in asked THEN [query[q] EXCEPT !.ref = q \notin gone]
                          ELSE query[q]]
           /\ place' = [q \in Queries |-> IF q \in asked THEN "over" ELSE place[q]]
           /\ result' = [q \in Queries |->
                          IF q \in asked \ gone THEN Append(result[q], Aborted) ELSE result[q]]
    /\ UNCHANGED <<zone, tasks, gone, cancel, failures>>

\* The caller's task context is destroyed; queries hold it weakly.
DropContext(q) ==
    /\ q \notin gone /\ place[q] \notin {"caller", "over"}
    /\ gone' = gone \cup {q}
    /\ UNCHANGED <<zone, query, place, tasks, cancel, result, failures>>

ResolverInit ==
    /\ zone \in Zones
    /\ query = [q \in Queries |-> NewQuery("name")]
    /\ place = [q \in Queries |-> "caller"]
    /\ tasks = <<>> /\ gone = {} /\ cancel = FALSE /\ failures = 0
    /\ result = [q \in Queries |-> <<>>]

ResolverNext ==
    \/ \E q \in Queries : Resolve(q) \/ QueryCb(q) \/ DropContext(q)
    \/ ProcessQueryAsync \/ Cancel \/ AresCancel

\* The resolver's thread runs, and c-ares ends each question: the timer of
\* the resolver lets it notice timeouts.
ResolverFairness ==
    /\ WF_resolverVars(ProcessQueryAsync)
    /\ \A q \in Queries : WF_resolverVars(QueryCb(q))

ResolverSpec == ResolverInit /\ [][ResolverNext]_resolverVars /\ ResolverFairness

----------------------------------------------------------------------------
(* Properties.                                                             *)

Addresses(host, families, port) ==
    {[host |-> host, family |-> f, port |-> port] : f \in families}

OfRecords(q, records) ==
    UNION {IF rec.host \in Families THEN Addresses(rec.host, {rec.host} \cap IpVersion[q], 0)
           ELSE Addresses(rec.host, zone.dns[rec.host] \cap IpVersion[q], rec.port) : rec \in records}

\* All endpoints the zone has for a query.
Known(q) ==
    CASE query[q].kind = "service" -> OfRecords(q, zone.service)
      [] query[q].kind = "mx" -> OfRecords(q, zone.mx)
      [] OTHER -> LET file == zone.file[Target] \cap IpVersion[q]
                      dns  == zone.dns[Target] \cap IpVersion[q]
                  IN  Addresses(Target, IF file # {} THEN file ELSE dns, Port)

\* What a query finds: only endpoints the zone has for it, of the families
\* asked for, each once and with the port of its record; unless a name
\* server failed, all of them; and an error exactly if there is none.
FindsWhatIsKnown ==
    \A q \in Queries : \A i \in DOMAIN result[q] :
        LET r == result[q][i]
        IN  r.err # "aborted" =>
                /\ ToSet(r.endpoints) \subseteq Known(q) /\ IsInjective(r.endpoints)
                /\ failures = 0 => ToSet(r.endpoints) = Known(q)
                /\ r.err = "none" <=> r.endpoints # <<>>

\* A callback is called at most once, and a query is in one place only: it
\* is posted once while a step is due, and never while c-ares has it.
QueriesRunOnce ==
    \A q \in Queries :
        /\ Len(result[q]) <= IF place[q] = "over" THEN 1 ELSE 0
        /\ Cardinality({i \in DOMAIN tasks : tasks[i] = q}) = IF place[q] = "posted" THEN 1 ELSE 0

\* Each query ends, and its callback has then been called unless its
\* caller is gone.
QueriesEnd ==
    \A q \in Queries :
        place[q] \in {"posted", "asked"} ~>
            place[q] = "over" /\ (q \in gone \/ Len(result[q]) = 1)

=============================================================================
