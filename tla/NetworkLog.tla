----------------------------- MODULE NetworkLog -----------------------------
(***************************************************************************)
(* The network collector of one page (internal/tools/collectors.go,        *)
(* network.go).  The read loop files a record for every request Chrome     *)
(* announces and follows it through the table netByID; a redirect announces*)
(* the same request again.  The client polls list_network_requests with    *)
(* failedOnly, passing lastReqId back as sinceReqId, and reads records     *)
(* with get_network_request, which looks one up under collectors.mu and    *)
(* then reads its fields without it.  Chrome (external) runs the requests. *)
(***************************************************************************)
EXTENDS Naturals, Sequences, FiniteSets

CONSTANTS Requests,    (* CDP request ids                                   *)
          MaxHops,     (* bound: announcements of one request               *)
          MaxNetworkRequests (* maxNetworkRequests                          *)

ASSUME NetworkAssumption ==
    /\ IsFiniteSet(Requests) /\ "none" \notin Requests
    /\ MaxHops \in Nat \ {0} /\ MaxNetworkRequests \in Nat \ {0}

MaxRecords == Cardinality(Requests) * MaxHops
Records == 1..MaxRecords

VARIABLES
    netSeq,   \* collectors.netSeq
    netReqs,  \* collectors.netReqs, as record ids, oldest first
    netByID,  \* collectors.netByID, 0 for no entry
    rec,      \* the netRequest of each id, whoever still points to it
    get,      \* the get_network_request running and the fields it has read
    past,     \* the states each record has been in, for ReportIsARecordState
    cursor,   \* client: the last lastReqId
    told,     \* client: the failed records it was told of
    chrome    \* Chrome: hops, response and end of each request

serverVars == <<netSeq, netReqs, netByID, rec, past>>
clientVars == <<get, cursor, told>>
vars == <<serverVars, clientVars, chrome>>

NoRecord == [req |-> "none", status |-> FALSE, finished |-> FALSE, failed |-> FALSE]
NoGet == [at |-> "idle", id |-> 0, status |-> FALSE, finished |-> FALSE, failed |-> FALSE]

Init ==
    /\ netSeq = 0 /\ netReqs = <<>>
    /\ netByID = [r \in Requests |-> 0]
    /\ rec = [i \in Records |-> NoRecord]
    /\ past = [i \in Records |-> {}]
    /\ get = NoGet /\ cursor = 0 /\ told = {}
    /\ chrome = [r \in Requests |-> [hops |-> 0, status |-> FALSE, finished |-> FALSE,
                                     failed |-> FALSE]]

-----------------------------------------------------------------------------
(* The read loop *)

Fields(i) == [status |-> rec[i].status, finished |-> rec[i].finished, failed |-> rec[i].failed]

\* Remember the state a record leaves, and move on.
Becomes(i, new) ==
    /\ past' = [past EXCEPT ![i] = @ \cup {Fields(i)}]
    /\ rec' = [rec EXCEPT ![i] = new]

\* Variant: the entry of an evicted record stays.
KeepEntry(table, r) == table

DropEntry(table, r) == [table EXCEPT ![r] = 0]

Full(all) == Len(all) > MaxNetworkRequests

\* Network.requestWillBeSent
RequestWillBeSent(r) ==
    /\ ~chrome[r].finished /\ ~chrome[r].status /\ chrome[r].hops < MaxHops
    /\ chrome' = [chrome EXCEPT ![r].hops = @ + 1]
    /\ netSeq' = netSeq + 1
    /\ Becomes(netSeq', [NoRecord EXCEPT !.req = r])
    /\ LET all == Append(netReqs, netSeq')
           byID == [netByID EXCEPT ![r] = netSeq']
       IN  IF Full(all)
           THEN netReqs' = Tail(all) /\ netByID' = DropEntry(byID, rec[Head(all)].req)
           ELSE netReqs' = all /\ netByID' = byID
    /\ UNCHANGED clientVars

\* Variant: an update goes to the newest record.
Newest(r) == netSeq

\* The record an update of a request goes to.
Followed(r) == netByID[r]

\* The fields named are set on it.
Update(r, fields) ==
    /\ IF Followed(r) # 0
       THEN Becomes(Followed(r),
                    [f \in DOMAIN NoRecord |-> IF f \in fields THEN TRUE ELSE rec[Followed(r)][f]])
       ELSE UNCHANGED <<rec, past>>
    /\ UNCHANGED <<netSeq, netReqs, netByID, clientVars>>

\* Network.responseReceived
ResponseReceived(r) ==
    /\ chrome[r].hops > 0 /\ ~chrome[r].status /\ ~chrome[r].finished
    /\ chrome' = [chrome EXCEPT ![r].status = TRUE]
    /\ Update(r, {"status"})

\* Network.loadingFinished
LoadingFinished(r) ==
    /\ chrome[r].status /\ ~chrome[r].finished
    /\ chrome' = [chrome EXCEPT ![r].finished = TRUE]
    /\ Update(r, {"finished"})

\* Network.loadingFailed
LoadingFailed(r) ==
    /\ chrome[r].hops > 0 /\ ~chrome[r].finished
    /\ chrome' = [chrome EXCEPT ![r].finished = TRUE, ![r].failed = TRUE]
    /\ Update(r, {"finished", "failed"})

-----------------------------------------------------------------------------
(* The tools *)

Ring == {netReqs[i] : i \in DOMAIN netReqs}

\* list_network_requests with failedOnly; lastReqId is taken before the filters.
ListFailed ==
    /\ get = NoGet
    /\ told' = told \cup {i \in Ring : i > cursor /\ rec[i].failed}
    /\ cursor' = IF netReqs = <<>> THEN 0 ELSE netReqs[Len(netReqs)]
    /\ UNCHANGED <<serverVars, get, chrome>>

\* get_network_request finds the record under collectors.mu ...
FindRequest(i) ==
    /\ get = NoGet /\ i \in Ring
    /\ get' = [NoGet EXCEPT !.at = "status", !.id = i]
    /\ UNCHANGED <<serverVars, cursor, told, chrome>>

\* ... checks its page, which may refuse, and reads one field after the other.
RefuseRequest ==
    /\ get.at = "status"
    /\ get' = NoGet
    /\ UNCHANGED <<serverVars, cursor, told, chrome>>

ReadStatus ==
    /\ get.at = "status"
    /\ get' = [get EXCEPT !.at = "finished", !.status = rec[get.id].status]
    /\ UNCHANGED <<serverVars, cursor, told, chrome>>

ReadFinished ==
    /\ get.at = "finished"
    /\ get' = [get EXCEPT !.at = "failed", !.finished = rec[get.id].finished]
    /\ UNCHANGED <<serverVars, cursor, told, chrome>>

ReadFailed ==
    /\ get.at = "failed"
    /\ get' = [get EXCEPT !.at = "report", !.failed = rec[get.id].failed]
    /\ UNCHANGED <<serverVars, cursor, told, chrome>>

\* The body is asked for when the request finished and did not fail.
Report ==
    /\ get.at = "report"
    /\ get' = NoGet
    /\ UNCHANGED <<serverVars, cursor, told, chrome>>

Next ==
    \/ \E r \in Requests : \/ RequestWillBeSent(r) \/ ResponseReceived(r)
                           \/ LoadingFinished(r) \/ LoadingFailed(r)
    \/ \E i \in Records : FindRequest(i)
    \/ ListFailed
    \/ RefuseRequest \/ ReadStatus \/ ReadFinished \/ ReadFailed \/ Report

Spec == Init /\ [][Next]_vars

-----------------------------------------------------------------------------
(* Properties *)

Flags == [status : BOOLEAN, finished : BOOLEAN, failed : BOOLEAN]

TypeOK ==
    /\ netSeq \in 0..MaxRecords
    /\ \A i \in DOMAIN netReqs : netReqs[i] \in 1..netSeq
    /\ Len(netReqs) <= MaxNetworkRequests
    /\ netByID \in [Requests -> 0..netSeq]
    /\ \A i \in Records : rec[i].req \in Requests <=> i <= netSeq
    /\ \A i \in Records : past[i] \subseteq Flags
    /\ cursor \in 0..netSeq /\ told \subseteq 1..netSeq
    /\ get.id \in 0..netSeq

\* The table never holds on to a record the buffer has dropped, so what is
\* remembered of a long session stays bounded (handleCollectorEvent).
TableWithinBuffer ==
    \A r \in Requests : netByID[r] # 0 => netByID[r] \in Ring /\ rec[netByID[r]].req = r

\* What a record says of its request did happen to that request: updates are
\* never filed under another one, whatever was evicted in between
\* (handleCollectorEvent).
UpdatesAreOwn ==
    \A i \in 1..netSeq :
        LET c == chrome[rec[i].req]
        IN  /\ rec[i].status => c.status
            /\ rec[i].finished => c.finished
            /\ rec[i].failed => c.failed

\* A buffered request that was never redirected says exactly what Chrome said of
\* it: no event of it is lost (handleCollectorEvent).
PlainRequestsFollowed ==
    \A i \in Ring :
        LET c == chrome[rec[i].req]
        IN  c.hops = 1 => Fields(i) = [status |-> c.status, finished |-> c.finished,
                                       failed |-> c.failed]

\* A record tells what happened to its request, and all of it
\* (handleCollectorEvent).
RecordsAreTrue == UpdatesAreOwn /\ PlainRequestsFollowed

\* What collectors.go:35 says of netByID: it leads from a CDP request id to its
\* record, so the newest record of a request is followed while it is buffered.
NewestRecordFollowed ==
    \A r \in Requests : \A i \in Ring :
        /\ rec[i].req = r
        /\ \A j \in 1..netSeq : rec[j].req = r => j <= i
        => netByID[r] = i

\* What collectors.go:15 says: all state lives behind the collectors' mutex, so
\* what get_network_request reports of a record was true of it at one moment.
ReportIsARecordState ==
    get.at = "report" =>
        [status |-> get.status, finished |-> get.finished, failed |-> get.failed]
            \in past[get.id] \cup {Fields(get.id)}

\* What CHANGELOG.md:389-392 says of sinceReqId and failedOnly: a client that
\* polls sees the failures that happened since its previous call.
FailuresAreTold ==
    [][\A i \in Ring : ListFailed /\ rec[i].failed => i \in told']_vars
=============================================================================
