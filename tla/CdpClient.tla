----------------------------- MODULE CdpClient ------------------------------
(***************************************************************************)
(* The CDP client of internal/cdp/client.go: any number of goroutines in   *)
(* Call, one read loop, one Close, and Chrome at the other end of a        *)
(* connection that keeps the order of messages.                            *)
(*                                                                         *)
(* The critical sections under c.mu contain no blocking operation, so each *)
(* is one step.  What the code does outside the lock is a step of its own: *)
(* a caller between registering and writing, a caller that has seen its    *)
(* context end and not yet dropped its entry, the read loop between taking *)
(* an entry out of the table and sending on its channel, the read loop     *)
(* between closing the channels and closing done.                          *)
(***************************************************************************)
EXTENDS Naturals, Sequences

CONSTANTS Calls,        (* the invocations of Call, each made at most once  *)
          Bounded,      (* those made under a context that ends             *)
          Unencodable,  (* those json.Marshal refuses                       *)
          Results,      (* kinds of reply: a result, an error, ...          *)
          MaxWire       (* bound: Chrome stops talking while this many      *)
                        (* messages are unread                              *)

ASSUME CallsAssumption == Bounded \subseteq Calls /\ Unencodable \subseteq Calls
ASSUME ResultsAssumption ==
    {"none", "event", "unreadable", "canceled", "closed", "unsent"} \cap Results = {}
ASSUME MaxWireAssumption == MaxWire \in Nat

VARIABLES
    nextID,     \* Client.nextID
    pending,    \* Client.pending: pairs of an id and the call that owns it
    closed,     \* Client.closed (readErr is set in the same step)
    done,       \* Client.done has been closed
    pc,         \* where each call is
    callID,     \* the id each call drew, 0 before
    ch,         \* the one-place channel of each call
    chClosed,   \* the calls whose channel the read loop closed
    outcome,    \* what each call returned, or is about to return
    loop,       \* the read loop: "read", "deliver", "drained" or "exited"
    held,       \* the reply the read loop is about to send on a channel
    target,     \* the call that channel belongs to
    closer,     \* Close: "idle", "waiting" or "returned"
    conn,       \* "up", or "down" once either end closed it
    requests,   \* the ids Chrome has received and not answered
    wire,       \* messages on their way from Chrome
    replied     \* what Chrome answered to each id: pairs, for the properties

clientVars == <<nextID, pending, closed, done, callID, ch, chClosed, loop, held, target>>
chromeVars == <<requests, wire, replied>>
vars == <<clientVars, pc, outcome, closer, conn, chromeVars>>

None == "none"
NoMsg == [id |-> 0, kind |-> None]
\* Everything that carries no id: an event, or a frame that does not decode.
EventMsg == [id |-> 0, kind |-> "event"]
\* What ReadMessage refuses with the connection still up: too large, masked, a
\* reserved bit, an opcode or a fragment out of place (ws.go:175-194, 206-233).
BadMsg == [id |-> 0, kind |-> "unreadable"]
NoCall == "no call"

Outcomes == Results \cup {None, "canceled", "unsent", "closed"}

Without(id) == {p \in pending : p[1] # id}

\* Variant: replies are matched to calls in the order the calls were made.
OldestOwner(id) == {p[2] : p \in {q \in pending : \A r \in pending : q[1] <= r[1]}}

Owner(id) == {c \in Calls : <<id, c>> \in pending}

Init ==
    /\ nextID = 0 /\ pending = {} /\ closed = FALSE /\ done = FALSE
    /\ pc = [c \in Calls |-> "idle"]
    /\ callID = [c \in Calls |-> 0]
    /\ ch = [c \in Calls |-> NoMsg]
    /\ chClosed = {}
    /\ outcome = [c \in Calls |-> None]
    /\ loop = "read" /\ held = NoMsg /\ target = NoCall
    /\ closer = "idle"
    /\ conn = "up"
    /\ requests = {} /\ wire = <<>> /\ replied = {}

-----------------------------------------------------------------------------
(* Call *)

Return(c, o) ==
    /\ pc' = [pc EXCEPT ![c] = "returned"]
    /\ outcome' = [outcome EXCEPT ![c] = o]

Accepts == ~closed

\* Variant: the counter is read outside the lock, and one reading is stale.
FreshIDStale == IF nextID = 1 THEN nextID ELSE nextID + 1

FreshID == nextID + 1

\* The first critical section on a connection already known to be gone.
Refused(c) ==
    /\ pc[c] = "idle" /\ closed
    /\ Return(c, "closed")
    /\ UNCHANGED <<clientVars, closer, conn, chromeVars>>

\* The first critical section otherwise: draw an id, enter the table.
Register(c) ==
    /\ pc[c] = "idle" /\ Accepts
    /\ nextID' = FreshID
    /\ callID' = [callID EXCEPT ![c] = FreshID]
    /\ pending' = Without(FreshID) \cup {<<FreshID, c>>}
    /\ pc' = [pc EXCEPT ![c] = "write"]
    /\ UNCHANGED <<closed, done, ch, chClosed, outcome, loop, held, target,
                   closer, conn, chromeVars>>

\* WriteMessage succeeds.  On a dead connection the bytes may go nowhere.
Write(c) ==
    /\ pc[c] = "write" /\ c \notin Unencodable
    /\ requests' = IF conn = "up" THEN requests \cup {callID[c]} ELSE requests
    /\ pc' = [pc EXCEPT ![c] = "select"]
    /\ UNCHANGED <<clientVars, outcome, closer, conn, wire, replied>>

\* Variant: the entry of an abandoned call stays in the table.
GiveUpAtOnce(c, o) == Return(c, o)

\* Leave with error o, but first drop the entry.
GiveUp(c, o) ==
    /\ pc' = [pc EXCEPT ![c] = "drop"]
    /\ outcome' = [outcome EXCEPT ![c] = o]

\* json.Marshal or WriteMessage fails.
WriteFails(c) ==
    /\ pc[c] = "write"
    /\ c \in Unencodable \/ conn = "down"
    /\ GiveUp(c, "unsent")
    /\ UNCHANGED <<clientVars, closer, conn, chromeVars>>

CtxReady(c) == c \in Bounded

\* What Call returns when its channel was closed.
ClosedCh == "closed"

\* The three arms of the select.  When several are ready any of them may win.
CtxDone(c) ==
    /\ pc[c] = "select" /\ CtxReady(c)
    /\ GiveUp(c, "canceled")
    /\ UNCHANGED <<clientVars, closer, conn, chromeVars>>

SelectDone(c) ==
    /\ pc[c] = "select" /\ done
    /\ Return(c, "closed")
    /\ UNCHANGED <<clientVars, closer, conn, chromeVars>>

\* A reply left in the buffer is received before the close is noticed.
SelectCh(c) ==
    /\ pc[c] = "select"
    /\ \/ /\ ch[c] # NoMsg
          /\ ch' = [ch EXCEPT ![c] = NoMsg]
          /\ Return(c, ch[c].kind)
       \/ /\ ch[c] = NoMsg /\ c \in chClosed
          /\ Return(c, ClosedCh)
          /\ UNCHANGED ch
    /\ UNCHANGED <<nextID, pending, closed, done, callID, chClosed, loop, held,
                   target, closer, conn, chromeVars>>

DropEntry(c) ==
    /\ pending' = Without(callID[c])
    /\ UNCHANGED chClosed

DropPending(c) ==
    /\ pc[c] = "drop"
    /\ DropEntry(c)
    /\ pc' = [pc EXCEPT ![c] = "returned"]
    /\ UNCHANGED <<nextID, closed, done, callID, ch, outcome, loop,
                   held, target, closer, conn, chromeVars>>

-----------------------------------------------------------------------------
(* The read loop *)

\* ReadMessage fails, whatever the reason.
Unreadable ==
    \/ conn = "down" /\ UNCHANGED wire
    \/ wire # <<>> /\ Head(wire) = BadMsg /\ wire' = Tail(wire)

\* Mark the client closed and unblock every waiting call.  The socket is left
\* as it is: calls that are registered are still written after this.
ReadError ==
    /\ loop = "read" /\ Unreadable
    /\ closed' = TRUE
    /\ chClosed' = chClosed \cup {p[2] : p \in pending}
    /\ pending' = {}
    /\ loop' = "drained"
    /\ UNCHANGED <<nextID, done, callID, ch, held, target, pc, outcome, closer,
                   conn, requests, replied>>

\* Variant: the read loop exits without closing done.
SignalNever == UNCHANGED done

Signal == done' = TRUE

\* The deferred close(done).
CloseDone ==
    /\ loop = "drained"
    /\ Signal
    /\ loop' = "exited"
    /\ UNCHANGED <<nextID, pending, closed, callID, ch, chClosed, held, target,
                   pc, outcome, closer, conn, chromeVars>>

\* A message with an id: take its entry out of the table, if there is one.
ReadReply ==
    /\ loop = "read" /\ wire # <<>>
    /\ Head(wire).id # 0
    /\ wire' = Tail(wire)
    /\ pending' = Without(Head(wire).id)
    /\ IF Owner(Head(wire).id) = {}
       THEN UNCHANGED <<loop, held, target>>
       ELSE /\ loop' = "deliver"
            /\ held' = Head(wire)
            /\ target' \in Owner(Head(wire).id)
    /\ UNCHANGED <<nextID, closed, done, callID, ch, chClosed, pc, outcome,
                   closer, conn, requests, replied>>

\* p.ch <- msg, outside the lock: blocks while the place is taken.
Deliver ==
    /\ loop = "deliver"
    /\ ch[target] = NoMsg
    /\ ch' = [ch EXCEPT ![target] = held]
    /\ loop' = "read" /\ held' = NoMsg /\ target' = NoCall
    /\ UNCHANGED <<nextID, pending, closed, done, callID, chClosed, pc, outcome,
                   closer, conn, chromeVars>>

\* An event, which the handlers take synchronously, or a malformed frame.
ReadEvent ==
    /\ loop = "read" /\ wire # <<>>
    /\ Head(wire).id = 0 /\ Head(wire) # BadMsg
    /\ wire' = Tail(wire)
    /\ UNCHANGED <<clientVars, pc, outcome, closer, conn, requests, replied>>

-----------------------------------------------------------------------------
(* Close, and Chrome *)

CloseConn ==
    /\ closer = "idle"
    /\ closer' = "waiting"
    /\ conn' = "down"
    /\ UNCHANGED <<clientVars, pc, outcome, chromeVars>>

CloseReturns ==
    /\ closer = "waiting" /\ done
    /\ closer' = "returned"
    /\ UNCHANGED <<clientVars, pc, outcome, conn, chromeVars>>

\* Chrome answers what it has received, in any order and once.
ChromeReplies(id, r) ==
    /\ conn = "up" /\ id \in requests /\ Len(wire) < MaxWire
    /\ requests' = requests \ {id}
    /\ wire' = Append(wire, [id |-> id, kind |-> r])
    /\ replied' = replied \cup {<<id, r>>}
    /\ UNCHANGED <<clientVars, pc, outcome, closer, conn>>

ChromeEmits ==
    /\ conn = "up" /\ Len(wire) < MaxWire
    /\ \E m \in {EventMsg, BadMsg} : wire' = Append(wire, m)
    /\ UNCHANGED <<clientVars, pc, outcome, closer, conn, requests, replied>>

\* Chrome exits or crashes.
ChromeGone ==
    /\ conn = "up"
    /\ conn' = "down"
    /\ UNCHANGED <<clientVars, pc, outcome, closer, chromeVars>>

-----------------------------------------------------------------------------
\* What a call does without waiting for Chrome.
Caller(c) ==
    \/ WriteFails(c)
    \/ CtxDone(c) \/ SelectDone(c) \/ SelectCh(c) \/ DropPending(c)

ReadLoop == ReadError \/ CloseDone \/ ReadReply \/ Deliver \/ ReadEvent

Chrome ==
    \/ ChromeEmits \/ ChromeGone
    \/ \E id \in requests, r \in Results : ChromeReplies(id, r)

Next ==
    \/ \E c \in Calls : Register(c) \/ Refused(c) \/ Write(c) \/ Caller(c)
    \/ ReadLoop
    \/ CloseConn \/ CloseReturns
    \/ Chrome

Spec == Init /\ [][Next]_vars

\* Goroutines that can run do run; a deadline passes.  Nothing is asked of
\* Chrome, nor of whoever starts calls or closes the client.  Nothing is asked
\* of Write either: WriteMessage has no deadline, and a Chrome that has stopped
\* reading keeps it for as long as the connection is up.
Fairness ==
    /\ \A c \in Calls : WF_vars(Caller(c))
    /\ WF_vars(ReadLoop)
    /\ WF_vars(CloseReturns)

FairSpec == Spec /\ Fairness

-----------------------------------------------------------------------------
(* Properties *)

Messages == [id : Nat, kind : Results \cup {None, "event", "unreadable"}]

\* Every variable keeps the type it has in client.go.
TypeOK ==
    /\ nextID \in Nat
    /\ pending \subseteq Nat \X Calls
    /\ closed \in BOOLEAN /\ done \in BOOLEAN
    /\ pc \in [Calls -> {"idle", "write", "select", "drop", "returned"}]
    /\ callID \in [Calls -> Nat]
    /\ ch \in [Calls -> Messages]
    /\ chClosed \subseteq Calls
    /\ outcome \in [Calls -> Outcomes]
    /\ \A c \in Calls : pc[c] = "returned" => outcome[c] # None
    /\ loop \in {"read", "deliver", "drained", "exited"}
    /\ held \in Messages
    /\ loop = "deliver" => target \in Calls
    /\ closer \in {"idle", "waiting", "returned"}
    /\ conn \in {"up", "down"}
    /\ requests \subseteq Nat
    /\ wire \in Seq(Messages)
    /\ replied \subseteq Nat \X Results

\* A call never gets another call's answer: what it returns, what lies in its
\* channel and what the read loop is about to put there is what Chrome replied
\* to the id this call drew (client.go:121-124, 202-210).
OwnReply ==
    /\ \A c \in Calls : outcome[c] \in Results => <<callID[c], outcome[c]>> \in replied
    /\ \A c \in Calls : ch[c] # NoMsg => ch[c].id = callID[c] /\ <<ch[c].id, ch[c].kind>> \in replied
    /\ loop = "deliver" => held.id = callID[target] /\ <<held.id, held.kind>> \in replied

\* No waiting call is forgotten: one that is no longer in the pending table has
\* a reply, a closed channel, or a read loop that is about to send it one.  A
\* call between WriteMessage and the select may lose its entry to the read loop.
NoOrphan ==
    \A c \in Calls :
        pc[c] \in {"write", "select"} =>
            \/ <<callID[c], c>> \in pending
            \/ ch[c] # NoMsg
            \/ c \in chClosed
            \/ loop = "deliver" /\ target = c

\* The table does not grow with calls that have returned (the three callers of
\* dropPending, and the deletions in readLoop).
NoLeak == \A c \in Calls : pc[c] \in {"idle", "returned"} => \A p \in pending : p[2] # c

\* The read loop is never stuck on a channel, and never sends on one it closed:
\* the entry is deleted before the send (client.go:203-210).
SendNeverBlocks == loop = "deliver" => ch[target] = NoMsg /\ target \notin chClosed

\* After readLoop has drained the table nobody enters it again, because Call
\* tests closed in the section that registers (client.go:112-125, 185-193).
ClosedIsDrained == closed => pending = {}

\* Once the connection is closed every call comes back, whatever it waits for,
\* and so does Close: "Close tears down the transport and unblocks all in-flight
\* calls" (client.go:71-72).
CloseUnblocks ==
    (closer = "waiting") ~> (closer = "returned" /\ \A c \in Calls : pc[c] \in {"idle", "returned"})

(* What a caller sees of all this. *)
Status ==
    [c \in Calls |->
        CASE pc[c] = "idle" -> "idle" [] pc[c] = "returned" -> "ended" [] OTHER -> "open"]
Answers(c) == {r \in Results : callID[c] # 0 /\ <<callID[c], r>> \in replied}
One(S) == IF S = {} THEN None ELSE CHOOSE r \in S : TRUE
Answer == [c \in Calls |-> One(Answers(c))]
Returned == [c \in Calls |-> IF pc[c] = "returned" THEN outcome[c] ELSE None]
IsUp == conn = "up"
IsHeard == ~closed
IsSent(c) ==
    \/ pc[c] = "select"
    \/ pc[c] \in {"drop", "returned"} /\ callID[c] # 0 /\ outcome[c] # "unsent"
Written == {c \in Calls : IsSent(c)}

Promise ==
    INSTANCE CallSpec WITH
        status <- Status, answer <- Answer, outcome <- Returned,
        sent <- Written, up <- IsUp, heard <- IsHeard

\* Calls implement remote procedure calls: each starts and ends once, with the
\* result Chrome computed for that very call or an error it has a reason for,
\* and one that can end does (client.go:111-147, 179-213).  One reported closed
\* may all the same be performed: the socket outlives the read loop.
ImplementsCallSpec == Promise!CallSpecification

\* The same without the last part, which rests on fairness.
ImplementsCallSteps == Promise!SpecInit /\ [][Promise!SpecNext]_(Promise!specVars)
=============================================================================
