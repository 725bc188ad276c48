----------------------------- MODULE WebSocket -----------------------------
(***************************************************************************)
(* The WebSocket connection of internal/ws/ws.go: one reader that puts     *)
(* fragments together and answers control frames by itself, any number of  *)
(* writers (the callers of cdp.Client.Call) and one call of Close, all     *)
(* writing frames under writeMu as two writes, the header and the payload. *)
(* Of a frame's bytes only its kind, whether it is final and its size      *)
(* matter.  Chrome and the socket are external: Chrome sends any frames,   *)
(* and a write blocks while the socket's buffer is full.                   *)
(***************************************************************************)
EXTENDS Integers, Sequences, FiniteSets, SequencesExt

CONSTANTS
    Writers,     \* callers of WriteMessage
    MaxMessage,  \* Conn.maxMessage
    MaxFrames,   \* bound: frames Chrome ever sends
    Room         \* writes the socket's buffer holds

Reader == "reader"
Closer == "closer"
Nobody == "nobody"

ASSUME WebSocketAssumption ==
    /\ MaxMessage \in Nat /\ MaxFrames \in Nat /\ Room \in Nat \ {0}
    /\ Writers \cap {Reader, Closer, Nobody} = {}

Procs == Writers \cup {Reader, Closer}

VARIABLES
    pc,        \* of each process: "idle", "lock", "header", "payload", "shut", "ended"
    job,       \* the frame each writes or wrote last: "text", "pong", "close" or "none"
    lock,      \* writeMu's holder
    last,      \* the last write that reached the socket: who and which half
    queued,    \* writes in the socket's buffer
    tcp,       \* "open", "closed" by closeTCP, or "broken" from outside
    sent,      \* every frame Chrome sent
    read,      \* how many of them readFrame has returned
    buf,       \* ReadMessage: the data frames of the message begun, by number
    delivered  \* the messages returned, each as the numbers of its frames

writeVars == <<lock, last, queued>>
readVars == <<read, buf, delivered>>
vars == <<pc, job, writeVars, tcp, sent, readVars>>

Init ==
    /\ pc = [p \in Procs |-> "idle"] /\ job = [p \in Procs |-> "none"]
    /\ lock = Nobody /\ last = [by |-> Nobody, part |-> "payload"] /\ queued = 0
    /\ tcp = "open"
    /\ sent = <<>> /\ read = 0 /\ buf = <<>> /\ delivered = {}

-----------------------------------------------------------------------------
(* writeFrame *)

\* Variant: frames are written without writeMu.
AlwaysFree == TRUE

LockFree == lock = Nobody

Acquire(p) ==
    /\ pc[p] = "lock" /\ LockFree
    /\ lock' = p
    /\ pc' = [pc EXCEPT ![p] = "header"]
    /\ UNCHANGED <<job, last, queued, tcp, sent, readVars>>

Put(p, part) ==
    /\ tcp = "open" /\ queued < Room
    /\ queued' = queued + 1
    /\ last' = [by |-> p, part |-> part]

WriteHeader(p) ==
    /\ pc[p] = "header" /\ Put(p, "header")
    /\ pc' = [pc EXCEPT ![p] = "payload"]
    /\ UNCHANGED <<job, lock, tcp, sent, readVars>>

\* Variant: a close frame that cannot be sent leaves the connection as it is.
AfterError(p, ok) ==
    IF job[p] = "close" /\ ok THEN "shut"
    ELSE IF p = Reader /\ ~ok THEN "ended"
    ELSE "idle"

\* What a process does after writeFrame: the error of a close frame is dropped,
\* that of a pong ends ReadMessage.
After(p, ok) ==
    IF job[p] = "close" THEN "shut"
    ELSE IF p = Reader /\ ~ok THEN "ended"
    ELSE "idle"

WritePayload(p) ==
    /\ pc[p] = "payload" /\ Put(p, "payload")
    /\ lock' = Nobody
    /\ pc' = [pc EXCEPT ![p] = After(p, TRUE)]
    /\ UNCHANGED <<job, tcp, sent, readVars>>

ReleaseLock == Nobody

WriteFails(p) ==
    /\ pc[p] \in {"header", "payload"} /\ tcp # "open"
    /\ lock' = ReleaseLock
    /\ pc' = [pc EXCEPT ![p] = After(p, FALSE)]
    /\ UNCHANGED <<job, last, queued, tcp, sent, readVars>>

WriteFrame(p, kind) ==
    /\ pc' = [pc EXCEPT ![p] = "lock"]
    /\ job' = [job EXCEPT ![p] = kind]

WriteMessage(w) ==
    /\ pc[w] = "idle" /\ WriteFrame(w, "text")
    /\ UNCHANGED <<writeVars, tcp, sent, readVars>>

Close ==
    /\ pc[Closer] = "idle" /\ WriteFrame(Closer, "close")
    /\ UNCHANGED <<writeVars, tcp, sent, readVars>>

\* closeTCP, by Close or by the reader that has echoed a close frame.
CloseTCP(p) ==
    /\ pc[p] = "shut"
    /\ tcp' = "closed"
    /\ pc' = [pc EXCEPT ![p] = "ended"]
    /\ UNCHANGED <<job, writeVars, sent, readVars>>

-----------------------------------------------------------------------------
(* ReadMessage: one frame at a time *)

Reading == pc[Reader] = "idle"

Size(frames) == FoldLeft(LAMBDA n, f : n + sent[f].size, 0, frames)

\* Variant: each fragment is held to the limit by itself.
FitsAlone(frame) == frame.size <= MaxMessage

Fits(frame) == Size(buf) + frame.size <= MaxMessage

MayStart(frame) == frame.op = "text" /\ buf = <<>>

MayContinue(frame) == frame.op = "cont" /\ buf # <<>> /\ Fits(frame)

Data(frame) ==
    /\ MayStart(frame) \/ MayContinue(frame)
    /\ LET frames == Append(buf, read')
       IN  IF frame.fin
           THEN buf' = <<>> /\ delivered' = delivered \cup {frames}
           ELSE buf' = frames /\ UNCHANGED delivered
    /\ UNCHANGED <<pc, job>>

Control(frame) ==
    /\ UNCHANGED <<buf, delivered>>
    /\ \/ frame.op \in {"ping", "close"}
          /\ WriteFrame(Reader, IF frame.op = "ping" THEN "pong" ELSE "close")
       \/ frame.op = "pong" /\ UNCHANGED <<pc, job>>

\* A frame readFrame or ReadMessage refuses: the reader gives up, the socket stays.
Refused(frame) ==
    /\ \/ frame.op = "bad"
       \/ frame.op \in {"text", "cont"} /\ ~MayStart(frame) /\ ~MayContinue(frame)
    /\ pc' = [pc EXCEPT ![Reader] = "ended"]
    /\ UNCHANGED <<job, buf, delivered>>

ReadFrame ==
    /\ Reading /\ read < Len(sent)
    /\ read' = read + 1
    /\ LET frame == sent[read'] IN Data(frame) \/ Control(frame) \/ Refused(frame)
    /\ UNCHANGED <<writeVars, tcp, sent>>

ReadFails ==
    /\ Reading /\ tcp # "open"
    /\ pc' = [pc EXCEPT ![Reader] = "ended"]
    /\ UNCHANGED <<job, writeVars, tcp, sent, readVars>>

-----------------------------------------------------------------------------
(* Chrome and the socket *)

Frame(op, fin, size) == [op |-> op, fin |-> fin, size |-> size]

DataFrames ==
    {Frame(op, fin, size) : op \in {"text", "cont"}, fin \in BOOLEAN, size \in 1..MaxMessage}

\* "bad" stands for RSV bits, a mask, an unknown opcode and a length over the limit.
OtherFrames == {Frame(op, TRUE, 0) : op \in {"ping", "pong", "close", "bad"}}

ChromeSends(frame) ==
    /\ tcp = "open" /\ read = Len(sent) /\ Len(sent) < MaxFrames
    /\ sent' = Append(sent, frame)
    /\ UNCHANGED <<pc, job, writeVars, tcp, readVars>>

ChromeReads ==
    /\ queued > 0
    /\ queued' = queued - 1
    /\ UNCHANGED <<pc, job, lock, last, tcp, sent, readVars>>

Breaks ==
    /\ tcp = "open"
    /\ tcp' = "broken"
    /\ UNCHANGED <<pc, job, writeVars, sent, readVars>>

Write(p) == WriteHeader(p) \/ WritePayload(p) \/ WriteFails(p)

\* Both ends are closed; without writers nothing is left to do.
Finished ==
    /\ pc[Closer] = "ended" /\ pc[Reader] = "ended"
    /\ UNCHANGED vars

Next ==
    \/ \E w \in Writers : WriteMessage(w)
    \/ \E p \in Procs : Acquire(p) \/ Write(p) \/ CloseTCP(p)
    \/ Close \/ ReadFrame \/ ReadFails
    \/ \E frame \in DataFrames \cup OtherFrames : ChromeSends(frame)
    \/ ChromeReads \/ Breaks \/ Finished

Spec == Init /\ [][Next]_vars

\* Goroutines go on, and sync.Mutex starves nobody; Chrome owes nothing.
GoFairness ==
    /\ \A p \in Procs : SF_vars(Acquire(p)) /\ WF_vars(Write(p)) /\ WF_vars(CloseTCP(p))
    /\ WF_vars(ReadFrame \/ ReadFails)

GoFairSpec == Spec /\ GoFairness

\* Chrome goes on reading what it is sent.
FairSpec == GoFairSpec /\ WF_vars(ChromeReads)

-----------------------------------------------------------------------------
(* Properties *)

TypeOK ==
    /\ pc \in [Procs -> {"idle", "lock", "header", "payload", "shut", "ended"}]
    /\ job \in [Procs -> {"none", "text", "pong", "close"}]
    /\ lock \in Procs \cup {Nobody}
    /\ last \in [by : Procs \cup {Nobody}, part : {"header", "payload"}]
    /\ queued \in 0..Room
    /\ tcp \in {"open", "closed", "broken"}
    /\ sent \in Seq(DataFrames \cup OtherFrames)
    /\ read \in 0..Len(sent)
    /\ \A p \in Procs : pc[p] \in {"header", "payload"} <=> lock = p

\* On the socket a payload follows its own header, and a header never cuts into
\* another frame, whatever the callers, the pongs and Close do at the same time
\* (writeFrame).
FramesAreWhole ==
    [][last' # last =>
        IF last'.part = "header" THEN last.part = "payload"
        ELSE last = [by |-> last'.by, part |-> "header"]]_vars

\* A message returned is one message Chrome sent: it starts with a text frame,
\* ends with the one final frame, and leaves out no data frame between the two;
\* control frames inside it change nothing; and it is no longer than the limit,
\* however it was cut into frames (ReadMessage, maxMessage).
MessagesAreWhole ==
    \A m \in delivered :
        /\ sent[m[1]].op = "text" /\ sent[Last(m)].fin
        /\ \A i \in 1..Len(m) - 1 : ~sent[m[i]].fin /\ sent[m[i + 1]].op = "cont"
        /\ \A f \in m[1]..Last(m) : sent[f].op \in {"text", "cont"} => f \in ToSet(m)
        /\ Size(m) <= MaxMessage

\* Close comes back and the connection is closed (Close).
CloseReturns == pc[Closer] = "lock" ~> pc[Closer] = "ended"
=============================================================================
