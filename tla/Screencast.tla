----------------------------- MODULE Screencast -----------------------------
(***************************************************************************)
(* Screen recordings: screencast_start, screencast_stop and the frame      *)
(* handler of internal/tools/screencast.go, with the goroutines they leave *)
(* behind.  Recordings are numbered from 1, 0 is none.  Taking part:       *)
(*   - the tool goroutine, one tool at a time;                             *)
(*   - the read loop, which handles frames in the order they come;         *)
(*   - one timer callback per recording with a maximum duration;           *)
(*   - one goroutine per frame that acknowledges it;                       *)
(*   - Chrome (external), which casts a page from Page.startScreencast to  *)
(*     Page.stopScreencast and holds back frames while too many are        *)
(*     unacknowledged.                                                     *)
(* Every frame counts one unit of memory.                                  *)
(***************************************************************************)
EXTENDS Naturals, Sequences

CONSTANTS Pages,        (* attached pages, one session each                 *)
          MaxRecordings,(* bound: screencast_start calls that open a root  *)
          MaxSent,      (* bound: frames Chrome sends                       *)
          FrameLimits,  (* the maxFrames values tried                       *)
          MaxBytes,     (* screencastState.maxBytes, in frames              *)
          Window        (* unacknowledged frames Chrome tolerates per page  *)

ASSUME ScreencastAssumption ==
    /\ MaxRecordings \in Nat /\ MaxSent \in Nat /\ MaxBytes \in Nat /\ Window \in Nat \ {0}
    /\ FrameLimits \subseteq Nat \ {0}

Recordings == 1..MaxRecordings

VARIABLES
    casts,      \* collectors.screencasts: the recording of each page
    rec,        \* the screencastState of each recording
    timer,      \* its stopTimer: "none", "armed", "stopped", or the callback at
                \* "mark", "tell", "done"
    root,       \* its os.Root: "none", "open" or "closed"
    pc, page,   \* the tool goroutine and the page it acts on
    cur,        \* the recording it starts or stops
    got,        \* the reply to its Page.startScreencast or Page.stopScreencast
    acks,       \* acknowledgements on their way, as pages
    wire,       \* frames and replies on their way from Chrome
    queue,      \* Chrome: requests waiting for each page
    casting,    \* Chrome: the recording whose start each page is casting for
    unacked,    \* Chrome: frames each page sent without acknowledgement
    sent,       \* Chrome: frames sent so far
    alive,      \* Chrome: the pages that still exist
    late        \* pages on which a call of the tools was given up

toolVars == <<pc, page, cur, got>>
chromeVars == <<queue, casting, unacked, sent, alive>>
vars == <<casts, rec, timer, root, toolVars, acks, wire, chromeVars, late>>

Blank == [page |-> "none", active |-> FALSE, collecting |-> FALSE, frames |-> <<>>,
          maxFrames |-> 0, limitHit |-> "none"]

Init ==
    /\ casts = [p \in Pages |-> 0]
    /\ rec = [r \in Recordings |-> Blank]
    /\ timer = [r \in Recordings |-> "none"]
    /\ root = [r \in Recordings |-> "none"]
    /\ pc = "idle" /\ page = "none" /\ cur = 0 /\ got = "none"
    /\ acks = [p \in Pages |-> 0]
    /\ wire = <<>>
    /\ queue = [p \in Pages |-> <<>>]
    /\ casting = [p \in Pages |-> 0]
    /\ unacked = [p \in Pages |-> 0] /\ sent = 0
    /\ alive = Pages
    /\ late = {}

Request(p, kind, r) == queue' = [queue EXCEPT ![p] = Append(@, [kind |-> kind, rec |-> r])]

-----------------------------------------------------------------------------
(* screencast_start *)

\* Variant: the directory stays open when the recording could not start.
KeepRoot(r) == UNCHANGED root

CloseRoot(r) == root' = [root EXCEPT ![r] = "closed"]

\* The root of the directory is opened before anything is known of the page.
OpenRoot(r) ==
    /\ pc = "idle"
    /\ root[r] = "none" /\ \A q \in 1..(r - 1) : root[q] # "none"
    /\ root' = [root EXCEPT ![r] = "open"]
    /\ cur' = r /\ pc' = "open"
    /\ UNCHANGED <<casts, rec, timer, page, got, acks, wire, chromeVars, late>>

\* No page can be selected, or the one that is records already.
RefuseStart ==
    /\ pc = "open"
    /\ pc' = "idle"
    /\ CloseRoot(cur)
    /\ UNCHANGED <<casts, rec, timer, page, cur, got, acks, wire, chromeVars, late>>

\* The section under collectors.mu: register the new recording and arm its timer.
Start(p, r, limit, timed) ==
    /\ pc = "open" /\ cur = r
    /\ p \in alive /\ casts[p] = 0
    /\ rec' = [rec EXCEPT ![r] = [page |-> p, active |-> TRUE, collecting |-> TRUE, frames |-> <<>>,
                                  maxFrames |-> limit, limitHit |-> "none"]]
    /\ casts' = [casts EXCEPT ![p] = r]
    /\ timer' = [timer EXCEPT ![r] = IF timed THEN "armed" ELSE "none"]
    /\ page' = p /\ pc' = "start"
    /\ UNCHANGED <<root, cur, got, acks, wire, chromeVars, late>>

\* Page.startScreencast goes out.
SendStart ==
    /\ pc = "start"
    /\ Request(page, "start", cur)
    /\ pc' = "starting"
    /\ UNCHANGED <<casts, rec, timer, root, page, cur, got, acks, wire, casting, unacked, sent,
                   alive, late>>

Unfile(p) == [casts EXCEPT ![p] = 0]

StartReplied ==
    /\ pc = "starting" /\ got # "none"
    /\ got' = "none"
    /\ pc' = "idle"
    /\ IF got = "ok"
       THEN UNCHANGED <<casts, root>>
       ELSE /\ casts' = Unfile(page)
            /\ CloseRoot(cur)
    /\ UNCHANGED <<rec, timer, page, cur, acks, wire, chromeVars, late>>

-----------------------------------------------------------------------------
(* screencast_stop *)

Ended(r) == [rec EXCEPT ![r] = [@ EXCEPT !.active = FALSE, !.collecting = FALSE]]

\* Under collectors.mu: end the recording, disarm its timer, take it out.
Stop(p) ==
    /\ pc = "idle" /\ p \in alive /\ casts[p] # 0
    /\ rec' = Ended(casts[p])
    /\ timer' = [timer EXCEPT ![casts[p]] = IF @ = "armed" THEN "stopped" ELSE @]
    /\ casts' = Unfile(p)
    /\ page' = p /\ cur' = casts[p] /\ pc' = "stop"
    /\ UNCHANGED <<root, got, acks, wire, chromeVars, late>>

StopWaits == "stopping"

SendStop ==
    /\ pc = "stop"
    /\ Request(page, "stop", cur)
    /\ pc' = StopWaits
    /\ UNCHANGED <<casts, rec, timer, root, page, cur, got, acks, wire, casting, unacked, sent,
                   alive, late>>

\* Whether the GIF is written or an error is returned, the root is closed.
StopReplied ==
    /\ pc = "stopping" /\ got # "none"
    /\ got' = "none"
    /\ pc' = "idle"
    /\ CloseRoot(cur)
    /\ UNCHANGED <<casts, rec, timer, page, cur, acks, wire, chromeVars, late>>

\* Either call is given up after defaultCallTimeout; Chrome may still serve it.
GiveUp ==
    /\ pc \in {"starting", "stopping"} /\ got = "none"
    /\ pc' = "idle"
    /\ CloseRoot(cur)
    /\ casts' = IF pc = "starting" THEN Unfile(page) ELSE casts
    /\ late' = late \cup {page}
    /\ UNCHANGED <<rec, timer, page, cur, got, acks, wire, chromeVars>>

-----------------------------------------------------------------------------
(* The timer callback *)

Fire(r) ==
    /\ timer[r] = "armed"
    /\ timer' = [timer EXCEPT ![r] = "mark"]
    /\ UNCHANGED <<casts, rec, root, toolVars, acks, wire, chromeVars, late>>

\* Variant: whatever the page records by now is cut off.
MarksAny(r) == casts[rec[r].page]

\* Variant: a deadline is acted on only once a frame has come.
MarksWithFrames(r) == IF rec[r].frames # <<>> /\ casts[rec[r].page] = r THEN r ELSE 0

\* The recording the callback may cut off: its own, while it is the page's.
Marks(r) == IF casts[rec[r].page] = r THEN r ELSE 0

StillCollects(q) == rec[q].collecting

\* The recording goes on without collecting, and screencast_stop will say why.
Cut(r, limit) == [rec EXCEPT ![r] = [@ EXCEPT !.collecting = FALSE, !.limitHit = limit]]

Mark(r) ==
    /\ timer[r] = "mark"
    /\ timer' = [timer EXCEPT ![r] = "tell"]
    /\ rec' = IF Marks(r) # 0 /\ StillCollects(Marks(r))
              THEN Cut(Marks(r), "maxDurationMs") ELSE rec
    /\ UNCHANGED <<casts, root, toolVars, acks, wire, chromeVars, late>>

\* Page.stopScreencast, in any case.
Tell(r) ==
    /\ timer[r] = "tell"
    /\ timer' = [timer EXCEPT ![r] = "done"]
    /\ Request(rec[r].page, "tell", r)
    /\ UNCHANGED <<casts, rec, root, toolVars, acks, wire, casting, unacked, sent, alive, late>>

-----------------------------------------------------------------------------
(* The read loop *)

FullFrames(r) == Len(rec[r].frames) >= rec[r].maxFrames

\* Variant: the frame at hand is not counted.
OverBytes(r) == Len(rec[r].frames) > MaxBytes

FullBytes(r) == Len(rec[r].frames) + 1 > MaxBytes

Kept(r, frame) == [rec EXCEPT ![r].frames = Append(@, frame.rec)]

\* What one frame does to the page's recording.
Store(r, frame, decodes) ==
    IF r = 0 \/ ~rec[r].collecting \/ ~decodes THEN rec
    ELSE IF FullFrames(r) THEN Cut(r, "maxFrames")
    ELSE IF FullBytes(r) THEN Cut(r, "memory")
    ELSE Kept(r, frame)

\* Variant: only frames that are kept are acknowledged.
AckStored(p) == IF casts[p] # 0 /\ rec[casts[p]].collecting THEN [acks EXCEPT ![p] = @ + 1] ELSE acks

Ack(p) == [acks EXCEPT ![p] = @ + 1]

ReadFrame ==
    /\ wire # <<>> /\ Head(wire).kind = "frame"
    /\ \E decodes \in BOOLEAN : rec' = Store(casts[Head(wire).page], Head(wire), decodes)
    /\ acks' = Ack(Head(wire).page)
    /\ wire' = Tail(wire)
    /\ UNCHANGED <<casts, timer, root, toolVars, chromeVars, late>>

\* A reply to a call nobody waits for any more is discarded.
ReadReply ==
    /\ wire # <<>> /\ Head(wire).kind \in {"ok", "err"}
    /\ got' = IF pc = Head(wire).to /\ cur = Head(wire).rec THEN Head(wire).kind ELSE got
    /\ wire' = Tail(wire)
    /\ UNCHANGED <<casts, rec, timer, root, pc, page, cur, acks, chromeVars, late>>

\* The goroutine of one frame sends Page.screencastFrameAck.
SendAck(p) ==
    /\ acks[p] > 0
    /\ acks' = [acks EXCEPT ![p] = @ - 1]
    /\ Request(p, "ack", 0)
    /\ UNCHANGED <<casts, rec, timer, root, toolVars, wire, casting, unacked, sent, alive, late>>

-----------------------------------------------------------------------------
(* Chrome *)

Reply(kind, request) ==
    IF request.kind \in {"start", "stop"}
    THEN Append(wire, [kind |-> kind, rec |-> request.rec,
                       to |-> IF request.kind = "start" THEN "starting" ELSE "stopping"])
    ELSE wire

Serve(p) ==
    /\ queue[p] # <<>>
    /\ queue' = [queue EXCEPT ![p] = Tail(@)]
    /\ IF p \in alive
       THEN LET request == Head(queue[p])
            IN  /\ casting' = [casting EXCEPT ![p] =
                     CASE request.kind = "start" -> request.rec
                       [] request.kind \in {"stop", "tell"} -> 0
                       [] OTHER -> @]
                /\ unacked' = [unacked EXCEPT ![p] =
                     CASE request.kind = "start" -> 0
                       [] request.kind = "ack" /\ @ > 0 -> @ - 1
                       [] OTHER -> @]
                /\ wire' = Reply("ok", request)
       ELSE wire' = Reply("err", Head(queue[p])) /\ UNCHANGED <<casting, unacked>>
    /\ UNCHANGED <<casts, rec, timer, root, toolVars, acks, sent, alive, late>>

\* The page repaints.
SendFrame(p) ==
    /\ casting[p] # 0 /\ unacked[p] < Window /\ sent < MaxSent
    /\ wire' = Append(wire, [kind |-> "frame", page |-> p, rec |-> casting[p]])
    /\ unacked' = [unacked EXCEPT ![p] = @ + 1]
    /\ sent' = sent + 1
    /\ UNCHANGED <<casts, rec, timer, root, toolVars, acks, queue, casting, alive, late>>

\* The page is closed, by close_page or by the user.
PageCloses(p) ==
    /\ p \in alive
    /\ alive' = alive \ {p}
    /\ casting' = [casting EXCEPT ![p] = 0]
    /\ UNCHANGED <<casts, rec, timer, root, toolVars, acks, wire, queue, unacked, sent, late>>

-----------------------------------------------------------------------------
ToolStep == RefuseStart \/ SendStart \/ StartReplied \/ SendStop \/ StopReplied
ReadLoop == ReadFrame \/ ReadReply
Callback(r) == Mark(r) \/ Tell(r)

Next ==
    \/ \E p \in Pages, r \in Recordings, limit \in FrameLimits, timed \in BOOLEAN : Start(p, r, limit, timed)
    \/ \E r \in Recordings : OpenRoot(r)
    \/ \E p \in Pages : Stop(p)
    \/ ToolStep \/ GiveUp
    \/ ReadLoop
    \/ \E r \in Recordings : Fire(r) \/ Callback(r)
    \/ \E p \in Pages : SendAck(p) \/ Serve(p) \/ PageCloses(p) \/ SendFrame(p)

Spec == Init /\ [][Next]_vars

\* The goroutines run, timers fire, and Chrome serves what it is asked.
FairSpec ==
    /\ Spec
    /\ WF_vars(ToolStep) /\ WF_vars(ReadLoop)
    /\ \A r \in Recordings : WF_vars(Fire(r)) /\ WF_vars(Callback(r))
    /\ \A p \in Pages : WF_vars(SendAck(p)) /\ WF_vars(Serve(p))

-----------------------------------------------------------------------------
(* Properties *)

\* Every variable keeps its type, and the map holds only active recordings of
\* the page they are filed under.
TypeOK ==
    /\ \A p \in Pages : casts[p] # 0 => casts[p] \in Recordings /\ rec[casts[p]].active /\ rec[casts[p]].page = p
    /\ \A r \in Recordings :
        /\ rec[r].limitHit \in {"none", "maxFrames", "memory", "maxDurationMs"}
        /\ timer[r] \in {"none", "armed", "stopped", "mark", "tell", "done"}
        /\ root[r] \in {"none", "open", "closed"}
    /\ pc \in {"idle", "open", "start", "starting", "stop", "stopping"} /\ cur \in 0..MaxRecordings
    /\ \A p \in Pages : unacked[p] \in 0..Window /\ casting[p] \in 0..MaxRecordings

\* A recording stays within its frame and memory budgets, whichever recording
\* frames arrive for, and screencast_stop always says why collection ended:
\* among running recordings, those that stopped collecting are those with a
\* limit to report (screencast.go:61-68, 158-161, 284-303).
LimitsAreKept ==
    /\ \A r \in Recordings : Len(rec[r].frames) <= rec[r].maxFrames /\ Len(rec[r].frames) <= MaxBytes
    /\ \A p \in Pages : casts[p] # 0 => (rec[casts[p]].limitHit # "none" <=> ~rec[casts[p]].collecting)

\* Only a recording's own deadline cuts it off: a callback that fires late, when
\* the page is recording something else, leaves that alone (screencast.go:158).
OwnDeadline ==
    \A r \in Recordings : rec[r].limitHit = "maxDurationMs" => timer[r] \in {"tell", "done"}

\* A recording holds only frames Chrome took for it, unless some call of the
\* tools on that page was given up and landed later: stop waits for a reply that
\* comes after the last frame (screencast.go:220-239).
OwnFrames ==
    \A r \in Recordings : rec[r].page \notin late =>
        \A i \in 1..Len(rec[r].frames) : rec[r].frames[i] = r

\* One recording never disturbs, or feeds, another.
RecordingsAreSeparate == OwnDeadline /\ OwnFrames

\* Directory handles are not leaked, whichever step of a start fails: between tools
\* an open root belongs to a recording that is still filed (screencast.go:120-134,
\* 195-200, 233).
NoRootLeak ==
    pc = "idle" => \A r \in Recordings : root[r] = "open" <=> \E p \in Pages : casts[p] = r

\* "A wall-clock deadline must not depend on frames arriving" (screencast.go:151-153).
DeadlineEndsCollection ==
    \A r \in Recordings :
        (timer[r] = "armed") ~> (~rec[r].collecting \/ \A p \in Pages : casts[p] # r)

\* Every frame is acknowledged, kept or not: "Ack so Chrome keeps sending
\* frames" (screencast.go:78).  Otherwise the recording silently stalls.
FramesAcknowledged ==
    \A p \in Pages : (unacked[p] > 0) ~> (unacked[p] = 0 \/ p \notin alive)

\* "active means the recording exists and screencast_stop can end it"
\* (collectors.go:77-78): stop acts on a page that exists.
ActiveCanBeStopped ==
    pc = "idle" => \A p \in Pages : casts[p] # 0 => p \in alive

Quiet(p) == pc = "idle" /\ wire = <<>> /\ queue[p] = <<>>

\* "Tell Chrome to stop too, so it is not producing frames we would only throw
\* away" (screencast.go:163-164): once the callback is through, Chrome is idle.
NoFramesToThrowAway ==
    \A p \in Pages : Quiet(p) /\ casts[p] # 0 /\ timer[casts[p]] = "done" => casting[p] = 0

\* The converse: a page whose recording collects is being cast
\* ("collecting means frames are still being accepted", collectors.go:79).
CollectingIsCast ==
    \A p \in Pages : Quiet(p) /\ p \in alive /\ p \notin late /\ casts[p] # 0 /\ rec[casts[p]].collecting => casting[p] # 0
=============================================================================
