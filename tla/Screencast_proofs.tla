------------------------- MODULE Screencast_proofs -------------------------
(***************************************************************************)
(* Proofs about Screencast, for any pages, any number of recordings and    *)
(* any limits: a recording stays within its budgets and says what cut it,  *)
(* no directory stays open, and one recording neither cuts off nor feeds   *)
(* another.  The last needs the order of messages: once Chrome has         *)
(* answered screencast_stop, no frame of the page follows.                 *)
(***************************************************************************)
EXTENDS Screencast, SequenceTheorems, TLAPS

-----------------------------------------------------------------------------
(* The inductive invariant *)

RecStates == [page : Pages \cup {"none"}, active : BOOLEAN, collecting : BOOLEAN,
              frames : Seq(Recordings), maxFrames : Nat,
              limitHit : {"none", "maxFrames", "memory", "maxDurationMs"}]
Frames == [kind : {"frame"}, page : Pages, rec : Recordings]
Replies == [kind : {"ok", "err"}, rec : Recordings, to : {"starting", "stopping"}]
Calls == [kind : {"start", "stop"}, rec : Recordings]
Others == [kind : {"tell", "ack"}, rec : 0..MaxRecordings]

Types ==
    /\ casts \in [Pages -> 0..MaxRecordings] /\ rec \in [Recordings -> RecStates]
    /\ timer \in [Recordings -> {"none", "armed", "stopped", "mark", "tell", "done"}]
    /\ root \in [Recordings -> {"none", "open", "closed"}]
    /\ pc \in {"idle", "open", "start", "starting", "stop", "stopping"} /\ cur \in 0..MaxRecordings
    /\ got \in {"none", "ok", "err"}
    /\ acks \in [Pages -> Nat]
    /\ wire \in Seq(Frames \cup Replies) /\ queue \in [Pages -> Seq(Calls \cup Others)]
    /\ casting \in [Pages -> 0..MaxRecordings] /\ unacked \in [Pages -> 0..Window]
    /\ sent \in Nat /\ alive \subseteq Pages /\ late \subseteq Pages

\* A page's recording is one begun for it, and running.  The tool acts on a
\* recording of its page: filed when it starts it, taken out when it stops it.
Filed ==
    /\ \A p \in Pages : casts[p] # 0 =>
        rec[casts[p]].active = TRUE /\ rec[casts[p]].page = p /\ rec[casts[p]] # Blank
    /\ pc \notin {"idle", "open"} =>
        page \in Pages /\ cur \in Recordings /\ rec[cur].page = page /\ rec[cur] # Blank
    /\ pc \in {"start", "starting"} => casts[page] = cur
    /\ pc \in {"stop", "stopping"} => casts[page] = 0
    /\ got # "none" => pc \in {"starting", "stopping"}
    /\ \A r \in Recordings :
        /\ rec[r] # Blank => rec[r].maxFrames # 0 /\ rec[r].page \in Pages
        /\ timer[r] # "none" => rec[r] # Blank

\* A directory is open for a recording that is about to be filed, is filed or is
\* being stopped, and no recording begins before its directory is opened.
HoldsRoot == {"open", "stop", "stopping"}

Roots ==
    /\ pc = "open" => cur \in Recordings /\ rec[cur] = Blank
    /\ \A r \in Recordings :
        /\ root[r] = "open" <=> (\E p \in Pages : casts[p] = r) \/ (pc \in HoldsRoot /\ cur = r)
        /\ root[r] = "none" => rec[r] = Blank

CallAt(p, i) == i \in 1..Len(queue[p]) /\ queue[p][i] \in Calls
ReplyAt(p, i) == i \in 1..Len(wire) /\ wire[i] \in Replies /\ rec[wire[i].rec].page = p
FrameAt(p, i) == i \in 1..Len(wire) /\ wire[i] \in Frames /\ wire[i].page = p

\* Calls and replies are about recordings that have begun.
Known ==
    /\ \A p \in Pages, i \in Nat : CallAt(p, i) => rec[queue[p][i].rec] # Blank /\ rec[queue[p][i].rec].page = p
    /\ \A i \in 1..Len(wire) : wire[i] \in Replies => rec[wire[i].rec] # Blank

Waits(p, r, for) == page = p /\ cur = r /\ pc = for /\ got = "none"
For(kind) == IF kind = "start" THEN "starting" ELSE "stopping"

\* A page none of whose calls was given up has at most one call or reply under
\* way, the one the tool waits for.  Only a page that is gone answers an error.
CalledOnce(p) ==
    /\ \A i \in Nat : CallAt(p, i) =>
        /\ Waits(p, queue[p][i].rec, For(queue[p][i].kind))
        /\ \A j \in Nat : CallAt(p, j) => j = i
        /\ \A j \in Nat : ~ReplyAt(p, j)
    /\ \A i \in Nat : ReplyAt(p, i) =>
        /\ Waits(p, wire[i].rec, wire[i].to)
        /\ \A j \in Nat : ReplyAt(p, j) => j = i
        /\ wire[i].kind = "err" => p \notin alive
    /\ page = p /\ got = "err" => p \notin alive

OneCall == \A p \in Pages \ late : CalledOnce(p)

NoFrames(p) == \A i \in Nat : ~FrameAt(p, i)
Silent(p) == casting[p] = 0 /\ NoFrames(p)

Stopped(p) == page = p /\ pc = "stopping" /\ got # "none"
Unused(p) == casts[p] = 0 /\ ~(page = p /\ pc \in {"stop", "stopping"})

\* Frames of such a page come before the reply that ends its recording, and
\* none comes while it records nothing.
FramesEnd(p) ==
    /\ \A i \in Nat : ReplyAt(p, i) /\ wire[i].to = "stopping" =>
           casting[p] = 0 /\ \A j \in Nat : FrameAt(p, j) => j < i
    /\ Stopped(p) \/ Unused(p) => Silent(p)

Silence == \A p \in alive \ late : FramesEnd(p)

\* Such a page casts, and has cast, for the recording it is filed with.
Current ==
    \A p \in Pages \ late : casts[p] # 0 =>
        /\ casting[p] \in {0, casts[p]}
        /\ \A i \in Nat : FrameAt(p, i) => wire[i].rec = casts[p]

IInv == Types /\ Filed /\ LimitsAreKept /\ Roots /\ OwnDeadline /\ Known /\ OneCall /\ Silence /\ Current
            /\ OwnFrames

-----------------------------------------------------------------------------
(* Sequences *)

LEMMA Appended ==
  ASSUME NEW S, NEW s \in Seq(S), NEW x \in S
  PROVE  /\ Append(s, x) \in Seq(S) /\ Len(s) \in Nat /\ Len(Append(s, x)) = Len(s) + 1
         /\ \A i \in 1..Len(s) : Append(s, x)[i] = s[i]
         /\ Append(s, x)[Len(s) + 1] = x
BY AppendProperties

LEMMA Tailed ==
  ASSUME NEW S, NEW s \in Seq(S), s # <<>>
  PROVE  /\ Tail(s) \in Seq(S) /\ Len(s) \in Nat /\ Len(Tail(s)) = Len(s) - 1
         /\ \A i \in 1..(Len(s) - 1) : Tail(s)[i] = s[i + 1]
         /\ Head(s) = s[1] /\ s[1] \in S /\ 1 \in 1..Len(s)
<1>1. Tail(s) \in Seq(S) /\ Len(Tail(s)) = Len(s) - 1
      /\ \A i \in 1..Len(Tail(s)) : Tail(s)[i] = s[i + 1]
  BY HeadTailProperties
<1>2. Len(s) \in Nat /\ Len(s) # 0
  BY EmptySeq, LenProperties
<1>3. 1 \in 1..Len(s)
  BY <1>2
<1> QED
  BY <1>1, <1>2, <1>3, ElementOfSeq DEF Head

LEMMA MessagesApart ==
  /\ \A m \in Frames : m.kind = "frame" /\ m.page \in Pages /\ m.rec \in Recordings /\ m \notin Replies
  /\ \A m \in Replies : m.kind \in {"ok", "err"} /\ m.rec \in Recordings /\ m.to \in {"starting", "stopping"}
                        /\ m \notin Frames
  /\ \A x \in Calls : x.kind \in {"start", "stop"} /\ x.rec \in Recordings /\ x \notin Others
  /\ \A x \in Others : x.kind \in {"tell", "ack"} /\ x.rec \in 0..MaxRecordings /\ x \notin Calls
<1>1. \A m \in Frames : m.kind = "frame" /\ m.page \in Pages /\ m.rec \in Recordings
  BY DEF Frames
<1>2. \A m \in Replies : m.kind \in {"ok", "err"} /\ m.rec \in Recordings /\ m.to \in {"starting", "stopping"}
  BY DEF Replies
<1>3. \A x \in Calls : x.kind \in {"start", "stop"} /\ x.rec \in Recordings
  BY DEF Calls
<1>4. \A x \in Others : x.kind \in {"tell", "ack"} /\ x.rec \in 0..MaxRecordings
  BY DEF Others
<1> QED
  BY <1>1, <1>2, <1>3, <1>4

LEMMA Numbers == MaxRecordings \in Nat /\ \A r \in Recordings : r \in Nat /\ r # 0 /\ r \in 0..MaxRecordings
BY ScreencastAssumption DEF Recordings

-----------------------------------------------------------------------------
(* Updates of a recording *)

LEMMA CutIs ==
  ASSUME Types, NEW r \in Recordings, NEW limit \in {"none", "maxFrames", "memory", "maxDurationMs"}
  PROVE  /\ Cut(r, limit) \in [Recordings -> RecStates]
         /\ \A q \in Recordings \ {r} : Cut(r, limit)[q] = rec[q]
         /\ Cut(r, limit)[r].page = rec[r].page /\ Cut(r, limit)[r].active = rec[r].active
         /\ Cut(r, limit)[r].frames = rec[r].frames /\ Cut(r, limit)[r].maxFrames = rec[r].maxFrames
         /\ Cut(r, limit)[r].collecting = FALSE /\ Cut(r, limit)[r].limitHit = limit
<1> DEFINE s == [rec[r] EXCEPT !.collecting = FALSE, !.limitHit = limit]
<1>1. rec \in [Recordings -> RecStates] /\ rec[r] \in RecStates
  BY DEF Types
<1>2. /\ s \in RecStates /\ s.page = rec[r].page /\ s.active = rec[r].active /\ s.frames = rec[r].frames
      /\ s.maxFrames = rec[r].maxFrames /\ s.collecting = FALSE /\ s.limitHit = limit
  BY <1>1 DEF RecStates
<1>3. Cut(r, limit) = [rec EXCEPT ![r] = s]
  BY DEF Cut
<1> HIDE DEF s
<1> QED
  BY <1>1, <1>2, <1>3

LEMMA EndedIs ==
  ASSUME Types, NEW r \in Recordings
  PROVE  /\ Ended(r) \in [Recordings -> RecStates]
         /\ \A q \in Recordings \ {r} : Ended(r)[q] = rec[q]
         /\ Ended(r)[r].page = rec[r].page /\ Ended(r)[r].limitHit = rec[r].limitHit
         /\ Ended(r)[r].frames = rec[r].frames /\ Ended(r)[r].maxFrames = rec[r].maxFrames
<1> DEFINE s == [rec[r] EXCEPT !.active = FALSE, !.collecting = FALSE]
<1>1. rec \in [Recordings -> RecStates] /\ rec[r] \in RecStates
  BY DEF Types
<1>2. /\ s \in RecStates /\ s.page = rec[r].page /\ s.limitHit = rec[r].limitHit /\ s.frames = rec[r].frames
      /\ s.maxFrames = rec[r].maxFrames
  BY <1>1 DEF RecStates
<1>3. Ended(r) = [rec EXCEPT ![r] = s]
  BY DEF Ended
<1> HIDE DEF s
<1> QED
  BY <1>1, <1>2, <1>3

LEMMA KeptIs ==
  ASSUME Types, NEW r \in Recordings, NEW frame \in Frames
  PROVE  /\ Kept(r, frame) \in [Recordings -> RecStates]
         /\ \A q \in Recordings \ {r} : Kept(r, frame)[q] = rec[q]
         /\ Kept(r, frame)[r].page = rec[r].page /\ Kept(r, frame)[r].active = rec[r].active
         /\ Kept(r, frame)[r].maxFrames = rec[r].maxFrames
         /\ Kept(r, frame)[r].collecting = rec[r].collecting /\ Kept(r, frame)[r].limitHit = rec[r].limitHit
         /\ Kept(r, frame)[r].frames = Append(rec[r].frames, frame.rec)
<1> DEFINE f == Append(rec[r].frames, frame.rec)
           s == [rec[r] EXCEPT !.frames = f]
<1>1. rec \in [Recordings -> RecStates] /\ rec[r] \in RecStates
  BY DEF Types
<1>2. f \in Seq(Recordings)
  BY <1>1, Appended, MessagesApart DEF RecStates
<1> HIDE DEF f
<1>3. /\ s \in RecStates /\ s.page = rec[r].page /\ s.active = rec[r].active /\ s.frames = f
      /\ s.maxFrames = rec[r].maxFrames /\ s.collecting = rec[r].collecting /\ s.limitHit = rec[r].limitHit
  BY <1>1, <1>2 DEF RecStates
<1>4. Kept(r, frame) = [rec EXCEPT ![r] = s]
  BY DEF Kept, f
<1> HIDE DEF s
<1>5. f = Append(rec[r].frames, frame.rec)
  BY DEF f
<1> QED
  BY <1>1, <1>3, <1>4, <1>5

LEMMA Stored ==
  ASSUME Types, NEW r \in 0..MaxRecordings, NEW frame \in Frames, NEW decodes \in BOOLEAN
  PROVE  \/ Store(r, frame, decodes) = rec
         \/ r \in Recordings /\ rec[r].collecting /\ FullFrames(r) /\ Store(r, frame, decodes) = Cut(r, "maxFrames")
         \/ r \in Recordings /\ rec[r].collecting /\ FullBytes(r) /\ Store(r, frame, decodes) = Cut(r, "memory")
         \/ /\ r \in Recordings /\ rec[r].collecting /\ ~FullFrames(r) /\ ~FullBytes(r)
            /\ Store(r, frame, decodes) = Kept(r, frame)
BY Numbers DEF Store, Recordings

LEMMA Marked ==
  ASSUME IInv, NEW r \in Recordings, Mark(r)
  PROVE  \/ rec' = rec
         \/ casts[rec[r].page] = r /\ rec' = Cut(r, "maxDurationMs")
BY Numbers DEF Mark, Marks

LEMMA Filing ==
  ASSUME IInv, NEW p \in Pages
  PROVE  /\ casts[p] \in Nat /\ casts[p] \in 0..MaxRecordings
         /\ casts[p] # 0 => casts[p] \in Recordings /\ rec[casts[p]].page = p /\ rec[casts[p]] # Blank
         /\ \A q \in Pages : casts[p] # 0 /\ casts[p] = casts[q] => p = q
<1>1. casts[p] \in 0..MaxRecordings /\ MaxRecordings \in Nat
  BY Numbers DEF IInv, Types
<1>2. casts[p] # 0 => casts[p] \in Recordings
  BY <1>1 DEF Recordings
<1> QED
  BY <1>1, <1>2 DEF IInv, Filed

LEMMA BeginsBlank ==
  ASSUME IInv, NEW p, NEW r, NEW limit, NEW timed, Start(p, r, limit, timed)
  PROVE  rec[r] = Blank /\ pc = "open" /\ cur = r /\ got = "none"
BY DEF IInv, Roots, Filed, Start

\* The steps of screencast_start that come before the section.
Opens == (\E r \in Recordings : OpenRoot(r)) \/ RefuseStart

LEMMA OpensOnly ==
  ASSUME Opens
  PROVE  /\ UNCHANGED <<casts, rec, timer, page, got, acks, wire, queue, casting, unacked, sent, alive, late>>
         /\ pc \in {"idle", "open"} /\ pc' \in {"idle", "open"}
BY DEF Opens, OpenRoot, RefuseStart, chromeVars

LEMMA FrameOnWire ==
  ASSUME Types, ReadFrame
  PROVE  /\ wire # <<>> /\ wire[1] \in Frames /\ wire[1].page \in Pages /\ FrameAt(wire[1].page, 1)
         /\ \E decodes \in BOOLEAN : rec' = Store(casts[wire[1].page], wire[1], decodes)
<1>1. wire # <<>> /\ wire \in Seq(Frames \cup Replies)
  BY DEF ReadFrame, Types
<1>2. Head(wire) = wire[1] /\ wire[1] \in Frames \cup Replies /\ 1 \in 1..Len(wire)
  BY <1>1, Tailed
<1>3. wire[1] \in Frames
  BY <1>2, MessagesApart DEF ReadFrame
<1> QED
  BY <1>1, <1>2, <1>3, MessagesApart DEF ReadFrame, FrameAt

\* What a recording is, and the page it is of, never changes.
LEMMA RecordingsStay ==
  ASSUME IInv, Next
  PROVE  /\ rec' \in [Recordings -> RecStates]
         /\ \A r \in Recordings : rec[r] # Blank =>
                rec'[r] # Blank /\ rec'[r].page = rec[r].page /\ rec'[r].maxFrames = rec[r].maxFrames
<1>1. Types /\ rec \in [Recordings -> RecStates]
  BY DEF IInv, Types
<1>2. ASSUME rec' \in [Recordings -> RecStates],
             \A r \in Recordings : rec[r] # Blank => rec'[r].page = rec[r].page /\ rec'[r].maxFrames = rec[r].maxFrames
      PROVE  \A r \in Recordings : rec[r] # Blank =>
                rec'[r] # Blank /\ rec'[r].page = rec[r].page /\ rec'[r].maxFrames = rec[r].maxFrames
  <2>1. Blank.maxFrames = 0
    BY DEF Blank
  <2>2. \A r \in Recordings : rec[r] # Blank => rec[r].maxFrames # 0
    BY DEF IInv, Filed
  <2> QED
    BY <1>2, <2>1, <2>2
<1>3. ASSUME NEW p \in Pages, NEW r \in Recordings, NEW limit \in FrameLimits, NEW timed \in BOOLEAN,
             Start(p, r, limit, timed)
      PROVE  rec' \in [Recordings -> RecStates] /\ \A q \in Recordings : rec[q] # Blank => rec'[q] = rec[q]
  <2> DEFINE s == [page |-> p, active |-> TRUE, collecting |-> TRUE, frames |-> <<>>,
                   maxFrames |-> limit, limitHit |-> "none"]
  <2>1. <<>> \in Seq(Recordings) /\ limit \in Nat
    BY ScreencastAssumption
  <2>2. s \in RecStates
    BY <2>1 DEF RecStates
  <2>3. rec' = [rec EXCEPT ![r] = s] /\ rec[r] = Blank
    BY <1>3, BeginsBlank DEF Start
  <2> HIDE DEF s
  <2> QED
    BY <1>1, <2>2, <2>3
<1>4. ASSUME NEW p \in Pages, Stop(p)
      PROVE  rec' \in [Recordings -> RecStates]
             /\ \A r \in Recordings : rec'[r].page = rec[r].page /\ rec'[r].maxFrames = rec[r].maxFrames
  <2>1. casts[p] \in Recordings /\ rec' = Ended(casts[p])
    BY <1>4, Filing DEF Stop
  <2> QED
    BY <1>1, <2>1, EndedIs
<1>5. ASSUME NEW r \in Recordings, Mark(r)
      PROVE  rec' \in [Recordings -> RecStates]
             /\ \A q \in Recordings : rec'[q].page = rec[q].page /\ rec'[q].maxFrames = rec[q].maxFrames
  <2>1. rec' = rec \/ rec' = Cut(r, "maxDurationMs")
    BY <1>5, Marked
  <2>2. CASE rec' = Cut(r, "maxDurationMs")
    <3>1. /\ rec' \in [Recordings -> RecStates] /\ \A q \in Recordings \ {r} : rec'[q] = rec[q]
          /\ rec'[r].page = rec[r].page /\ rec'[r].maxFrames = rec[r].maxFrames
      BY <1>1, <2>2, CutIs
    <3> QED
      BY <3>1
  <2> QED
    BY <1>1, <2>1, <2>2
<1>6. ASSUME ReadFrame
      PROVE  rec' \in [Recordings -> RecStates]
             /\ \A q \in Recordings : rec'[q].page = rec[q].page /\ rec'[q].maxFrames = rec[q].maxFrames
  <2> DEFINE r == casts[wire[1].page]
  <2>1. PICK decodes \in BOOLEAN : rec' = Store(r, wire[1], decodes)
    BY <1>1, <1>6, FrameOnWire
  <2>2. r \in 0..MaxRecordings /\ wire[1] \in Frames
    BY <1>1, <1>6, FrameOnWire, Filing
  <2> HIDE DEF r
  <2>3. rec' = rec \/ (r \in Recordings /\ (rec' = Cut(r, "maxFrames") \/ rec' = Cut(r, "memory") \/ rec' = Kept(r, wire[1])))
    BY <1>1, <2>1, <2>2, Stored
  <2>4. CASE r \in Recordings /\ (rec' = Cut(r, "maxFrames") \/ rec' = Cut(r, "memory"))
    <3>0. PICK limit \in {"none", "maxFrames", "memory", "maxDurationMs"} : rec' = Cut(r, limit)
      BY <2>4
    <3>1. /\ Cut(r, limit) \in [Recordings -> RecStates]
          /\ \A q \in Recordings \ {r} : Cut(r, limit)[q] = rec[q]
          /\ Cut(r, limit)[r].page = rec[r].page /\ Cut(r, limit)[r].maxFrames = rec[r].maxFrames
      BY <1>1, <2>4, CutIs
    <3> QED
      BY <3>0, <3>1
  <2>5. CASE r \in Recordings /\ rec' = Kept(r, wire[1])
    <3>1. /\ rec' \in [Recordings -> RecStates] /\ \A q \in Recordings \ {r} : rec'[q] = rec[q]
          /\ rec'[r].page = rec[r].page /\ rec'[r].maxFrames = rec[r].maxFrames
      BY <1>1, <2>2, <2>5, KeptIs
    <3> QED
      BY <3>1
  <2> QED
    BY <1>1, <2>3, <2>4, <2>5
<1>7. CASE UNCHANGED rec
  BY <1>1, <1>7
<1> QED
  BY <1>2, <1>3, <1>4, <1>5, <1>6, <1>7
  DEF Next, ToolStep, ReadLoop, Callback, OpenRoot, RefuseStart, SendStart, StartReplied, SendStop, StopReplied, GiveUp, ReadReply, Fire,
      Tell, SendAck, Serve, PageCloses, SendFrame

\* A request joins the queue of its page.
LEMMA Requested ==
  ASSUME Types, NEW p \in Pages, NEW kind, NEW r, [kind |-> kind, rec |-> r] \in Calls \cup Others,
         Request(p, kind, r)
  PROVE  /\ queue' \in [Pages -> Seq(Calls \cup Others)]
         /\ \A q \in Pages, i \in Nat : CallAt(q, i)' =>
              \/ CallAt(q, i) /\ queue'[q][i] = queue[q][i]
              \/ /\ q = p /\ i = Len(queue[p]) + 1 /\ [kind |-> kind, rec |-> r] \in Calls
                 /\ queue'[q][i] = [kind |-> kind, rec |-> r]
<1> DEFINE x == [kind |-> kind, rec |-> r]
           s == Append(queue[p], x)
<1>1. queue \in [Pages -> Seq(Calls \cup Others)] /\ queue' = [queue EXCEPT ![p] = s]
  BY DEF Types, Request
<1>2. /\ s \in Seq(Calls \cup Others) /\ Len(queue[p]) \in Nat /\ Len(s) = Len(queue[p]) + 1
      /\ \A i \in 1..Len(queue[p]) : s[i] = queue[p][i]
      /\ s[Len(queue[p]) + 1] = x
  BY <1>1, Appended
<1>3. x = [kind |-> kind, rec |-> r]
  OBVIOUS
<1> HIDE DEF s, x
<1>4. queue' \in [Pages -> Seq(Calls \cup Others)]
  BY <1>1, <1>2
<1>5. ASSUME NEW q \in Pages, NEW i \in Nat, CallAt(q, i)'
      PROVE  \/ CallAt(q, i) /\ queue'[q][i] = queue[q][i]
             \/ q = p /\ i = Len(queue[p]) + 1 /\ x \in Calls /\ queue'[q][i] = x
  <2>1. CASE q # p
    BY <1>1, <1>5, <2>1 DEF CallAt
  <2>2. CASE q = p
    BY <1>1, <1>2, <1>5, <2>2 DEF CallAt
  <2> QED
    BY <2>1, <2>2
<1> QED
  BY <1>3, <1>4, <1>5

LEMMA Served ==
  ASSUME Types, NEW p \in Pages, Serve(p)
  PROVE  /\ queue' \in [Pages -> Seq(Calls \cup Others)]
         /\ Head(queue[p]) = queue[p][1] /\ queue[p][1] \in Calls \cup Others
         /\ queue[p][1] \in Calls => CallAt(p, 1)
         /\ \A q \in Pages, i \in Nat : CallAt(q, i)' =>
              \/ q # p /\ CallAt(q, i) /\ queue'[q][i] = queue[q][i]
              \/ q = p /\ CallAt(p, i + 1) /\ queue'[p][i] = queue[p][i + 1]
<1> DEFINE s == Tail(queue[p])
<1>1. queue \in [Pages -> Seq(Calls \cup Others)] /\ queue[p] # <<>> /\ queue' = [queue EXCEPT ![p] = s]
  BY DEF Types, Serve
<1>2. /\ s \in Seq(Calls \cup Others) /\ Len(queue[p]) \in Nat /\ Len(s) = Len(queue[p]) - 1
      /\ \A i \in 1..(Len(queue[p]) - 1) : s[i] = queue[p][i + 1]
      /\ Head(queue[p]) = queue[p][1] /\ queue[p][1] \in Calls \cup Others /\ 1 \in 1..Len(queue[p])
  BY <1>1, Tailed
<1> HIDE DEF s
<1>3. ASSUME NEW q \in Pages, NEW i \in Nat, CallAt(q, i)'
      PROVE  \/ q # p /\ CallAt(q, i) /\ queue'[q][i] = queue[q][i]
             \/ q = p /\ CallAt(p, i + 1) /\ queue'[p][i] = queue[p][i + 1]
  <2>1. CASE q # p
    BY <1>1, <1>3, <2>1 DEF CallAt
  <2>2. CASE q = p
    BY <1>1, <1>2, <1>3, <2>2 DEF CallAt
  <2> QED
    BY <2>1, <2>2
<1> QED
  BY <1>1, <1>2, <1>3 DEF CallAt

\* A message joins the wire, and leaves it.
LEMMA Sent ==
  ASSUME IInv, NEW m \in Frames \cup Replies, wire' = Append(wire, m), rec' = rec
  PROVE  /\ wire' \in Seq(Frames \cup Replies)
         /\ \A q \in Pages, i \in Nat :
              /\ ReplyAt(q, i)' =>
                   \/ ReplyAt(q, i) /\ wire'[i] = wire[i]
                   \/ i = Len(wire) + 1 /\ m \in Replies /\ wire'[i] = m /\ rec[m.rec].page = q
              /\ FrameAt(q, i)' =>
                   \/ FrameAt(q, i) /\ wire'[i] = wire[i]
                   \/ i = Len(wire) + 1 /\ m \in Frames /\ wire'[i] = m /\ m.page = q
              /\ FrameAt(q, i) => i < Len(wire) + 1
         /\ \A i \in 1..Len(wire') : (i \in 1..Len(wire) /\ wire'[i] = wire[i]) \/ wire'[i] = m
<1>1. /\ wire' \in Seq(Frames \cup Replies) /\ Len(wire) \in Nat /\ Len(wire') = Len(wire) + 1
      /\ \A i \in 1..Len(wire) : wire'[i] = wire[i]
      /\ wire'[Len(wire) + 1] = m
  BY Appended DEF IInv, Types
<1> QED
  BY <1>1 DEF ReplyAt, FrameAt

LEMMA Received ==
  ASSUME IInv, Next, wire # <<>>, wire' = Tail(wire)
  PROVE  /\ wire' \in Seq(Frames \cup Replies) /\ Head(wire) = wire[1] /\ wire[1] \in Frames \cup Replies
         /\ \A q \in Pages, i \in Nat :
              /\ ReplyAt(q, i)' => ReplyAt(q, i + 1) /\ wire'[i] = wire[i + 1]
              /\ FrameAt(q, i)' => FrameAt(q, i + 1) /\ wire'[i] = wire[i + 1]
         /\ \A i \in 1..Len(wire') : i + 1 \in 1..Len(wire) /\ wire'[i] = wire[i + 1]
<1>1. /\ wire' \in Seq(Frames \cup Replies) /\ Len(wire) \in Nat /\ Len(wire') = Len(wire) - 1
      /\ \A i \in 1..(Len(wire) - 1) : wire'[i] = wire[i + 1]
      /\ Head(wire) = wire[1] /\ wire[1] \in Frames \cup Replies
  BY Tailed DEF IInv, Types
<1>2. \A i \in 1..Len(wire') : i + 1 \in 1..Len(wire) /\ wire'[i] = wire[i + 1]
  BY <1>1
<1>3. \A i \in 1..Len(wire) : wire[i] \in Replies => rec'[wire[i].rec].page = rec[wire[i].rec].page
  BY RecordingsStay, MessagesApart DEF IInv, Known
<1> QED
  BY <1>1, <1>2, <1>3 DEF ReplyAt, FrameAt

LEMMA Untouched ==
  ASSUME IInv, Next
  PROVE  /\ UNCHANGED wire => \A q \in Pages, i \in Nat :
              /\ ReplyAt(q, i)' => ReplyAt(q, i) /\ wire'[i] = wire[i]
              /\ FrameAt(q, i)' => FrameAt(q, i) /\ wire'[i] = wire[i]
         /\ UNCHANGED queue => \A q \in Pages, i \in Nat : CallAt(q, i)' => CallAt(q, i) /\ queue'[q][i] = queue[q][i]
<1>1. \A i \in 1..Len(wire) : wire[i] \in Replies => rec'[wire[i].rec].page = rec[wire[i].rec].page
  BY RecordingsStay, MessagesApart DEF IInv, Known
<1> QED
  BY <1>1 DEF ReplyAt, FrameAt, CallAt

-----------------------------------------------------------------------------
(* Each part of the invariant is kept *)

LEMMA ActionCases ==
  ASSUME Next
  PROVE  \/ \E p \in Pages, r \in Recordings, limit \in FrameLimits, timed \in BOOLEAN : Start(p, r, limit, timed)
         \/ \E p \in Pages : Stop(p) \/ SendAck(p) \/ Serve(p) \/ PageCloses(p) \/ SendFrame(p)
         \/ \E r \in Recordings : Fire(r) \/ Mark(r) \/ Tell(r)
         \/ Opens \/ SendStart \/ StartReplied \/ SendStop \/ StopReplied \/ GiveUp \/ ReadFrame \/ ReadReply
BY DEF Next, ToolStep, ReadLoop, Callback, Opens

LEMMA ReplySent ==
  ASSUME NEW kind \in {"ok", "err"}, NEW x \in Calls \cup Others
  PROVE  \/ x \notin Calls /\ Reply(kind, x) = wire
         \/ \E m \in Replies : x \in Calls /\ Reply(kind, x) = Append(wire, m) /\ m.kind = kind
                               /\ m.rec = x.rec /\ m.to = For(x.kind)
<1>1. CASE x \in Calls
  <2> DEFINE m == [kind |-> kind, rec |-> x.rec, to |-> For(x.kind)]
  <2>1. x.kind \in {"start", "stop"} /\ x.rec \in Recordings
    BY <1>1, MessagesApart
  <2>2. m \in Replies /\ m.kind = kind /\ m.rec = x.rec /\ m.to = For(x.kind)
    BY <2>1 DEF Replies, For
  <2>3. Reply(kind, x) = Append(wire, m)
    BY <2>1 DEF Reply, For
  <2> QED
    BY <1>1, <2>2, <2>3
<1>2. CASE x \notin Calls
  BY <1>2, MessagesApart DEF Reply
<1> QED
  BY <1>1, <1>2

LEMMA TypesKeep ==
  ASSUME IInv, Next
  PROVE  Types'
<1>0. Types
  BY DEF IInv
<1>1. rec' \in [Recordings -> RecStates] /\ MaxRecordings \in Nat /\ 0 \in 0..MaxRecordings
  BY RecordingsStay, Numbers
<1>2. ASSUME NEW p \in Pages, NEW r \in Recordings, NEW limit \in FrameLimits, NEW timed \in BOOLEAN,
             Start(p, r, limit, timed)
      PROVE  Types'
  BY <1>0, <1>1, <1>2, Numbers DEF Start, Types, chromeVars
<1>15. CASE Opens
  <2>1. ASSUME NEW r \in Recordings, OpenRoot(r)
        PROVE  root' \in [Recordings -> {"none", "open", "closed"}] /\ cur' \in 0..MaxRecordings
    BY <1>0, <2>1, Numbers DEF OpenRoot, Types
  <2>2. ASSUME RefuseStart
        PROVE  root' \in [Recordings -> {"none", "open", "closed"}] /\ cur' \in 0..MaxRecordings
    BY <1>0, <2>2 DEF RefuseStart, CloseRoot, Types
  <2>3. root' \in [Recordings -> {"none", "open", "closed"}] /\ cur' \in 0..MaxRecordings
    BY <1>15, <2>1, <2>2 DEF Opens
  <2> QED
    BY <1>0, <1>15, <2>3, OpensOnly DEF Types
<1>3. ASSUME NEW p \in Pages, Stop(p)
      PROVE  Types'
  <2>1. casts[p] \in 0..MaxRecordings
    BY Filing
  <2> QED
    BY <1>0, <1>1, <1>3, <2>1 DEF Stop, Types, chromeVars, Unfile
<1>4. CASE SendStart \/ SendStop
  <2>1. page \in Pages /\ cur \in Recordings
    BY <1>4 DEF IInv, Filed, SendStart, SendStop
  <2>2. [kind |-> "start", rec |-> cur] \in Calls /\ [kind |-> "stop", rec |-> cur] \in Calls
    BY <2>1 DEF Calls
  <2>3. queue' \in [Pages -> Seq(Calls \cup Others)]
    BY <1>0, <1>4, <2>1, <2>2, Requested DEF SendStart, SendStop
  <2> QED
    BY <1>0, <1>1, <1>4, <2>3 DEF SendStart, SendStop, Types, StopWaits
<1>5. CASE StartReplied \/ StopReplied
  BY <1>0, <1>1, <1>5 DEF StartReplied, StopReplied, Types, chromeVars, Unfile, CloseRoot
<1>6. CASE GiveUp
  <2>1. page \in Pages
    BY <1>6 DEF IInv, Filed, GiveUp
  <2> QED
    BY <1>0, <1>1, <1>6, <2>1 DEF GiveUp, Types, chromeVars, Unfile, CloseRoot
<1>7. ASSUME NEW r \in Recordings, Fire(r) \/ Mark(r)
      PROVE  Types'
  BY <1>0, <1>1, <1>7 DEF Fire, Mark, Types, toolVars, chromeVars
<1>8. ASSUME NEW r \in Recordings, Tell(r)
      PROVE  Types'
  <2>1. rec[r].page \in Pages /\ [kind |-> "tell", rec |-> r] \in Others
    <3>1. rec[r] # Blank
      BY <1>8 DEF IInv, Filed, Tell
    <3> QED
      BY <3>1, Numbers DEF IInv, Filed, Others
  <2>2. queue' \in [Pages -> Seq(Calls \cup Others)]
    BY <1>0, <1>8, <2>1, Requested DEF Tell
  <2> QED
    BY <1>0, <1>1, <1>8, <2>2 DEF Tell, Types, toolVars
<1>9. ASSUME NEW p \in Pages, SendAck(p)
      PROVE  Types'
  <2>1. [kind |-> "ack", rec |-> 0] \in Others
    BY <1>1 DEF Others
  <2>2. queue' \in [Pages -> Seq(Calls \cup Others)]
    BY <1>0, <1>9, <2>1, Requested DEF SendAck
  <2>3. acks' \in [Pages -> Nat]
    BY <1>0, <1>9 DEF SendAck, Types
  <2> QED
    BY <1>0, <1>1, <1>9, <2>2, <2>3 DEF SendAck, Types, toolVars
<1>10. CASE ReadFrame
  <2>1. wire' \in Seq(Frames \cup Replies) /\ wire[1].page \in Pages /\ Head(wire) = wire[1]
    BY <1>0, <1>10, Received, FrameOnWire DEF ReadFrame
  <2>2. acks' \in [Pages -> Nat]
    BY <1>0, <1>10, <2>1 DEF ReadFrame, Types, Ack
  <2> QED
    BY <1>0, <1>1, <1>10, <2>1, <2>2 DEF ReadFrame, Types, toolVars, chromeVars
<1>11. CASE ReadReply
  <2>1. wire' \in Seq(Frames \cup Replies)
    BY <1>11, Received DEF ReadReply
  <2> QED
    BY <1>0, <1>1, <1>11, <2>1 DEF ReadReply, Types, chromeVars
<1>12. ASSUME NEW p \in Pages, Serve(p)
       PROVE  Types'
  <2> DEFINE x == Head(queue[p])
  <2>1. queue' \in [Pages -> Seq(Calls \cup Others)] /\ x \in Calls \cup Others
    BY <1>0, <1>12, Served
  <2>2. x.kind = "start" => x.rec \in 0..MaxRecordings
    BY <2>1, MessagesApart, Numbers
  <2> HIDE DEF x
  <2>3. wire' \in Seq(Frames \cup Replies)
    <3>1. wire' = Reply("ok", x) \/ wire' = Reply("err", x)
      BY <1>12 DEF Serve, x
    <3>2. PICK kind \in {"ok", "err"} : wire' = Reply(kind, x)
      BY <3>1
    <3>3. wire \in Seq(Frames \cup Replies)
      BY <1>0 DEF Types
    <3>4. ASSUME NEW m \in Replies, wire' = Append(wire, m)
          PROVE  wire' \in Seq(Frames \cup Replies)
      BY <3>3, <3>4, Appended
    <3> QED
      BY <2>1, <3>2, <3>3, <3>4, ReplySent
  <2>4. casting' \in [Pages -> 0..MaxRecordings]
    BY <1>0, <1>1, <1>12, <2>2 DEF Serve, Types, x
  <2>5. unacked' \in [Pages -> 0..Window]
    <3>1. unacked[p] \in 0..Window /\ 0 \in 0..Window /\ (unacked[p] > 0 => unacked[p] - 1 \in 0..Window)
      BY <1>0, ScreencastAssumption DEF Types
    <3>2. UNCHANGED unacked \/ \E n \in {0, unacked[p], unacked[p] - 1} :
              unacked' = [unacked EXCEPT ![p] = n] /\ (n = unacked[p] - 1 => unacked[p] > 0)
      <4>1. CASE p \notin alive
        BY <1>12, <4>1 DEF Serve
      <4>2. CASE p \in alive /\ x.kind = "start"
        BY <1>12, <4>2 DEF Serve, x
      <4>3. CASE p \in alive /\ x.kind = "ack" /\ unacked[p] > 0
        BY <1>12, <4>3 DEF Serve, x
      <4>4. CASE p \in alive /\ x.kind # "start" /\ ~(x.kind = "ack" /\ unacked[p] > 0)
        <5>1. unacked' = [unacked EXCEPT ![p] = unacked[p]]
          BY <1>12, <4>4 DEF Serve, x
        <5> QED
          BY <3>1, <5>1
      <4> QED
        BY <4>1, <4>2, <4>3, <4>4
    <3> QED
      BY <1>0, <3>1, <3>2 DEF Types
  <2> QED
    BY <1>0, <1>1, <1>12, <2>1, <2>3, <2>4, <2>5 DEF Serve, Types, toolVars
<1>13. ASSUME NEW p \in Pages, PageCloses(p)
       PROVE  Types'
  BY <1>0, <1>1, <1>13 DEF PageCloses, Types, toolVars
<1>14. ASSUME NEW p \in Pages, SendFrame(p)
       PROVE  Types'
  <2> DEFINE m == [kind |-> "frame", page |-> p, rec |-> casting[p]]
  <2>1. m \in Frames
    BY <1>0, <1>14, Numbers DEF Frames, SendFrame, Types, Recordings
  <2>2. wire' \in Seq(Frames \cup Replies)
    BY <1>0, <1>14, <2>1, Appended DEF SendFrame, Types
  <2>3. sent' \in Nat /\ unacked' \in [Pages -> 0..Window]
    BY <1>0, <1>14, ScreencastAssumption DEF SendFrame, Types
  <2> QED
    BY <1>0, <1>1, <1>14, <2>2, <2>3 DEF SendFrame, Types, toolVars
<1> QED
  BY <1>2, <1>3, <1>4, <1>5, <1>6, <1>7, <1>8, <1>9, <1>10, <1>11, <1>12, <1>13, <1>14, <1>15, ActionCases

LEMMA FiledKeeps ==
  ASSUME IInv, Next, Types'
  PROVE  Filed'
<1>0. /\ Types /\ Filed /\ MaxRecordings \in Nat
      /\ \A r \in Recordings : rec[r] # Blank =>
            rec'[r] # Blank /\ rec'[r].page = rec[r].page /\ rec'[r].maxFrames = rec[r].maxFrames
  BY RecordingsStay, Numbers DEF IInv
<1>1. ASSUME NEW p \in Pages, NEW r \in Recordings, NEW limit \in FrameLimits, NEW timed \in BOOLEAN,
             Start(p, r, limit, timed)
      PROVE  Filed'
  <2> DEFINE s == [page |-> p, active |-> TRUE, collecting |-> TRUE, frames |-> <<>>,
                   maxFrames |-> limit, limitHit |-> "none"]
  <2>1. rec' = [rec EXCEPT ![r] = s] /\ rec[r] = Blank
    BY <1>1, BeginsBlank DEF Start
  <2>2. s.page = p /\ s.active = TRUE /\ s.maxFrames = limit /\ limit # 0
    BY ScreencastAssumption
  <2> HIDE DEF s
  <2>3. rec'[r] = s /\ \A q \in Recordings \ {r} : rec'[q] = rec[q]
    BY <1>0, <2>1 DEF Types
  <2>4. rec'[r] # Blank
    BY <2>2, <2>3 DEF Blank
  <2>5. /\ casts' = [casts EXCEPT ![p] = r] /\ timer' = [timer EXCEPT ![r] = IF timed THEN "armed" ELSE "none"]
        /\ page' = p /\ cur' = r /\ pc' = "start" /\ UNCHANGED got /\ got = "none"
    BY <1>0, <1>1 DEF Start, Filed
  <2>6. \A q \in Pages : casts'[q] # 0 => rec'[casts'[q]].active = TRUE /\ rec'[casts'[q]].page = q /\ rec'[casts'[q]] # Blank
    <3>1. ASSUME NEW q \in Pages, q # p, casts'[q] # 0
          PROVE  rec'[casts'[q]].active = TRUE /\ rec'[casts'[q]].page = q /\ rec'[casts'[q]] # Blank
      <4>1. casts'[q] = casts[q] /\ casts[q] \in Recordings /\ rec[casts[q]] # Blank
        BY <1>0, <2>5, <3>1, Filing DEF Types
      <4> QED
        BY <1>0, <2>1, <2>3, <3>1, <4>1 DEF Filed
    <3>2. casts'[p] = r
      BY <1>0, <2>5 DEF Types
    <3> QED
      BY <2>2, <2>3, <2>4, <3>1, <3>2
  <2>7. \A q \in Recordings : /\ rec'[q] # Blank => rec'[q].maxFrames # 0 /\ rec'[q].page \in Pages
                              /\ timer'[q] # "none" => rec'[q] # Blank
    <3>1. ASSUME NEW q \in Recordings \ {r}
          PROVE  /\ rec'[q] # Blank => rec'[q].maxFrames # 0 /\ rec'[q].page \in Pages
                 /\ timer'[q] # "none" => rec'[q] # Blank
      <4>1. rec'[q] = rec[q] /\ timer'[q] = timer[q]
        BY <1>0, <2>3, <2>5 DEF Types
      <4> QED
        BY <1>0, <4>1 DEF Filed
    <3> QED
      BY <2>2, <2>3, <2>4, <3>1
  <2>8. casts'[p] = r
    BY <1>0, <2>5 DEF Types
  <2> QED
    BY <2>2, <2>3, <2>4, <2>5, <2>6, <2>7, <2>8 DEF Filed
<1>2. ASSUME NEW p \in Pages, Stop(p)
      PROVE  Filed'
  <2>1. casts[p] \in Recordings /\ rec' = Ended(casts[p]) /\ rec[casts[p]].page = p /\ rec[casts[p]] # Blank
    BY <1>2, Filing DEF Stop
  <2>2. \A q \in Recordings \ {casts[p]} : rec'[q] = rec[q]
    BY <1>0, <2>1, EndedIs
  <2>3. \A q \in Pages \ {p} : casts'[q] = casts[q] /\ casts[q] # casts[p]
    BY <1>0, <1>2, Filing DEF Stop, Unfile, Types
  <2>4. casts'[p] = 0 /\ page' = p /\ cur' = casts[p] /\ pc' = "stop" /\ UNCHANGED got /\ got = "none"
    BY <1>0, <1>2 DEF Stop, Unfile, Types, Filed
  <2>5. \A q \in Pages : casts'[q] # 0 => rec'[casts'[q]].active = TRUE /\ rec'[casts'[q]].page = q /\ rec'[casts'[q]] # Blank
    <3>1. ASSUME NEW q \in Pages, q # p, casts'[q] # 0
          PROVE  rec'[casts'[q]].active = TRUE /\ rec'[casts'[q]].page = q /\ rec'[casts'[q]] # Blank
      <4>1. casts'[q] = casts[q] /\ casts[q] \in Recordings /\ casts[q] # casts[p] /\ rec[casts[q]] # Blank
        BY <2>3, <3>1, Filing
      <4> QED
        BY <1>0, <2>2, <3>1, <4>1 DEF Filed
    <3> QED
      BY <2>4, <3>1
  <2>6. \A q \in Recordings : /\ rec'[q] # Blank => rec'[q].maxFrames # 0 /\ rec'[q].page \in Pages
                              /\ timer'[q] # "none" => rec'[q] # Blank
    <3>1. \A q \in Recordings : timer'[q] # "none" => timer[q] # "none"
      BY <1>0, <1>2 DEF Stop, Types
    <3> QED
      BY <1>0, <2>1, <2>2, <3>1 DEF Filed
  <2> QED
    BY <1>0, <2>1, <2>4, <2>5, <2>6 DEF Filed
<1>3. ASSUME \A q \in Recordings : rec'[q] # Blank => rec[q] # Blank /\ rec'[q].active = rec[q].active,
             \A q \in Recordings : timer'[q] # "none" => timer[q] # "none"
      PROVE  /\ \A q \in Pages : casts'[q] # 0 /\ casts'[q] = casts[q] =>
                    rec'[casts'[q]].active = TRUE /\ rec'[casts'[q]].page = q /\ rec'[casts'[q]] # Blank
             /\ \A q \in Recordings : /\ rec'[q] # Blank => rec'[q].maxFrames # 0 /\ rec'[q].page \in Pages
                                      /\ timer'[q] # "none" => rec'[q] # Blank
             /\ cur \in Recordings /\ rec[cur] # Blank => rec'[cur].page = rec[cur].page /\ rec'[cur] # Blank
  <2>1. ASSUME NEW q \in Pages, casts'[q] # 0, casts'[q] = casts[q]
        PROVE  rec'[casts'[q]].active = TRUE /\ rec'[casts'[q]].page = q /\ rec'[casts'[q]] # Blank
    <3>1. casts[q] \in Recordings /\ rec[casts[q]] # Blank
      BY <2>1, Filing
    <3> QED
      BY <1>0, <1>3, <2>1, <3>1 DEF Filed
  <2>2. ASSUME NEW q \in Recordings
        PROVE  /\ rec'[q] # Blank => rec'[q].maxFrames # 0 /\ rec'[q].page \in Pages
               /\ timer'[q] # "none" => rec'[q] # Blank
    <3>1. /\ rec[q] # Blank => rec[q].maxFrames # 0 /\ rec[q].page \in Pages
          /\ timer[q] # "none" => rec[q] # Blank
      BY <1>0 DEF Filed
    <3> QED
      BY <1>0, <1>3, <3>1
  <2> QED
    BY <1>0, <2>1, <2>2
<1>4. ASSUME NEW r \in Recordings, Mark(r)
      PROVE  Filed'
  <2>1. \A q \in Recordings : rec'[q] # Blank => rec[q] # Blank /\ rec'[q].active = rec[q].active
    <3>1. CASE rec' = rec
      BY <3>1
    <3>2. CASE rec' = Cut(r, "maxDurationMs")
      <4>1. /\ rec'[r].active = rec[r].active /\ \A q \in Recordings \ {r} : rec'[q] = rec[q]
        BY <1>0, <3>2, CutIs
      <4>2. rec[r] # Blank
        BY <1>0, <1>4 DEF Filed, Mark
      <4> QED
        BY <4>1, <4>2
    <3> QED
      BY <1>4, <3>1, <3>2, Marked
  <2>2. \A q \in Recordings : timer'[q] # "none" => timer[q] # "none"
    BY <1>0, <1>4 DEF Mark, Types
  <2>3. UNCHANGED <<casts, pc, page, cur, got>>
    BY <1>4 DEF Mark, toolVars
  <2> QED
    BY <1>0, <1>3, <2>1, <2>2, <2>3 DEF Filed
<1>5. CASE ReadFrame
  <2> DEFINE r == casts[wire[1].page]
  <2>1. PICK decodes \in BOOLEAN : rec' = Store(r, wire[1], decodes)
    BY <1>0, <1>5, FrameOnWire
  <2>2. r \in 0..MaxRecordings /\ wire[1] \in Frames /\ (r # 0 => rec[r] # Blank)
    BY <1>0, <1>5, FrameOnWire, Filing
  <2> HIDE DEF r
  <2>3. \A q \in Recordings : rec'[q] # Blank => rec[q] # Blank /\ rec'[q].active = rec[q].active
    <3>1. CASE rec' = rec
      BY <3>1
    <3>2. CASE r \in Recordings /\ (rec' = Cut(r, "maxFrames") \/ rec' = Cut(r, "memory"))
      <4>0. PICK limit \in {"none", "maxFrames", "memory", "maxDurationMs"} : rec' = Cut(r, limit)
        BY <3>2
      <4>1. Types /\ r \in Recordings
        BY <1>0, <3>2
      <4>3. /\ Cut(r, limit)[r].active = rec[r].active
            /\ \A q \in Recordings \ {r} : Cut(r, limit)[q] = rec[q]
        BY <4>1, CutIs
      <4>2. rec'[r].active = rec[r].active /\ \A q \in Recordings \ {r} : rec'[q] = rec[q]
        BY <4>0, <4>3
      <4> QED
        BY <2>2, <4>1, <4>2, Numbers
    <3>3. CASE r \in Recordings /\ rec' = Kept(r, wire[1])
      <4>1. rec'[r].active = rec[r].active /\ \A q \in Recordings \ {r} : rec'[q] = rec[q]
        BY <1>0, <2>2, <3>3, KeptIs
      <4> QED
        BY <2>2, <3>3, <4>1, Numbers
    <3> QED
      BY <1>0, <2>1, <2>2, <3>1, <3>2, <3>3, Stored
  <2>4. UNCHANGED <<casts, pc, page, cur, got, timer>>
    BY <1>5 DEF ReadFrame, toolVars
  <2> QED
    BY <1>0, <1>3, <2>3, <2>4 DEF Filed
<1>6. ASSUME UNCHANGED rec, \A q \in Recordings : timer'[q] # "none" => timer[q] # "none"
      PROVE  /\ \A q \in Pages : casts'[q] # 0 /\ casts'[q] = casts[q] =>
                    rec'[casts'[q]].active = TRUE /\ rec'[casts'[q]].page = q /\ rec'[casts'[q]] # Blank
             /\ \A q \in Recordings : /\ rec'[q] # Blank => rec'[q].maxFrames # 0 /\ rec'[q].page \in Pages
                                      /\ timer'[q] # "none" => rec'[q] # Blank
             /\ cur \in Recordings /\ rec[cur] # Blank => rec'[cur].page = rec[cur].page /\ rec'[cur] # Blank
  BY <1>3, <1>6
<1>7. CASE SendStart \/ SendStop
  BY <1>0, <1>6, <1>7 DEF SendStart, SendStop, StopWaits, Filed
<1>8. CASE StartReplied \/ GiveUp
  <2>1. \A q \in Pages : casts'[q] = casts[q] \/ casts'[q] = 0
    BY <1>0, <1>8 DEF StartReplied, GiveUp, Unfile, Types
  <2>2. UNCHANGED <<rec, timer>> /\ pc' = "idle" /\ got' = "none"
    BY <1>8 DEF StartReplied, GiveUp
  <2> QED
    BY <1>6, <2>1, <2>2 DEF Filed
<1>9. CASE StopReplied
  <2>1. UNCHANGED <<rec, timer, casts>> /\ pc' = "idle" /\ got' = "none"
    BY <1>9 DEF StopReplied
  <2> QED
    BY <1>6, <2>1 DEF Filed
<1>10. ASSUME NEW r \in Recordings, Fire(r) \/ Tell(r)
       PROVE  Filed'
  <2>1. \A q \in Recordings : timer'[q] # "none" => timer[q] # "none"
    BY <1>0, <1>10 DEF Fire, Tell, Types
  <2>2. UNCHANGED <<rec, casts, pc, page, cur, got>>
    BY <1>10 DEF Fire, Tell, toolVars
  <2> QED
    BY <1>0, <1>6, <2>1, <2>2 DEF Filed
<1>11. CASE ReadReply
  <2>1. got' # "none" => pc \in {"starting", "stopping"}
    <3>1. wire[1] \in Frames \cup Replies /\ Head(wire) = wire[1] /\ Head(wire).kind \in {"ok", "err"}
      BY <1>11, Received DEF ReadReply
    <3>2. wire[1].to \in {"starting", "stopping"}
      BY <3>1, MessagesApart
    <3> QED
      BY <1>0, <1>11, <3>1, <3>2 DEF ReadReply, Filed
  <2>2. UNCHANGED <<rec, casts, pc, page, cur, timer>>
    BY <1>11 DEF ReadReply
  <2> QED
    BY <1>0, <1>6, <2>1, <2>2 DEF Filed
<1>13. CASE Opens
  BY <1>0, <1>6, <1>13, OpensOnly DEF Filed
<1>12. ASSUME NEW p \in Pages, SendAck(p) \/ Serve(p) \/ PageCloses(p) \/ SendFrame(p)
       PROVE  Filed'
  <2>1. UNCHANGED <<rec, casts, pc, page, cur, timer, got>>
    BY <1>12 DEF SendAck, Serve, PageCloses, SendFrame, toolVars
  <2> QED
    BY <1>0, <1>6, <2>1 DEF Filed
<1> QED
  BY <1>1, <1>2, <1>4, <1>5, <1>7, <1>8, <1>9, <1>10, <1>11, <1>12, <1>13, ActionCases

-----------------------------------------------------------------------------
(* What a step can do to a recording *)

Begins(q) ==
    /\ rec[q] = Blank /\ rec'[q].collecting = TRUE /\ rec'[q].limitHit = "none" /\ rec'[q].frames = <<>>
    /\ pc = "open" /\ cur = q /\ pc' = "start"
    /\ \E p \in alive : casts[p] = 0 /\ rec'[q].page = p /\ casts' = [casts EXCEPT ![p] = q]
Ends(q) ==
    /\ \E p \in Pages : casts[p] = q /\ casts'[p] = 0
    /\ rec'[q].frames = rec[q].frames /\ rec'[q].limitHit = rec[q].limitHit
Times(q) ==
    /\ timer[q] = "mark" /\ timer'[q] = "tell" /\ rec'[q].frames = rec[q].frames
    /\ rec'[q].collecting = FALSE /\ rec'[q].limitHit = "maxDurationMs"
Fills(q) ==
    /\ wire[1].page \in Pages /\ casts[wire[1].page] = q
    /\ rec'[q].frames = rec[q].frames
    /\ rec'[q].collecting = FALSE /\ rec'[q].limitHit \in {"maxFrames", "memory"}
Takes(q) ==
    /\ FrameAt(wire[1].page, 1) /\ wire[1].page \in Pages /\ casts[wire[1].page] = q
    /\ ~FullFrames(q) /\ ~FullBytes(q)
    /\ rec'[q].collecting = rec[q].collecting /\ rec'[q].limitHit = rec[q].limitHit
    /\ rec'[q].frames = Append(rec[q].frames, wire[1].rec) /\ wire[1].rec \in Recordings

LEMMA RecordingSteps ==
  ASSUME IInv, Next, NEW q \in Recordings
  PROVE  rec'[q] = rec[q] \/ Begins(q) \/ Ends(q) \/ Times(q) \/ Fills(q) \/ Takes(q)
<1>0. Types /\ rec \in [Recordings -> RecStates] /\ casts \in [Pages -> 0..MaxRecordings]
      /\ timer \in [Recordings -> {"none", "armed", "stopped", "mark", "tell", "done"}]
      /\ alive \subseteq Pages
  BY DEF IInv, Types
<1>1. ASSUME NEW p \in Pages, NEW r \in Recordings, NEW limit \in FrameLimits, NEW timed \in BOOLEAN,
             Start(p, r, limit, timed)
      PROVE  rec'[q] = rec[q] \/ Begins(q)
  <2> DEFINE s == [page |-> p, active |-> TRUE, collecting |-> TRUE, frames |-> <<>>,
                   maxFrames |-> limit, limitHit |-> "none"]
  <2>1. /\ rec' = [rec EXCEPT ![r] = s] /\ rec[r] = Blank /\ p \in alive /\ casts[p] = 0
        /\ pc = "open" /\ cur = r /\ pc' = "start" /\ casts' = [casts EXCEPT ![p] = r]
    BY <1>1, BeginsBlank DEF Start
  <2>2. s.page = p /\ s.collecting = TRUE /\ s.limitHit = "none" /\ s.frames = <<>>
    OBVIOUS
  <2> HIDE DEF s
  <2> QED
    BY <1>0, <2>1, <2>2 DEF Begins
<1>2. ASSUME NEW p \in Pages, Stop(p)
      PROVE  rec'[q] = rec[q] \/ Ends(q)
  <2>1. casts[p] \in Recordings /\ rec' = Ended(casts[p]) /\ casts'[p] = 0
    BY <1>0, <1>2, Filing DEF Stop, Unfile
  <2>2. /\ \A x \in Recordings \ {casts[p]} : rec'[x] = rec[x]
        /\ rec'[casts[p]].frames = rec[casts[p]].frames /\ rec'[casts[p]].limitHit = rec[casts[p]].limitHit
    BY <1>0, <2>1, EndedIs
  <2> QED
    BY <2>1, <2>2 DEF Ends
<1>3. ASSUME NEW r \in Recordings, Mark(r)
      PROVE  rec'[q] = rec[q] \/ Times(q)
  <2>1. CASE rec' = Cut(r, "maxDurationMs")
    <3>1. /\ \A x \in Recordings \ {r} : rec'[x] = rec[x]
          /\ rec'[r].frames = rec[r].frames /\ rec'[r].collecting = FALSE /\ rec'[r].limitHit = "maxDurationMs"
      BY <1>0, <2>1, CutIs
    <3> QED
      BY <1>0, <1>3, <3>1 DEF Mark, Times
  <2> QED
    BY <1>3, <2>1, Marked
<1>4. CASE ReadFrame
  <2> DEFINE r == casts[wire[1].page]
  <2>1. PICK decodes \in BOOLEAN : rec' = Store(r, wire[1], decodes)
    BY <1>0, <1>4, FrameOnWire
  <2>2. r \in 0..MaxRecordings /\ wire[1] \in Frames /\ FrameAt(wire[1].page, 1) /\ wire[1].page \in Pages
    BY <1>0, <1>4, FrameOnWire, Filing
  <2>3. r = casts[wire[1].page]
    OBVIOUS
  <2> HIDE DEF r
  <2>4. CASE r \in Recordings /\ rec' = Cut(r, "maxFrames")
    <3>1. /\ \A x \in Recordings \ {r} : rec'[x] = rec[x]
          /\ rec'[r].frames = rec[r].frames /\ rec'[r].collecting = FALSE /\ rec'[r].limitHit = "maxFrames"
      BY <1>0, <2>4, CutIs
    <3> QED
      BY <2>2, <2>3, <3>1 DEF Fills
  <2>5. CASE r \in Recordings /\ rec' = Cut(r, "memory")
    <3>1. /\ \A x \in Recordings \ {r} : rec'[x] = rec[x]
          /\ rec'[r].frames = rec[r].frames /\ rec'[r].collecting = FALSE /\ rec'[r].limitHit = "memory"
      BY <1>0, <2>5, CutIs
    <3> QED
      BY <2>2, <2>3, <3>1 DEF Fills
  <2>6. CASE r \in Recordings /\ ~FullFrames(r) /\ ~FullBytes(r) /\ rec' = Kept(r, wire[1])
    <3>1. /\ \A x \in Recordings \ {r} : rec'[x] = rec[x]
          /\ rec'[r].collecting = rec[r].collecting /\ rec'[r].limitHit = rec[r].limitHit
          /\ rec'[r].frames = Append(rec[r].frames, wire[1].rec)
      BY <1>0, <2>2, <2>6, KeptIs
    <3>2. wire[1].rec \in Recordings
      BY <2>2, MessagesApart
    <3>3. CASE q = r
      <4>1. casts[wire[1].page] = q /\ FrameAt(wire[1].page, 1) /\ wire[1].page \in Pages
        BY <2>2, <2>3, <3>3
      <4>2. ~FullFrames(q) /\ ~FullBytes(q)
        BY <2>6, <3>3
      <4> QED
        BY <3>1, <3>2, <3>3, <4>1, <4>2 DEF Takes
    <3> QED
      BY <3>1, <3>3
  <2> QED
    BY <1>0, <2>1, <2>2, <2>4, <2>5, <2>6, Stored
<1>5. CASE UNCHANGED rec
  BY <1>5
<1> QED
  BY <1>1, <1>2, <1>3, <1>4, <1>5, ActionCases, OpensOnly
  DEF SendStart, StartReplied, SendStop, StopReplied, GiveUp, ReadReply, Fire,
      Tell, SendAck, Serve, PageCloses, SendFrame

LEMMA FilingSteps ==
  ASSUME IInv, Next, NEW p \in Pages
  PROVE  /\ \/ casts'[p] = casts[p] \/ casts'[p] = 0
            \/ casts[p] = 0 /\ casts'[p] \in Recordings /\ Begins(casts'[p])
         /\ \A q \in Recordings : casts[p] = q => ~Begins(q)
<1>0. Types /\ casts \in [Pages -> 0..MaxRecordings]
  BY DEF IInv, Types
<1>1. ASSUME NEW d \in Pages, NEW r \in Recordings, NEW limit \in FrameLimits, NEW timed \in BOOLEAN,
             Start(d, r, limit, timed)
      PROVE  casts'[p] = casts[p] \/ (casts[p] = 0 /\ casts'[p] \in Recordings /\ Begins(casts'[p]))
  <2>1. casts' = [casts EXCEPT ![d] = r] /\ casts[d] = 0 /\ Start(d, r, limit, timed)
    BY <1>1 DEF Start
  <2>2. Begins(r)
    <3> DEFINE s == [page |-> d, active |-> TRUE, collecting |-> TRUE, frames |-> <<>>,
                     maxFrames |-> limit, limitHit |-> "none"]
    <3>1. /\ rec' = [rec EXCEPT ![r] = s] /\ rec[r] = Blank /\ d \in alive /\ casts[d] = 0
          /\ pc = "open" /\ cur = r /\ pc' = "start"
      BY <1>1, BeginsBlank DEF Start
    <3>2. s.page = d /\ s.collecting = TRUE /\ s.limitHit = "none" /\ s.frames = <<>>
      OBVIOUS
    <3>3. rec \in [Recordings -> RecStates]
      BY <1>0 DEF Types
    <3> HIDE DEF s
    <3>4. rec'[r] = s
      BY <3>1, <3>3
    <3> QED
      BY <2>1, <3>1, <3>2, <3>4 DEF Begins
  <2> QED
    BY <1>0, <2>1, <2>2
<1>2. ASSUME ~\E d \in Pages, r \in Recordings, limit \in FrameLimits, timed \in BOOLEAN :
                 Start(d, r, limit, timed)
      PROVE  casts'[p] = casts[p] \/ casts'[p] = 0
  BY <1>0, <1>2, ActionCases, OpensOnly
  DEF Stop, SendStart, StartReplied, SendStop, StopReplied, GiveUp, ReadReply, ReadFrame, Fire, Mark,
      Tell, SendAck, Serve, PageCloses, SendFrame, Unfile
<1>3. \A q \in Recordings : casts[p] = q => ~Begins(q)
  BY Filing, Numbers DEF Begins
<1> QED
  BY <1>1, <1>2, <1>3

LEMMA LimitsKeep ==
  ASSUME IInv, Next
  PROVE  LimitsAreKept'
<1>0. Types /\ rec \in [Recordings -> RecStates] /\ rec' \in [Recordings -> RecStates] /\ MaxBytes \in Nat
  BY RecordingsStay, ScreencastAssumption DEF IInv, Types
<1>1. ASSUME NEW q \in Recordings
      PROVE  Len(rec'[q].frames) <= rec'[q].maxFrames /\ Len(rec'[q].frames) <= MaxBytes
  <2>1. /\ rec[q].frames \in Seq(Recordings) /\ rec[q].maxFrames \in Nat /\ rec'[q].maxFrames \in Nat
        /\ Len(rec[q].frames) \in Nat
    BY <1>0 DEF RecStates
  <2>2. Len(rec[q].frames) <= rec[q].maxFrames /\ Len(rec[q].frames) <= MaxBytes
    BY DEF IInv, LimitsAreKept
  <2>3. CASE rec[q] = Blank /\ Begins(q)
    BY <1>0, <2>1, <2>3 DEF Begins
  <2>4. CASE rec[q] # Blank
    <3>1. rec'[q].maxFrames = rec[q].maxFrames
      BY <2>4, RecordingsStay
    <3>2. CASE rec'[q].frames = rec[q].frames
      BY <2>2, <3>1, <3>2
    <3>3. CASE Takes(q)
      <4>1. Len(rec'[q].frames) = Len(rec[q].frames) + 1
        BY <2>1, <3>3, Appended DEF Takes
      <4>2. ~(Len(rec[q].frames) >= rec[q].maxFrames) /\ ~(Len(rec[q].frames) + 1 > MaxBytes)
        BY <3>3 DEF Takes, FullFrames, FullBytes
      <4> QED
        BY <1>0, <2>1, <3>1, <4>1, <4>2
    <3> QED
      BY <2>4, <3>2, <3>3, RecordingSteps DEF Begins, Ends, Times, Fills
  <2>5. CASE rec[q] = Blank /\ ~Begins(q)
    <3>1. ASSUME NEW p \in Pages, casts[p] = q
          PROVE  FALSE
      <4>1. q # 0
        BY Numbers
      <4> QED
        BY <2>5, <3>1, <4>1, Filing
    <3>2. ~Takes(q) /\ ~Ends(q) /\ ~Fills(q)
      BY <3>1 DEF Takes, Ends, Fills
    <3>3. ~Times(q)
      BY <2>5 DEF Times, IInv, Filed
    <3> QED
      BY <2>2, <2>5, <3>2, <3>3, RecordingSteps
  <2> QED
    BY <2>3, <2>4, <2>5
<1>2. ASSUME NEW p \in Pages, casts'[p] # 0
      PROVE  rec'[casts'[p]].limitHit # "none" <=> ~rec'[casts'[p]].collecting
  <2>1. CASE casts[p] = 0
    BY <1>2, <2>1, FilingSteps DEF Begins
  <2>2. CASE casts[p] # 0 /\ casts'[p] = casts[p]
    <3> DEFINE q == casts[p]
    <3>1. q \in Recordings /\ (rec[q].limitHit # "none" <=> ~rec[q].collecting) /\ ~Begins(q)
      BY <2>2, Filing, FilingSteps DEF IInv, LimitsAreKept
    <3>2. ~Ends(q)
      BY <1>2, <2>2, Filing DEF Ends
    <3> QED
      BY <2>2, <3>1, <3>2, RecordingSteps DEF Times, Fills, Takes
  <2> QED
    BY <1>2, <2>1, <2>2, FilingSteps
<1> QED
  BY <1>1, <1>2 DEF LimitsAreKept

LEMMA Persists ==
  ASSUME IInv, Next, NEW q \in Recordings
  PROVE  /\ timer[q] \in {"tell", "done"} => timer'[q] \in {"tell", "done"}
         /\ rec[q] # Blank => ~Begins(q)
         /\ Ends(q) \/ Times(q) \/ Fills(q) \/ Takes(q) => rec[q] # Blank
<1>0. Types /\ timer \in [Recordings -> {"none", "armed", "stopped", "mark", "tell", "done"}]
  BY DEF IInv, Types
<1>1. timer[q] # "none" => rec[q] # Blank
  BY DEF IInv, Filed
<1>2. ASSUME NEW p \in Pages, casts[p] = q
      PROVE  rec[q] # Blank
  <2>1. q # 0
    BY Numbers
  <2> QED
    BY <1>2, <2>1, Filing
<1>3. rec[q] # Blank => ~Begins(q)
  BY DEF Begins
<1>4. Ends(q) \/ Times(q) \/ Fills(q) \/ Takes(q) => rec[q] # Blank
  BY <1>1, <1>2 DEF Ends, Times, Fills, Takes
<1>5. ASSUME timer[q] \in {"tell", "done"}
      PROVE  timer'[q] \in {"tell", "done"}
  <2>1. ASSUME NEW r \in Recordings, Fire(r) \/ Mark(r) \/ Tell(r)
        PROVE  timer'[q] \in {"tell", "done"}
    BY <1>0, <1>5, <2>1 DEF Fire, Mark, Tell
  <2>2. ASSUME NEW p \in Pages, NEW r \in Recordings, NEW limit \in FrameLimits, NEW timed \in BOOLEAN,
               Start(p, r, limit, timed)
        PROVE  timer'[q] \in {"tell", "done"}
    <3>1. q # r
      BY <1>1, <1>5, <2>2, BeginsBlank
    <3> QED
      BY <1>0, <1>5, <2>2, <3>1 DEF Start
  <2>3. ASSUME NEW p \in Pages, Stop(p)
        PROVE  timer'[q] \in {"tell", "done"}
    BY <1>0, <1>5, <2>3 DEF Stop
  <2>4. CASE UNCHANGED timer
    BY <1>5, <2>4
  <2> QED
    BY <2>1, <2>2, <2>3, <2>4, ActionCases, OpensOnly
    DEF SendStart, StartReplied, SendStop, StopReplied, GiveUp, ReadReply, ReadFrame,
        SendAck, Serve, PageCloses, SendFrame
<1> QED
  BY <1>3, <1>4, <1>5

LEMMA DeadlineKeeps ==
  ASSUME IInv, Next
  PROVE  OwnDeadline'
<1>1. ASSUME NEW q \in Recordings, rec'[q].limitHit = "maxDurationMs"
      PROVE  timer'[q] \in {"tell", "done"}
  <2>1. CASE Times(q)
    BY <2>1 DEF Times
  <2>2. CASE rec'[q].limitHit = rec[q].limitHit
    BY <1>1, <2>2, Persists DEF IInv, OwnDeadline
  <2> QED
    BY <1>1, <2>1, <2>2, RecordingSteps DEF Begins, Ends, Fills, Takes
<1> QED
  BY <1>1 DEF OwnDeadline

\* No recording begins before its directory is opened.
LEMMA BlankKeeps ==
  ASSUME IInv, Next
  PROVE  /\ pc' = "open" => cur' \in Recordings /\ rec'[cur'] = Blank
         /\ \A r \in Recordings : root'[r] = "none" => rec'[r] = Blank
<1>0. root \in [Recordings -> {"none", "open", "closed"}] /\ \A q \in Recordings : q # 0
  BY Numbers DEF IInv, Types
<1>1. \A q \in Recordings : rec[q] = Blank => rec'[q] = Blank \/ Begins(q)
  BY RecordingSteps, Persists
<1>2. ASSUME NEW r \in Recordings, root'[r] = "none"
      PROVE  root[r] = "none"
  BY <1>0, <1>2, ActionCases
  DEF Opens, OpenRoot, RefuseStart, CloseRoot, Start, Stop, SendStart, StartReplied, SendStop, StopReplied, GiveUp,
      ReadFrame, ReadReply, Fire, Mark, Tell, SendAck, Serve, PageCloses, SendFrame
<1>3. ASSUME NEW r \in Recordings, root'[r] = "none"
      PROVE  rec'[r] = Blank
  BY <1>0, <1>1, <1>2, <1>3 DEF Begins, IInv, Roots, HoldsRoot
<1>4. ASSUME pc' = "open"
      PROVE  cur' \in Recordings /\ rec'[cur'] = Blank
  <2>1. ASSUME NEW r \in Recordings, OpenRoot(r)
        PROVE  cur' \in Recordings /\ rec'[cur'] = Blank
    BY <2>1 DEF OpenRoot, IInv, Roots
  <2>2. CASE UNCHANGED <<pc, cur>>
    BY <1>1, <1>4, <2>2 DEF Begins, IInv, Roots
  <2> QED
    BY <1>4, <2>1, <2>2, ActionCases
    DEF Opens, RefuseStart, Start, Stop, SendStart, StartReplied, SendStop, StopReplied, GiveUp, StopWaits,
        ReadFrame, ReadReply, Fire, Mark, Tell, SendAck, Serve, PageCloses, SendFrame, toolVars
<1> QED
  BY <1>3, <1>4

LEMMA RootsKeep ==
  ASSUME IInv, Next
  PROVE  Roots'
<1>0. /\ Types /\ casts \in [Pages -> 0..MaxRecordings] /\ root \in [Recordings -> {"none", "open", "closed"}]
      /\ \A r \in Recordings : r # 0
      /\ pc \notin {"idle", "open"} => page \in Pages /\ cur \in Recordings /\ rec[cur].page = page
      /\ pc \in {"start", "starting"} => casts[page] = cur
      /\ pc \in {"stop", "stopping"} => casts[page] = 0
  BY Numbers DEF IInv, Types, Filed
<1>1. ASSUME NEW r \in Recordings
      PROVE  root[r] = "open" <=> (\E p \in Pages : casts[p] = r) \/ (pc \in HoldsRoot /\ cur = r)
  BY DEF IInv, Roots
<1>13. ASSUME \A r \in Recordings :
               root'[r] = "open" <=> (\E p \in Pages : casts'[p] = r) \/ (pc' \in HoldsRoot /\ cur' = r)
       PROVE  Roots'
  BY <1>13, BlankKeeps DEF Roots, HoldsRoot
<1>2. ASSUME NEW p \in Pages, NEW r \in Recordings, NEW limit \in FrameLimits, NEW timed \in BOOLEAN,
             Start(p, r, limit, timed)
      PROVE  Roots'
  <2>1. /\ casts[p] = 0 /\ casts' = [casts EXCEPT ![p] = r] /\ UNCHANGED root
        /\ pc = "open" /\ cur = r /\ pc' = "start"
    BY <1>2 DEF Start
  <2>2. casts'[p] = r /\ \A d \in Pages \ {p} : casts'[d] = casts[d]
    BY <1>0, <2>1
  <2> QED
    BY <1>0, <1>1, <1>13, <2>1, <2>2 DEF HoldsRoot
<1>3. ASSUME NEW p \in Pages, Stop(p)
      PROVE  Roots'
  <2>1. /\ casts[p] # 0 /\ casts' = [casts EXCEPT ![p] = 0] /\ UNCHANGED root
        /\ pc = "idle" /\ pc' = "stop" /\ cur' = casts[p]
    BY <1>3 DEF Stop, Unfile
  <2>2. casts'[p] = 0 /\ \A d \in Pages \ {p} : casts'[d] = casts[d]
    BY <1>0, <2>1
  <2> QED
    BY <1>0, <1>1, <1>13, <2>1, <2>2 DEF HoldsRoot
<1>4. CASE SendStart \/ SendStop
  BY <1>1, <1>4, <1>13 DEF SendStart, SendStop, StopWaits, HoldsRoot
<1>5. CASE (StartReplied /\ got # "ok") \/ (GiveUp /\ pc = "starting")
  <2>1. /\ casts' = [casts EXCEPT ![page] = 0] /\ root' = [root EXCEPT ![cur] = "closed"]
        /\ pc = "starting" /\ pc' = "idle" /\ page \in Pages /\ cur \in Recordings /\ casts[page] = cur
    BY <1>0, <1>5 DEF StartReplied, GiveUp, Unfile, CloseRoot
  <2>2. casts'[page] = 0 /\ \A d \in Pages \ {page} : casts'[d] = casts[d] /\ casts[d] # cur
    BY <1>0, <2>1, Filing
  <2>3. root'[cur] # "open" /\ \A q \in Recordings \ {cur} : root'[q] = root[q]
    BY <1>0, <2>1
  <2> QED
    BY <1>0, <1>1, <1>13, <2>1, <2>2, <2>3 DEF HoldsRoot
<1>6. CASE StopReplied \/ (GiveUp /\ pc = "stopping")
  <2>1. /\ UNCHANGED casts /\ root' = [root EXCEPT ![cur] = "closed"]
        /\ pc = "stopping" /\ pc' = "idle" /\ page \in Pages /\ cur \in Recordings /\ casts[page] = 0
    BY <1>0, <1>6 DEF StopReplied, GiveUp, CloseRoot
  <2>2. ASSUME NEW d \in Pages, casts[d] = cur
        PROVE  FALSE
    <3>1. casts[d] # 0
      BY <1>0, <2>1, <2>2
    <3>2. d = page
      BY <1>0, <2>1, <2>2, <3>1, Filing
    <3> QED
      BY <2>1, <3>1, <3>2
  <2>3. root'[cur] # "open" /\ \A q \in Recordings \ {cur} : root'[q] = root[q]
    BY <1>0, <2>1
  <2> QED
    BY <1>0, <1>1, <1>13, <2>1, <2>2, <2>3 DEF HoldsRoot
<1>7. CASE StartReplied /\ got = "ok"
  <2>1. UNCHANGED <<casts, root>> /\ pc = "starting" /\ pc' = "idle"
    BY <1>7 DEF StartReplied
  <2> QED
    BY <1>1, <1>13, <2>1 DEF HoldsRoot
<1>8. CASE UNCHANGED <<casts, root, pc, cur>>
  BY <1>1, <1>8, <1>13 DEF HoldsRoot
<1>9. ASSUME NEW p \in Pages, SendAck(p) \/ Serve(p) \/ PageCloses(p) \/ SendFrame(p)
      PROVE  Roots'
  BY <1>8, <1>9 DEF SendAck, Serve, PageCloses, SendFrame, toolVars
<1>10. ASSUME NEW r \in Recordings, Fire(r) \/ Mark(r) \/ Tell(r)
       PROVE  Roots'
  BY <1>8, <1>10 DEF Fire, Mark, Tell, toolVars
<1>11. CASE ReadFrame \/ ReadReply
  BY <1>8, <1>11 DEF ReadFrame, ReadReply, toolVars
<1>14. ASSUME NEW r \in Recordings, OpenRoot(r)
       PROVE  Roots'
  <2>1. /\ root' = [root EXCEPT ![r] = "open"] /\ UNCHANGED casts /\ pc = "idle" /\ pc' = "open" /\ cur' = r
        /\ root[r] = "none"
    BY <1>14 DEF OpenRoot
  <2> QED
    BY <1>0, <1>1, <1>13, <2>1 DEF HoldsRoot
<1>15. CASE RefuseStart
  <2>1. root' = [root EXCEPT ![cur] = "closed"] /\ UNCHANGED <<casts, rec>> /\ pc = "open" /\ pc' = "idle"
        /\ cur \in Recordings /\ rec[cur] = Blank
    BY <1>15 DEF RefuseStart, CloseRoot, IInv, Roots
  <2>2. ASSUME NEW d \in Pages, casts[d] = cur
        PROVE  FALSE
    BY <1>0, <2>1, <2>2, Filing
  <2> QED
    BY <1>0, <1>1, <1>13, <2>1, <2>2 DEF HoldsRoot
<1>12. GiveUp => pc \in {"starting", "stopping"}
  BY DEF GiveUp
<1> QED
  BY <1>2, <1>3, <1>4, <1>5, <1>6, <1>7, <1>9, <1>10, <1>11, <1>12, <1>14, <1>15, ActionCases DEF Opens

-----------------------------------------------------------------------------
(* The order of messages *)

\* What a call or a reply is about stays what it was.
LEMMA KnownStays ==
  ASSUME IInv, Next
  PROVE  /\ \A p \in Pages, i \in Nat : CallAt(p, i) =>
              /\ queue[p][i].rec \in Recordings /\ queue[p][i].kind \in {"start", "stop"}
              /\ rec'[queue[p][i].rec] # Blank /\ rec'[queue[p][i].rec].page = p
         /\ \A i \in 1..Len(wire) : wire[i] \in Replies =>
              /\ wire[i].rec \in Recordings /\ rec'[wire[i].rec] # Blank
              /\ rec'[wire[i].rec].page = rec[wire[i].rec].page
<1>1. \A p \in Pages, i \in Nat : CallAt(p, i) =>
        /\ queue[p][i].rec \in Recordings /\ queue[p][i].kind \in {"start", "stop"}
        /\ rec[queue[p][i].rec] # Blank /\ rec[queue[p][i].rec].page = p
  BY MessagesApart DEF IInv, Known, CallAt
<1>2. \A i \in 1..Len(wire) : wire[i] \in Replies => wire[i].rec \in Recordings /\ rec[wire[i].rec] # Blank
  BY MessagesApart DEF IInv, Known
<1> QED
  BY <1>1, <1>2, RecordingsStay

LEMMA KnownKeeps ==
  ASSUME IInv, Next
  PROVE  Known'
<1>0. Types
  BY DEF IInv
<1>1. ASSUME NEW p \in Pages, NEW i \in Nat, CallAt(p, i)'
      PROVE  rec'[queue'[p][i].rec] # Blank /\ rec'[queue'[p][i].rec].page = p
  <2>1. CASE UNCHANGED queue
    BY <1>1, <2>1, KnownStays, Untouched
  <2>2. CASE SendStart \/ SendStop
    <3>1. page \in Pages /\ cur \in Recordings /\ rec[cur] # Blank /\ rec[cur].page = page /\ UNCHANGED rec
      BY <2>2 DEF IInv, Filed, SendStart, SendStop
    <3>2. [kind |-> "start", rec |-> cur] \in Calls /\ [kind |-> "stop", rec |-> cur] \in Calls
      BY <3>1 DEF Calls
    <3>3. Request(page, "start", cur) \/ Request(page, "stop", cur)
      BY <2>2 DEF SendStart, SendStop
    <3>4. CASE CallAt(p, i) /\ queue'[p][i] = queue[p][i]
      BY <3>4, KnownStays
    <3>5. CASE p = page /\ queue'[p][i].rec = cur
      BY <3>1, <3>5
    <3> QED
      BY <1>0, <1>1, <3>1, <3>2, <3>3, <3>4, <3>5, Requested
  <2>3. ASSUME NEW r \in Recordings, Tell(r)
        PROVE  rec'[queue'[p][i].rec] # Blank /\ rec'[queue'[p][i].rec].page = p
    <3>1. rec[r].page \in Pages /\ [kind |-> "tell", rec |-> r] \in Others
      <4>1. rec[r] # Blank
        BY <2>3 DEF IInv, Filed, Tell
      <4> QED
        BY <4>1, Numbers DEF IInv, Filed, Others
    <3>2. CallAt(p, i) /\ queue'[p][i] = queue[p][i]
      BY <1>0, <1>1, <2>3, <3>1, Requested, MessagesApart DEF Tell
    <3> QED
      BY <3>2, KnownStays
  <2>4. ASSUME NEW d \in Pages, SendAck(d)
        PROVE  rec'[queue'[p][i].rec] # Blank /\ rec'[queue'[p][i].rec].page = p
    <3>1. [kind |-> "ack", rec |-> 0] \in Others
      BY Numbers DEF Others
    <3>2. CallAt(p, i) /\ queue'[p][i] = queue[p][i]
      BY <1>0, <1>1, <2>4, <3>1, Requested, MessagesApart DEF SendAck
    <3> QED
      BY <3>2, KnownStays
  <2>5. ASSUME NEW d \in Pages, Serve(d)
        PROVE  rec'[queue'[p][i].rec] # Blank /\ rec'[queue'[p][i].rec].page = p
    BY <1>0, <1>1, <2>5, Served, KnownStays
  <2> QED
    BY <2>1, <2>2, <2>3, <2>4, <2>5, ActionCases, OpensOnly
    DEF Start, Stop, StartReplied, StopReplied, GiveUp, ReadReply, ReadFrame, Fire, Mark,
        PageCloses, SendFrame, chromeVars
<1>2. ASSUME NEW i \in 1..Len(wire'), wire'[i] \in Replies
      PROVE  rec'[wire'[i].rec] # Blank
  <2>1. CASE UNCHANGED wire
    BY <1>2, <2>1, KnownStays
  <2>2. CASE ReadFrame \/ ReadReply
    <3>1. i + 1 \in 1..Len(wire) /\ wire'[i] = wire[i + 1]
      BY <1>2, <2>2, Received DEF ReadFrame, ReadReply
    <3> QED
      BY <1>2, <3>1, KnownStays
  <2>3. ASSUME NEW d \in Pages, Serve(d)
        PROVE  rec'[wire'[i].rec] # Blank
    <3> DEFINE x == queue[d][1]
    <3>1. x \in Calls \cup Others /\ Head(queue[d]) = x /\ (x \in Calls => CallAt(d, 1)) /\ UNCHANGED rec
      BY <1>0, <2>3, Served DEF Serve
    <3>2. PICK kind \in {"ok", "err"} : wire' = Reply(kind, x)
      BY <2>3, <3>1 DEF Serve
    <3>3. ASSUME NEW m \in Replies, x \in Calls, wire' = Append(wire, m), m.rec = x.rec
          PROVE  rec'[wire'[i].rec] # Blank
      <4>1. (i \in 1..Len(wire) /\ wire'[i] = wire[i]) \/ wire'[i] = m
        BY <1>2, <3>1, <3>3, Sent
      <4> QED
        BY <1>2, <3>1, <3>3, <4>1, KnownStays
    <3> QED
      BY <2>1, <3>1, <3>2, <3>3, ReplySent
  <2>4. ASSUME NEW d \in Pages, SendFrame(d)
        PROVE  rec'[wire'[i].rec] # Blank
    <3> DEFINE m == [kind |-> "frame", page |-> d, rec |-> casting[d]]
    <3>1. m \in Frames /\ wire' = Append(wire, m) /\ UNCHANGED rec
      BY <1>0, <2>4, Numbers DEF Frames, SendFrame, Types, Recordings
    <3> HIDE DEF m
    <3>2. i \in 1..Len(wire) /\ wire'[i] = wire[i]
      BY <1>2, <3>1, Sent, MessagesApart
    <3> QED
      BY <1>2, <3>2, KnownStays
  <2> QED
    BY <2>1, <2>2, <2>3, <2>4, ActionCases, OpensOnly
    DEF Start, Stop, SendStart, SendStop, StartReplied, StopReplied, GiveUp, Fire, Mark, Tell, SendAck, PageCloses
<1> QED
  BY <1>1, <1>2 DEF Known

\* A page the tool does not wait for has no call and no reply under way.
LEMMA Idle ==
  ASSUME IInv, NEW p \in Pages \ late,
         page # p \/ got # "none" \/ pc \notin {"starting", "stopping"}
  PROVE  \A i \in Nat : ~CallAt(p, i) /\ ~ReplyAt(p, i)
<1>1. ASSUME NEW i \in Nat, CallAt(p, i)
      PROVE  FALSE
  BY <1>1 DEF IInv, OneCall, CalledOnce, Waits, For
<1>2. ASSUME NEW i \in Nat, ReplyAt(p, i)
      PROVE  FALSE
  <2>1. wire[i].to \in {"starting", "stopping"}
    BY <1>2, MessagesApart DEF ReplyAt
  <2> QED
    BY <1>2, <2>1 DEF IInv, OneCall, CalledOnce, Waits
<1> QED
  BY <1>1, <1>2

\* A step that only takes calls and replies of a page away, from the front.
LEMMA Fewer ==
  ASSUME IInv, NEW p \in Pages \ late, UNCHANGED <<pc, page, cur, got>>, alive' \subseteq alive,
         NEW c \in {0, 1}, NEW w \in {0, 1},
         \A i \in Nat : CallAt(p, i)' => CallAt(p, i + c) /\ queue'[p][i] = queue[p][i + c],
         \A i \in Nat : ReplyAt(p, i)' => ReplyAt(p, i + w) /\ wire'[i] = wire[i + w]
  PROVE  CalledOnce(p)'
<1>0. CalledOnce(p)
  BY DEF IInv, OneCall
<1>1. ASSUME NEW i \in Nat, CallAt(p, i)'
      PROVE  /\ Waits(p, queue'[p][i].rec, For(queue'[p][i].kind))
             /\ \A j \in Nat : CallAt(p, j)' => j = i
             /\ \A j \in Nat : ~ReplyAt(p, j)'
  <2>1. CallAt(p, i + c) /\ i + c \in Nat /\ queue'[p][i] = queue[p][i + c]
    BY <1>1
  <2>2. Waits(p, queue'[p][i].rec, For(queue'[p][i].kind))
    BY <1>0, <2>1 DEF CalledOnce
  <2>3. ASSUME NEW j \in Nat, CallAt(p, j)'
        PROVE  j = i
    <3>1. CallAt(p, j + c) /\ j + c \in Nat
      BY <2>3
    <3>2. j + c = i + c
      BY <1>0, <2>1, <3>1 DEF CalledOnce
    <3> QED
      BY <3>2
  <2>4. ASSUME NEW j \in Nat, ReplyAt(p, j)'
        PROVE  FALSE
    <3>1. ReplyAt(p, j + w) /\ j + w \in Nat
      BY <2>4
    <3> QED
      BY <1>0, <2>1, <3>1 DEF CalledOnce
  <2> QED
    BY <2>2, <2>3, <2>4
<1>2. ASSUME NEW i \in Nat, ReplyAt(p, i)'
      PROVE  /\ Waits(p, wire'[i].rec, wire'[i].to)
             /\ \A j \in Nat : ReplyAt(p, j)' => j = i
             /\ wire'[i].kind = "err" => p \notin alive'
  <2>1. ReplyAt(p, i + w) /\ i + w \in Nat /\ wire'[i] = wire[i + w]
    BY <1>2
  <2>2. Waits(p, wire'[i].rec, wire'[i].to) /\ (wire'[i].kind = "err" => p \notin alive')
    BY <1>0, <2>1 DEF CalledOnce
  <2>3. ASSUME NEW j \in Nat, ReplyAt(p, j)'
        PROVE  j = i
    <3>1. ReplyAt(p, j + w) /\ j + w \in Nat
      BY <2>3
    <3>2. j + w = i + w
      BY <1>0, <2>1, <3>1 DEF CalledOnce
    <3> QED
      BY <3>2
  <2> QED
    BY <2>2, <2>3
<1>3. page = p /\ got = "err" => p \notin alive'
  BY <1>0 DEF CalledOnce
<1> QED
  BY <1>1, <1>2, <1>3 DEF CalledOnce, Waits

LEMMA Same ==
  ASSUME IInv, NEW p \in Pages \ late, UNCHANGED <<pc, page, cur, got>>, alive' \subseteq alive,
         \A i \in Nat : CallAt(p, i)' => CallAt(p, i) /\ queue'[p][i] = queue[p][i],
         \A i \in Nat : ReplyAt(p, i)' => ReplyAt(p, i) /\ wire'[i] = wire[i]
  PROVE  CalledOnce(p)'
<1>1. \A i \in Nat : CallAt(p, i)' => CallAt(p, i + 0) /\ queue'[p][i] = queue[p][i + 0]
  OBVIOUS
<1>2. \A i \in Nat : ReplyAt(p, i)' => ReplyAt(p, i + 0) /\ wire'[i] = wire[i + 0]
  OBVIOUS
<1>3. alive' \subseteq alive
  OBVIOUS
<1> QED
  BY <1>1, <1>2, <1>3, Fewer

LEMMA NoneLeft ==
  ASSUME NEW p \in Pages, got' # "err", \A i \in Nat : ~CallAt(p, i)' /\ ~ReplyAt(p, i)'
  PROVE  CalledOnce(p)'
BY DEF CalledOnce

LEMMA OneCallKeeps ==
  ASSUME IInv, Next
  PROVE  OneCall'
<1>0. Types /\ Filed /\ late \subseteq Pages /\ alive \subseteq Pages
  BY DEF IInv, Types
<1>1. ASSUME \A p \in Pages \ late' : p \notin late /\ (page # p \/ got # "none" \/ pc \notin {"starting", "stopping"}),
             UNCHANGED <<queue, wire>>, got' # "err"
      PROVE  OneCall'
  <2>1. ASSUME NEW p \in Pages \ late', NEW i \in Nat
        PROVE  ~CallAt(p, i)' /\ ~ReplyAt(p, i)'
    <3>1. ~CallAt(p, i) /\ ~ReplyAt(p, i)
      BY <1>1, Idle
    <3> QED
      BY <1>1, <3>1, Untouched
  <2> QED
    BY <1>1, <2>1, NoneLeft DEF OneCall
<1>2. ASSUME NEW p \in Pages, NEW r \in Recordings, NEW limit \in FrameLimits, NEW timed \in BOOLEAN,
             Start(p, r, limit, timed)
      PROVE  OneCall'
  BY <1>0, <1>1, <1>2 DEF Start, Filed, chromeVars
<1>17. CASE Opens
  BY <1>0, <1>1, <1>17, OpensOnly DEF Filed
<1>3. ASSUME NEW p \in Pages, Stop(p)
      PROVE  OneCall'
  BY <1>0, <1>1, <1>3 DEF Stop, Filed, chromeVars
<1>4. CASE StartReplied \/ StopReplied
  BY <1>0, <1>1, <1>4 DEF StartReplied, StopReplied, chromeVars
<1>5. CASE GiveUp
  BY <1>0, <1>1, <1>5 DEF GiveUp, chromeVars
<1>6. CASE SendStart \/ SendStop
  <2>1. /\ page \in Pages /\ cur \in Recordings /\ rec[cur].page = page /\ pc \in {"start", "stop"} /\ got = "none"
        /\ UNCHANGED <<rec, wire, late, page, cur, got, alive>>
    BY <1>0, <1>6 DEF Filed, SendStart, SendStop
  <2>2. [kind |-> "start", rec |-> cur] \in Calls /\ [kind |-> "stop", rec |-> cur] \in Calls
    BY <2>1 DEF Calls
  <2>3. PICK kind \in {"start", "stop"} : Request(page, kind, cur) /\ pc' = For(kind)
    BY <1>6 DEF SendStart, SendStop, StopWaits, For
  <2>4. \A p \in Pages \ late, i \in Nat : ~CallAt(p, i) /\ ~ReplyAt(p, i)
    BY <2>1, Idle
  <2>5. \A p \in Pages \ late, i \in Nat : ~ReplyAt(p, i)'
    BY <2>1, <2>4, Untouched
  <2>6. \A p \in Pages \ late, i \in Nat : CallAt(p, i)' =>
            p = page /\ i = Len(queue[page]) + 1 /\ queue'[p][i] = [kind |-> kind, rec |-> cur]
    BY <1>0, <2>1, <2>2, <2>3, <2>4, Requested
  <2>7. ASSUME NEW p \in Pages \ late, NEW i \in Nat, CallAt(p, i)'
        PROVE  /\ page' = p /\ cur' = queue'[p][i].rec /\ pc' = For(queue'[p][i].kind) /\ got' = "none"
               /\ \A j \in Nat : CallAt(p, j)' => j = i
    <3>1. p = page /\ i = Len(queue[page]) + 1 /\ queue'[p][i].rec = cur /\ queue'[p][i].kind = kind
      BY <2>6, <2>7
    <3> QED
      BY <2>1, <2>3, <2>6, <3>1
  <2> QED
    BY <2>1, <2>5, <2>7 DEF OneCall, CalledOnce, Waits, For
<1>7. ASSUME UNCHANGED <<pc, page, cur, got, late>>, alive' \subseteq alive,
             \A q \in Pages, i \in Nat : CallAt(q, i)' => CallAt(q, i) /\ queue'[q][i] = queue[q][i],
             \A q \in Pages, i \in Nat : ReplyAt(q, i)' => ReplyAt(q, i) /\ wire'[i] = wire[i]
      PROVE  OneCall'
  BY <1>7, Same DEF OneCall
<1>8. ASSUME NEW r \in Recordings, Fire(r) \/ Mark(r)
      PROVE  OneCall'
  <2>1. UNCHANGED <<pc, page, cur, got, late, alive, queue, wire>>
    BY <1>8 DEF Fire, Mark, toolVars, chromeVars
  <2> QED
    BY <1>7, <2>1, Untouched
<1>9. ASSUME NEW r \in Recordings, Tell(r)
      PROVE  OneCall'
  <2>1. rec[r].page \in Pages /\ [kind |-> "tell", rec |-> r] \in Others
    <3>1. rec[r] # Blank
      BY <1>9 DEF IInv, Filed, Tell
    <3> QED
      BY <3>1, Numbers DEF IInv, Filed, Others
  <2>2. \A q \in Pages, i \in Nat : CallAt(q, i)' => CallAt(q, i) /\ queue'[q][i] = queue[q][i]
    BY <1>0, <1>9, <2>1, Requested, MessagesApart DEF Tell
  <2>3. UNCHANGED <<pc, page, cur, got, late, alive, wire>>
    BY <1>9 DEF Tell, toolVars
  <2> QED
    BY <1>7, <2>2, <2>3, Untouched
<1>10. ASSUME NEW p \in Pages, SendAck(p)
       PROVE  OneCall'
  <2>1. [kind |-> "ack", rec |-> 0] \in Others
    BY Numbers DEF Others
  <2>2. \A q \in Pages, i \in Nat : CallAt(q, i)' => CallAt(q, i) /\ queue'[q][i] = queue[q][i]
    BY <1>0, <1>10, <2>1, Requested, MessagesApart DEF SendAck
  <2>3. UNCHANGED <<pc, page, cur, got, late, alive, wire>>
    BY <1>10 DEF SendAck, toolVars
  <2> QED
    BY <1>7, <2>2, <2>3, Untouched
<1>11. ASSUME NEW p \in Pages, PageCloses(p)
       PROVE  OneCall'
  <2>1. UNCHANGED <<pc, page, cur, got, late, queue, wire>> /\ alive' \subseteq alive
    BY <1>11 DEF PageCloses, toolVars
  <2> QED
    BY <1>7, <2>1, Untouched
<1>12. ASSUME NEW p \in Pages, SendFrame(p)
       PROVE  OneCall'
  <2> DEFINE m == [kind |-> "frame", page |-> p, rec |-> casting[p]]
  <2>1. m \in Frames /\ wire' = Append(wire, m) /\ UNCHANGED <<rec, pc, page, cur, got, late, alive, queue>>
    BY <1>0, <1>12, Numbers DEF Frames, SendFrame, Types, Recordings, toolVars
  <2> HIDE DEF m
  <2>2. \A q \in Pages, i \in Nat : ReplyAt(q, i)' => ReplyAt(q, i) /\ wire'[i] = wire[i]
    BY <2>1, Sent, MessagesApart
  <2> QED
    BY <1>7, <2>1, <2>2, Untouched
<1>13. ASSUME UNCHANGED <<pc, page, cur, got, late, alive, queue>>, wire # <<>>, wire' = Tail(wire)
       PROVE  OneCall'
  <2>1. ASSUME NEW p \in Pages \ late
        PROVE  CalledOnce(p)'
    <3>1. \A i \in Nat : CallAt(p, i)' => CallAt(p, i + 0) /\ queue'[p][i] = queue[p][i + 0]
      BY <1>13, Untouched
    <3>2. \A i \in Nat : ReplyAt(p, i)' => ReplyAt(p, i + 1) /\ wire'[i] = wire[i + 1]
      BY <1>13, Received
    <3>3. alive' \subseteq alive
      BY <1>13
    <3> QED
      BY <1>13, <3>1, <3>2, <3>3, Fewer
  <2> QED
    BY <1>13, <2>1 DEF OneCall
<1>14. CASE ReadFrame
  BY <1>13, <1>14 DEF ReadFrame, toolVars, chromeVars
<1>15. CASE ReadReply
  <2>1. UNCHANGED <<rec, pc, page, cur, late, alive, queue>> /\ wire # <<>> /\ wire' = Tail(wire) /\ Head(wire) = wire[1]
        /\ wire[1] \in Frames \cup Replies
    BY <1>15, Received DEF ReadReply, chromeVars
  <2>2. CASE got' = got
    BY <1>13, <2>1, <2>2
  <2>3. CASE got' # got
    <3>1. pc = wire[1].to /\ cur = wire[1].rec /\ got' = wire[1].kind /\ wire[1] \in Replies
      BY <1>15, <2>1, <2>3, MessagesApart DEF ReadReply
    <3>2. pc \notin {"idle", "open"}
      BY <3>1, MessagesApart
    <3>3. ReplyAt(page, 1) /\ page \in Pages
      <4>1. rec[cur].page = page /\ page \in Pages /\ 1 \in 1..Len(wire)
        BY <1>0, <2>1, <3>2, Tailed DEF Filed, Types
      <4> QED
        BY <3>1, <4>1 DEF ReplyAt
    <3>4. ASSUME NEW p \in Pages \ late, NEW i \in Nat
          PROVE  ~CallAt(p, i)' /\ ~ReplyAt(p, i)'
      <4>1. CASE p # page
        BY <2>1, <4>1, Idle, Untouched, Received
      <4>2. CASE p = page
        <5>1. ~CallAt(p, i)
          BY <3>3, <4>2 DEF IInv, OneCall, CalledOnce
        <5>2. ASSUME ReplyAt(p, i)'
              PROVE  FALSE
          <6>1. ReplyAt(p, i + 1) /\ i + 1 \in Nat
            BY <2>1, <5>2, Received
          <6>2. i + 1 = 1
            BY <3>3, <4>2, <6>1 DEF IInv, OneCall, CalledOnce
          <6>3. i \in 1..Len(wire')
            BY <5>2 DEF ReplyAt
          <6> QED
            BY <6>2, <6>3
        <5> QED
          BY <2>1, <5>1, <5>2, Untouched
      <4> QED
        BY <4>1, <4>2
    <3>5. page \notin late /\ got' = "err" => page \notin alive
      BY <3>1, <3>3 DEF IInv, OneCall, CalledOnce
    <3> QED
      BY <2>1, <3>4, <3>5 DEF OneCall, CalledOnce
  <2> QED
    BY <2>2, <2>3
<1>16. ASSUME NEW d \in Pages, Serve(d)
       PROVE  OneCall'
  <2> DEFINE x == queue[d][1]
  <2>1. UNCHANGED <<rec, pc, page, cur, got, late, alive>>
    BY <1>16 DEF Serve, toolVars
  <2>2. x \in Calls \cup Others /\ Head(queue[d]) = x /\ (x \in Calls => CallAt(d, 1))
    BY <1>0, <1>16, Served
  <2>3. PICK kind \in {"ok", "err"} : wire' = Reply(kind, x) /\ (kind = "err" => d \notin alive)
    BY <1>16, <2>2 DEF Serve
  <2>4. \A q \in Pages, i \in Nat : CallAt(q, i)' =>
            \/ q # d /\ CallAt(q, i) /\ queue'[q][i] = queue[q][i]
            \/ q = d /\ CallAt(d, i + 1) /\ queue'[d][i] = queue[d][i + 1]
    BY <1>0, <1>16, Served
  <2>5. x \in Calls => rec[x.rec].page = d
    BY <2>2 DEF IInv, Known
  <2> HIDE DEF x
  <2>6. \A q \in Pages, i \in Nat :
            ReplyAt(q, i)' =>
              \/ ReplyAt(q, i) /\ wire'[i] = wire[i]
              \/ /\ q = d /\ x \in Calls /\ i = Len(wire) + 1
                 /\ wire'[i].kind = kind /\ wire'[i].rec = x.rec /\ wire'[i].to = For(x.kind)
    <3>1. CASE UNCHANGED wire
      BY <3>1, Untouched
    <3>2. ASSUME NEW m \in Replies, x \in Calls, wire' = Append(wire, m), m.kind = kind, m.rec = x.rec,
                 m.to = For(x.kind)
          PROVE  \A q \in Pages, i \in Nat :
                     ReplyAt(q, i)' =>
                       \/ ReplyAt(q, i) /\ wire'[i] = wire[i]
                       \/ /\ q = d /\ x \in Calls /\ i = Len(wire) + 1
                          /\ wire'[i].kind = kind /\ wire'[i].rec = x.rec /\ wire'[i].to = For(x.kind)
      <4>1. ASSUME NEW q \in Pages, NEW i \in Nat, ReplyAt(q, i)'
            PROVE  \/ ReplyAt(q, i) /\ wire'[i] = wire[i]
                   \/ i = Len(wire) + 1 /\ wire'[i] = m /\ rec[m.rec].page = q
        <5>1. UNCHANGED rec /\ m \in Frames \cup Replies
          BY <2>1
        <5>2. wire' = Append(wire, m) /\ rec' = rec
          BY <3>2, <5>1
        <5>3. ReplyAt(q, i)' => \/ ReplyAt(q, i) /\ wire'[i] = wire[i]
                                \/ i = Len(wire) + 1 /\ m \in Replies /\ wire'[i] = m /\ rec[m.rec].page = q
          BY <5>1, <5>2, Sent
        <5> QED
          BY <4>1, <5>3
      <4> QED
        BY <2>5, <3>2, <4>1
    <3> QED
      BY <2>2, <2>3, <3>1, <3>2, ReplySent
  <2>7. ASSUME NEW p \in Pages \ late
        PROVE  CalledOnce(p)'
    <3>1. CalledOnce(p) /\ alive' \subseteq alive
      BY <2>1 DEF IInv, OneCall
    <3>2. CASE p # d
      BY <2>1, <2>4, <2>6, <3>1, <3>2, Same
    <3>3. CASE p = d /\ x \notin Calls
      <4>1. \A i \in Nat : CallAt(p, i)' => CallAt(p, i + 1) /\ queue'[p][i] = queue[p][i + 1]
        BY <2>4, <3>3
      <4>2. \A i \in Nat : ReplyAt(p, i)' => ReplyAt(p, i + 0) /\ wire'[i] = wire[i + 0]
        BY <2>6, <3>3
      <4> QED
        BY <2>1, <3>1, <4>1, <4>2, Fewer
    <3>4. CASE p = d /\ x \in Calls
      <4>1. CallAt(p, 1) /\ queue[p][1] = x
        BY <2>2, <3>4 DEF x
      <4>2. /\ Waits(p, x.rec, For(x.kind)) /\ \A j \in Nat : CallAt(p, j) => j = 1
            /\ \A j \in Nat : ~ReplyAt(p, j)
        BY <3>1, <4>1 DEF CalledOnce
      <4>3. ASSUME NEW i \in Nat, CallAt(p, i)'
            PROVE  FALSE
        <5>1. CallAt(p, i + 1) /\ i + 1 \in Nat
          BY <2>4, <3>4, <4>3
        <5>2. i + 1 = 1
          BY <4>2, <5>1
        <5>3. i \in 1..Len(queue'[p])
          BY <4>3 DEF CallAt
        <5> QED
          BY <5>2, <5>3
      <4>4. ASSUME NEW i \in Nat, ReplyAt(p, i)'
            PROVE  i = Len(wire) + 1 /\ wire'[i].kind = kind /\ wire'[i].rec = x.rec /\ wire'[i].to = For(x.kind)
        BY <2>6, <4>2, <4>4
      <4> QED
        BY <2>1, <2>3, <3>4, <4>2, <4>3, <4>4 DEF CalledOnce, Waits
    <3> QED
      BY <3>2, <3>3, <3>4
  <2> QED
    BY <2>1, <2>7 DEF OneCall
<1> QED
  BY <1>2, <1>3, <1>4, <1>5, <1>6, <1>8, <1>9, <1>10, <1>11, <1>12, <1>14, <1>15, <1>16, <1>17, ActionCases

LEMMA StillSilent ==
  ASSUME IInv, NEW p \in alive \ late, NEW w \in {0, 1},
         casting'[p] \in {0, casting[p]},
         \A i \in Nat : ReplyAt(p, i)' => ReplyAt(p, i + w) /\ wire'[i] = wire[i + w],
         \A i \in Nat : FrameAt(p, i)' => FrameAt(p, i + w),
         Stopped(p)' \/ Unused(p)' => Stopped(p) \/ Unused(p)
  PROVE  FramesEnd(p)'
<1>0. FramesEnd(p) /\ (casting[p] = 0 => casting'[p] = 0)
  BY DEF IInv, Silence
<1>1. ASSUME NEW i \in Nat, ReplyAt(p, i)', wire'[i].to = "stopping"
      PROVE  casting'[p] = 0 /\ \A j \in Nat : FrameAt(p, j)' => j < i
  <2>1. ReplyAt(p, i + w) /\ i + w \in Nat /\ wire[i + w].to = "stopping"
    BY <1>1
  <2>2. casting[p] = 0 /\ \A j \in Nat : FrameAt(p, j) => j < i + w
    BY <1>0, <2>1 DEF FramesEnd
  <2>3. ASSUME NEW j \in Nat, FrameAt(p, j)'
        PROVE  j < i
    <3>1. FrameAt(p, j + w) /\ j + w \in Nat
      BY <2>3
    <3>2. j + w < i + w
      BY <2>2, <3>1
    <3> QED
      BY <3>2
  <2> QED
    BY <1>0, <2>2, <2>3
<1>2. ASSUME Stopped(p)' \/ Unused(p)'
      PROVE  casting'[p] = 0 /\ \A i \in Nat : ~FrameAt(p, i)'
  <2>1. casting[p] = 0 /\ \A i \in Nat : ~FrameAt(p, i)
    BY <1>0, <1>2 DEF FramesEnd, Silent, NoFrames
  <2>2. ASSUME NEW i \in Nat, FrameAt(p, i)'
        PROVE  FALSE
    <3>1. FrameAt(p, i + w) /\ i + w \in Nat
      BY <2>2
    <3> QED
      BY <2>1, <3>1
  <2> QED
    BY <1>0, <2>1, <2>2
<1> QED
  BY <1>1, <1>2 DEF FramesEnd, Silent, NoFrames

LEMMA StaySilent ==
  ASSUME IInv, NEW p \in alive \ late, casting'[p] \in {0, casting[p]},
         \A i \in Nat : ReplyAt(p, i)' => ReplyAt(p, i) /\ wire'[i] = wire[i],
         \A i \in Nat : FrameAt(p, i)' => FrameAt(p, i),
         Stopped(p)' \/ Unused(p)' => Stopped(p) \/ Unused(p)
  PROVE  FramesEnd(p)'
<1>1. \A i \in Nat : ReplyAt(p, i)' => ReplyAt(p, i + 0) /\ wire'[i] = wire[i + 0]
  OBVIOUS
<1>2. \A i \in Nat : FrameAt(p, i)' => FrameAt(p, i + 0)
  OBVIOUS
<1> QED
  BY <1>1, <1>2, StillSilent

\* What Serve does to the wire and to what a page casts.
LEMMA ServeIs ==
  ASSUME IInv, NEW d \in Pages, Serve(d)
  PROVE  /\ UNCHANGED <<casts, rec, pc, page, cur, got, late, alive>>
         /\ \A p \in Pages : p # d \/ d \notin alive => casting'[p] = casting[p]
         /\ \/ casting'[d] \in {0, casting[d]}
            \/ CallAt(d, 1) /\ queue[d][1].kind = "start" /\ casting'[d] = queue[d][1].rec
         /\ CallAt(d, 1) /\ queue[d][1].kind = "stop" /\ d \in alive => casting'[d] = 0
         /\ \A q \in Pages, i \in Nat :
              /\ FrameAt(q, i)' => FrameAt(q, i) /\ wire'[i] = wire[i]
              /\ ReplyAt(q, i)' =>
                   \/ ReplyAt(q, i) /\ wire'[i] = wire[i]
                   \/ /\ q = d /\ CallAt(d, 1) /\ i = Len(wire) + 1
                      /\ wire'[i].to = For(queue[d][1].kind)
              /\ FrameAt(q, i) => i < Len(wire) + 1
<1>0. Types /\ casting \in [Pages -> 0..MaxRecordings]
  BY DEF IInv, Types
<1> DEFINE x == queue[d][1]
<1>1. x \in Calls \cup Others /\ Head(queue[d]) = x /\ (x \in Calls => CallAt(d, 1)) /\ UNCHANGED rec
  BY <1>0, Served DEF Serve
<1>2. PICK kind \in {"ok", "err"} : wire' = Reply(kind, x)
  BY <1>1 DEF Serve
<1>3. x \in Calls => rec[x.rec].page = d
  BY <1>1 DEF IInv, Known
<1>4. UNCHANGED <<casts, rec, pc, page, cur, got, late, alive>>
  BY DEF Serve, toolVars
<1>5. \A p \in Pages : p # d \/ d \notin alive => casting'[p] = casting[p]
  BY <1>0 DEF Serve
<1>6. /\ \/ casting'[d] \in {0, casting[d]}
         \/ x.kind = "start" /\ casting'[d] = x.rec
      /\ x.kind = "stop" /\ d \in alive => casting'[d] = 0
  <2>1. CASE d \in alive
    <3>1. CASE x.kind = "start"
      BY <1>0, <1>1, <2>1, <3>1 DEF Serve
    <3>2. CASE x.kind \in {"stop", "tell"}
      BY <1>0, <1>1, <2>1, <3>2 DEF Serve
    <3>3. CASE x.kind = "ack"
      BY <1>0, <1>1, <2>1, <3>3 DEF Serve
    <3> QED
      BY <1>1, <3>1, <3>2, <3>3, MessagesApart
  <2>2. CASE d \notin alive
    BY <1>0, <1>5, <2>2
  <2> QED
    BY <2>1, <2>2
<1>7. x.kind \in {"start", "stop"} => CallAt(d, 1)
  BY <1>1, MessagesApart
<1>8. x \in Calls => x.kind \in {"start", "stop"}
  BY MessagesApart
<1>9. \A q \in Pages, i \in Nat : FrameAt(q, i) => i < Len(wire) + 1
  <2>1. Len(wire) \in Nat
    BY <1>0 DEF Types
  <2> QED
    BY <2>1 DEF FrameAt
<1> HIDE DEF x
<1>10. ASSUME NEW q \in Pages, NEW i \in Nat
       PROVE  /\ FrameAt(q, i)' => FrameAt(q, i) /\ wire'[i] = wire[i]
              /\ ReplyAt(q, i)' =>
                   \/ ReplyAt(q, i) /\ wire'[i] = wire[i]
                   \/ q = d /\ x \in Calls /\ i = Len(wire) + 1 /\ wire'[i].to = For(x.kind)
  <2>1. CASE UNCHANGED wire
    BY <1>1, <2>1 DEF FrameAt, ReplyAt
  <2>2. ASSUME NEW m \in Replies, x \in Calls, wire' = Append(wire, m), m.rec = x.rec, m.to = For(x.kind)
        PROVE  /\ FrameAt(q, i)' => FrameAt(q, i) /\ wire'[i] = wire[i]
               /\ ReplyAt(q, i)' =>
                    \/ ReplyAt(q, i) /\ wire'[i] = wire[i]
                    \/ q = d /\ x \in Calls /\ i = Len(wire) + 1 /\ wire'[i].to = For(x.kind)
    <3>1. m \in Frames \cup Replies /\ m \notin Frames /\ rec' = rec
      BY <1>1, MessagesApart
    <3>2. wire' = Append(wire, m)
      BY <2>2
    <3>3. FrameAt(q, i)' => \/ FrameAt(q, i) /\ wire'[i] = wire[i]
                            \/ i = Len(wire) + 1 /\ m \in Frames /\ wire'[i] = m /\ m.page = q
      BY <3>1, <3>2, Sent
    <3>4. ReplyAt(q, i)' => \/ ReplyAt(q, i) /\ wire'[i] = wire[i]
                            \/ i = Len(wire) + 1 /\ m \in Replies /\ wire'[i] = m /\ rec[m.rec].page = q
      BY <3>1, <3>2, Sent
    <3> QED
      BY <1>3, <2>2, <3>1, <3>3, <3>4
  <2> QED
    BY <1>1, <1>2, <2>1, <2>2, ReplySent
<1> QED
  BY <1>1, <1>4, <1>5, <1>6, <1>7, <1>8, <1>9, <1>10 DEF x

LEMMA SilenceKeeps ==
  ASSUME IInv, Next
  PROVE  Silence'
<1>0. Types /\ Filed /\ casts \in [Pages -> 0..MaxRecordings] /\ alive \subseteq Pages
      /\ casting \in [Pages -> 0..MaxRecordings] /\ \A r \in Recordings : r # 0
  BY Numbers DEF IInv, Types
<1>1. ASSUME NEW p \in alive \ late, UNCHANGED <<wire, casting>>,
             Stopped(p)' \/ Unused(p)' => Stopped(p) \/ Unused(p)
      PROVE  FramesEnd(p)'
  <2>1. /\ \A i \in Nat : ReplyAt(p, i)' => ReplyAt(p, i) /\ wire'[i] = wire[i]
        /\ \A i \in Nat : FrameAt(p, i)' => FrameAt(p, i)
    BY <1>0, <1>1, Untouched
  <2> QED
    BY <1>1, <2>1, StaySilent
<1>2. ASSUME NEW d \in Pages, NEW r \in Recordings, NEW limit \in FrameLimits, NEW timed \in BOOLEAN,
             Start(d, r, limit, timed)
      PROVE  Silence'
  <2>1. UNCHANGED <<wire, casting, alive, late, got>> /\ pc = "open" /\ pc' = "start" /\ casts' = [casts EXCEPT ![d] = r]
    BY <1>2 DEF Start, chromeVars
  <2>2. ASSUME NEW p \in alive \ late
        PROVE  FramesEnd(p)'
    <3>1. Stopped(p)' \/ Unused(p)' => Stopped(p) \/ Unused(p)
      BY <1>0, <2>1 DEF Stopped, Unused
    <3> QED
      BY <1>1, <2>1, <3>1
  <2> QED
    BY <2>1, <2>2 DEF Silence
<1>16. CASE Opens
  <2>1. UNCHANGED <<wire, casting, alive, late, casts, page, got>> /\ pc \in {"idle", "open"} /\ pc' \in {"idle", "open"}
    BY <1>16, OpensOnly
  <2>2. ASSUME NEW p \in alive \ late
        PROVE  FramesEnd(p)'
    <3>1. Stopped(p)' \/ Unused(p)' => Stopped(p) \/ Unused(p)
      BY <2>1 DEF Stopped, Unused
    <3> QED
      BY <1>1, <2>1, <3>1
  <2> QED
    BY <2>1, <2>2 DEF Silence
<1>3. ASSUME NEW d \in Pages, Stop(d)
      PROVE  Silence'
  <2>1. /\ UNCHANGED <<wire, casting, alive, late, got>> /\ pc = "idle" /\ pc' = "stop" /\ page' = d
        /\ casts' = [casts EXCEPT ![d] = 0]
    BY <1>3 DEF Stop, chromeVars, Unfile
  <2>2. ASSUME NEW p \in alive \ late
        PROVE  FramesEnd(p)'
    <3>1. Stopped(p)' \/ Unused(p)' => Stopped(p) \/ Unused(p)
      BY <1>0, <2>1 DEF Stopped, Unused
    <3> QED
      BY <1>1, <2>1, <3>1
  <2> QED
    BY <2>1, <2>2 DEF Silence
<1>4. CASE SendStart \/ SendStop
  <2>1. /\ UNCHANGED <<wire, casting, alive, late, casts, page, got>> /\ got = "none"
        /\ (pc = "start" /\ pc' = "starting") \/ (pc = "stop" /\ pc' = "stopping")
    BY <1>0, <1>4 DEF SendStart, SendStop, StopWaits, Filed
  <2>2. ASSUME NEW p \in alive \ late
        PROVE  FramesEnd(p)'
    <3>1. Stopped(p)' \/ Unused(p)' => Stopped(p) \/ Unused(p)
      BY <2>1 DEF Stopped, Unused
    <3> QED
      BY <1>1, <2>1, <3>1
  <2> QED
    BY <2>1, <2>2 DEF Silence
<1>5. CASE StartReplied
  <2>1. /\ UNCHANGED <<wire, casting, alive, late>> /\ pc = "starting" /\ pc' = "idle" /\ got # "none" /\ got' = "none"
        /\ casts' = casts \/ (got # "ok" /\ casts' = [casts EXCEPT ![page] = 0])
    BY <1>5 DEF StartReplied, chromeVars, Unfile
  <2>2. ASSUME NEW p \in alive \ late
        PROVE  FramesEnd(p)'
    <3>1. p = page => got = "ok"
      <4>1. CalledOnce(p) /\ got \in {"ok", "err"}
        BY <1>0, <2>1 DEF IInv, OneCall, Types
      <4> QED
        BY <2>2, <4>1 DEF CalledOnce
    <3>2. Stopped(p)' \/ Unused(p)' => Stopped(p) \/ Unused(p)
      BY <1>0, <2>1, <3>1 DEF Stopped, Unused
    <3> QED
      BY <1>1, <2>1, <3>2
  <2> QED
    BY <2>1, <2>2 DEF Silence
<1>6. CASE StopReplied
  <2>1. UNCHANGED <<wire, casting, alive, late, casts, page>> /\ pc = "stopping" /\ pc' = "idle" /\ got # "none"
    BY <1>6 DEF StopReplied, chromeVars
  <2>2. ASSUME NEW p \in alive \ late
        PROVE  FramesEnd(p)'
    <3>1. Stopped(p)' \/ Unused(p)' => Stopped(p) \/ Unused(p)
      BY <2>1 DEF Stopped, Unused
    <3> QED
      BY <1>1, <2>1, <3>1
  <2> QED
    BY <2>1, <2>2 DEF Silence
<1>7. CASE GiveUp
  <2>1. /\ UNCHANGED <<wire, casting, alive, page, got>> /\ pc' = "idle" /\ got = "none" /\ late' = late \cup {page}
        /\ casts' = casts \/ casts' = [casts EXCEPT ![page] = 0]
    BY <1>7 DEF GiveUp, chromeVars, Unfile
  <2>2. ASSUME NEW p \in alive \ late, p # page
        PROVE  FramesEnd(p)'
    <3>1. Stopped(p)' \/ Unused(p)' => Stopped(p) \/ Unused(p)
      BY <1>0, <2>1, <2>2 DEF Stopped, Unused
    <3> QED
      BY <1>1, <2>1, <3>1
  <2> QED
    BY <2>1, <2>2 DEF Silence
<1>8. CASE UNCHANGED <<wire, casting, alive, late, casts, page, got, pc>>
  <2>1. ASSUME NEW p \in alive \ late
        PROVE  FramesEnd(p)'
    <3>1. Stopped(p)' \/ Unused(p)' => Stopped(p) \/ Unused(p)
      BY <1>8 DEF Stopped, Unused
    <3> QED
      BY <1>1, <1>8, <3>1
  <2> QED
    BY <1>8, <2>1 DEF Silence
<1>9. ASSUME NEW r \in Recordings, Fire(r) \/ Mark(r) \/ Tell(r)
      PROVE  Silence'
  BY <1>8, <1>9 DEF Fire, Mark, Tell, toolVars, chromeVars
<1>10. ASSUME NEW d \in Pages, SendAck(d)
       PROVE  Silence'
  BY <1>8, <1>10 DEF SendAck, toolVars
<1>11. CASE ReadFrame
  <2>1. /\ UNCHANGED <<casting, alive, late, casts, page, got, pc>> /\ wire # <<>> /\ wire' = Tail(wire)
    BY <1>11 DEF ReadFrame, toolVars, chromeVars
  <2>2. ASSUME NEW p \in alive \ late
        PROVE  FramesEnd(p)'
    <3>1. Stopped(p)' \/ Unused(p)' => Stopped(p) \/ Unused(p)
      BY <2>1 DEF Stopped, Unused
    <3>2. /\ \A i \in Nat : ReplyAt(p, i)' => ReplyAt(p, i + 1) /\ wire'[i] = wire[i + 1]
          /\ \A i \in Nat : FrameAt(p, i)' => FrameAt(p, i + 1)
          /\ casting'[p] \in {0, casting[p]}
      BY <1>0, <2>1, Received
    <3> QED
      BY <3>1, <3>2, StillSilent
  <2> QED
    BY <2>1, <2>2 DEF Silence
<1>12. CASE ReadReply
  <2>1. /\ UNCHANGED <<rec, casting, alive, late, casts, page, cur, pc>> /\ wire # <<>> /\ wire' = Tail(wire)
        /\ Head(wire) = wire[1] /\ wire[1] \in Frames \cup Replies
    BY <1>12, Received DEF ReadReply, chromeVars
  <2>2. ASSUME NEW p \in alive \ late
        PROVE  FramesEnd(p)'
    <3>1. /\ \A i \in Nat : ReplyAt(p, i)' => ReplyAt(p, i + 1) /\ wire'[i] = wire[i + 1]
          /\ \A i \in Nat : FrameAt(p, i)' => FrameAt(p, i + 1)
          /\ casting'[p] \in {0, casting[p]}
      BY <1>0, <2>1, Received
    <3>2. CASE Stopped(p)' => Stopped(p)
      <4>1. Stopped(p)' \/ Unused(p)' => Stopped(p) \/ Unused(p)
        BY <2>1, <3>2 DEF Unused
      <4> QED
        BY <3>1, <4>1, StillSilent
    <3>3. CASE Stopped(p)' /\ ~Stopped(p)
      <4>1. page = p /\ pc = "stopping" /\ got = "none" /\ got' # "none" /\ casts[p] = 0
        BY <1>0, <2>1, <3>3 DEF Stopped, Filed
      <4>2. pc = wire[1].to /\ cur = wire[1].rec /\ wire[1] \in Replies
        BY <1>12, <2>1, <4>1, MessagesApart DEF ReadReply
      <4>3. ReplyAt(p, 1) /\ wire[1].to = "stopping"
        <5>1. rec[cur].page = p /\ 1 \in 1..Len(wire)
          BY <1>0, <2>1, <4>1, Tailed DEF Filed, Types
        <5> QED
          BY <4>1, <4>2, <5>1 DEF ReplyAt
      <4>4. casting[p] = 0 /\ \A j \in Nat : FrameAt(p, j) => j < 1
        BY <4>3 DEF IInv, Silence, FramesEnd
      <4>5. ASSUME NEW i \in Nat, FrameAt(p, i)'
            PROVE  FALSE
        <5>1. FrameAt(p, i + 1) /\ i + 1 \in Nat /\ i \in 1..Len(wire')
          BY <3>1, <4>5 DEF FrameAt
        <5>2. i + 1 < 1
          BY <4>4, <5>1
        <5> QED
          BY <5>1, <5>2
      <4>6. \A i \in Nat : ~ReplyAt(p, i)'
        <5>1. ASSUME NEW i \in Nat, ReplyAt(p, i)'
              PROVE  FALSE
          <6>1. ReplyAt(p, i + 1) /\ i + 1 \in Nat /\ i \in 1..Len(wire')
            BY <3>1, <5>1 DEF ReplyAt
          <6>2. i + 1 = 1
            BY <1>0, <4>3, <6>1 DEF IInv, OneCall, CalledOnce
          <6> QED
            BY <6>1, <6>2
        <5> QED
          BY <5>1
      <4> QED
        BY <2>1, <4>4, <4>5, <4>6 DEF FramesEnd, Silent, NoFrames
    <3> QED
      BY <3>2, <3>3
  <2> QED
    BY <2>1, <2>2 DEF Silence
<1>13. ASSUME NEW d \in Pages, Serve(d)
       PROVE  Silence'
  <2>1. /\ UNCHANGED <<casts, rec, pc, page, cur, got, late, alive>>
        /\ \A p \in Pages : p # d \/ d \notin alive => casting'[p] = casting[p]
        /\ \/ casting'[d] \in {0, casting[d]}
           \/ CallAt(d, 1) /\ queue[d][1].kind = "start" /\ casting'[d] = queue[d][1].rec
        /\ CallAt(d, 1) /\ queue[d][1].kind = "stop" /\ d \in alive => casting'[d] = 0
    BY <1>13, ServeIs
  <2>2. \A q \in Pages, i \in Nat :
          /\ FrameAt(q, i)' => FrameAt(q, i) /\ wire'[i] = wire[i]
          /\ ReplyAt(q, i)' =>
               \/ ReplyAt(q, i) /\ wire'[i] = wire[i]
               \/ /\ q = d /\ CallAt(d, 1) /\ i = Len(wire) + 1
                  /\ wire'[i].to = For(queue[d][1].kind)
          /\ FrameAt(q, i) => i < Len(wire) + 1
    BY <1>13, ServeIs
  <2>3. ASSUME NEW p \in alive \ late
        PROVE  FramesEnd(p)'
    <3>0. p \in Pages /\ CalledOnce(p) /\ FramesEnd(p)
      BY <1>0 DEF IInv, OneCall, Silence
    <3>1. Stopped(p)' \/ Unused(p)' => Stopped(p) \/ Unused(p)
      BY <2>1 DEF Stopped, Unused
    <3>2. CASE p # d \/ ~CallAt(d, 1)
      <4>1. casting'[p] \in {0, casting[p]}
        BY <2>1, <3>0, <3>2
      <4>2. /\ \A i \in Nat : ReplyAt(p, i)' => ReplyAt(p, i) /\ wire'[i] = wire[i]
            /\ \A i \in Nat : FrameAt(p, i)' => FrameAt(p, i)
        BY <2>2, <3>0, <3>2
      <4> QED
        BY <3>1, <4>1, <4>2, StaySilent
    <3>3. CASE p = d /\ CallAt(d, 1)
      <4>1. /\ Waits(p, queue[p][1].rec, For(queue[p][1].kind)) /\ \A j \in Nat : ~ReplyAt(p, j)
            /\ queue[p][1].kind \in {"start", "stop"}
        BY <3>0, <3>3, MessagesApart DEF CalledOnce, CallAt
      <4>2. CASE queue[p][1].kind = "start"
        <5>1. pc = "starting" /\ page = p /\ got = "none" /\ casts[p] # 0
          BY <1>0, <4>1, <4>2 DEF Waits, For, Filed
        <5>2. \A i \in Nat : ReplyAt(p, i)' => wire'[i].to = "starting"
          BY <2>2, <3>0, <3>3, <4>1, <4>2 DEF For
        <5>3. ~Stopped(p)' /\ ~Unused(p)'
          BY <2>1, <5>1 DEF Stopped, Unused
        <5> QED
          BY <5>2, <5>3 DEF FramesEnd
      <4>3. CASE queue[p][1].kind = "stop"
        <5>1. casting'[p] = 0
          BY <2>1, <3>3, <4>3
        <5>2. \A i \in Nat : ReplyAt(p, i)' => i = Len(wire) + 1
          BY <2>2, <3>0, <4>1
        <5>3. \A j \in Nat : FrameAt(p, j)' => FrameAt(p, j) /\ j < Len(wire) + 1
          BY <2>2, <3>0
        <5>4. Stopped(p)' \/ Unused(p)' => \A i \in Nat : ~FrameAt(p, i)'
          BY <3>0, <3>1, <5>3 DEF FramesEnd, Silent, NoFrames
        <5> QED
          BY <5>1, <5>2, <5>3, <5>4 DEF FramesEnd, Silent, NoFrames
      <4> QED
        BY <4>1, <4>2, <4>3
    <3> QED
      BY <3>2, <3>3
  <2> QED
    BY <2>1, <2>3 DEF Silence
<1>14. ASSUME NEW d \in Pages, PageCloses(d)
       PROVE  Silence'
  <2>1. UNCHANGED <<wire, casts, pc, page, got, late>> /\ alive' = alive \ {d} /\ casting' = [casting EXCEPT ![d] = 0]
    BY <1>14 DEF PageCloses, toolVars
  <2>2. ASSUME NEW p \in alive \ late, p # d
        PROVE  FramesEnd(p)'
    <3>1. Stopped(p)' \/ Unused(p)' => Stopped(p) \/ Unused(p)
      BY <2>1 DEF Stopped, Unused
    <3>2. casting'[p] \in {0, casting[p]}
      BY <1>0, <2>1, <2>2
    <3>3. /\ \A i \in Nat : ReplyAt(p, i)' => ReplyAt(p, i) /\ wire'[i] = wire[i]
          /\ \A i \in Nat : FrameAt(p, i)' => FrameAt(p, i)
      BY <1>0, <2>1, Untouched
    <3> QED
      BY <3>1, <3>2, <3>3, StaySilent
  <2> QED
    BY <2>1, <2>2 DEF Silence
<1>15. ASSUME NEW d \in Pages, SendFrame(d)
       PROVE  Silence'
  <2> DEFINE m == [kind |-> "frame", page |-> d, rec |-> casting[d]]
  <2>1. /\ m \in Frames /\ m.page = d /\ wire' = Append(wire, m) /\ casting[d] # 0
        /\ UNCHANGED <<rec, casts, pc, page, got, late, alive, casting>>
    BY <1>0, <1>15, Numbers DEF Frames, SendFrame, Types, Recordings, toolVars
  <2> HIDE DEF m
  <2>2. \A q \in Pages, i \in Nat :
          /\ ReplyAt(q, i)' => ReplyAt(q, i) /\ wire'[i] = wire[i]
          /\ q # d => (FrameAt(q, i)' => FrameAt(q, i))
    BY <2>1, Sent, MessagesApart
  <2>3. ASSUME NEW p \in alive \ late
        PROVE  FramesEnd(p)'
    <3>0. p \in Pages /\ FramesEnd(p)
      BY <1>0 DEF IInv, Silence
    <3>1. Stopped(p)' \/ Unused(p)' => Stopped(p) \/ Unused(p)
      BY <2>1 DEF Stopped, Unused
    <3>2. CASE p # d
      <4>1. /\ \A i \in Nat : ReplyAt(p, i)' => ReplyAt(p, i) /\ wire'[i] = wire[i]
            /\ \A i \in Nat : FrameAt(p, i)' => FrameAt(p, i)
        BY <2>2, <3>0, <3>2
      <4> QED
        BY <2>1, <3>1, <4>1, StaySilent
    <3>3. CASE p = d
      <4>1. \A i \in Nat : ~(ReplyAt(p, i)' /\ wire'[i].to = "stopping")
        BY <2>1, <2>2, <3>0, <3>3 DEF FramesEnd
      <4>2. ~Stopped(p)' /\ ~Unused(p)'
        BY <2>1, <3>0, <3>1, <3>3 DEF FramesEnd, Silent
      <4> QED
        BY <4>1, <4>2 DEF FramesEnd
    <3> QED
      BY <3>2, <3>3
  <2> QED
    BY <2>1, <2>3 DEF Silence
<1> QED
  BY <1>2, <1>3, <1>4, <1>5, <1>6, <1>7, <1>9, <1>10, <1>11, <1>12, <1>13, <1>14, <1>15, <1>16, ActionCases

LEMMA CurrentKeeps ==
  ASSUME IInv, Next
  PROVE  Current'
<1>0. Types /\ Filed /\ casts \in [Pages -> 0..MaxRecordings] /\ alive \subseteq Pages
      /\ casting \in [Pages -> 0..MaxRecordings] /\ \A r \in Recordings : r # 0
  BY Numbers DEF IInv, Types
<1>1. ASSUME NEW p \in Pages \ late, casts[p] # 0
      PROVE  casting[p] \in {0, casts[p]} /\ \A i \in Nat : FrameAt(p, i) => wire[i].rec = casts[p]
  BY <1>1 DEF IInv, Current
<1>2. ASSUME NEW d \in Pages, NEW r \in Recordings, NEW limit \in FrameLimits, NEW timed \in BOOLEAN,
             Start(d, r, limit, timed)
      PROVE  Current'
  <2>1. /\ UNCHANGED <<wire, casting, late>> /\ pc = "open" /\ casts' = [casts EXCEPT ![d] = r]
        /\ d \in alive /\ casts[d] = 0
    BY <1>2 DEF Start, chromeVars
  <2>2. ASSUME NEW p \in Pages \ late, casts'[p] # 0
        PROVE  casting'[p] \in {0, casts'[p]} /\ \A i \in Nat : FrameAt(p, i)' => wire'[i].rec = casts'[p]
    <3>1. CASE p = d
      <4>1. Silent(p)
        BY <2>1, <3>1 DEF IInv, Silence, FramesEnd, Unused
      <4> QED
        BY <2>1, <4>1, Untouched DEF Silent, NoFrames
    <3>2. CASE p # d
      <4>1. casts'[p] = casts[p]
        BY <1>0, <2>1, <3>2
      <4> QED
        BY <1>1, <2>1, <2>2, <4>1, Untouched
    <3> QED
      BY <3>1, <3>2
  <2> QED
    BY <2>1, <2>2 DEF Current
<1>3. ASSUME UNCHANGED <<wire, casting>>, late \subseteq late',
             \A p \in Pages : casts'[p] = casts[p] \/ casts'[p] = 0
      PROVE  Current'
  <2>1. ASSUME NEW p \in Pages \ late', casts'[p] # 0
        PROVE  casting'[p] \in {0, casts'[p]} /\ \A i \in Nat : FrameAt(p, i)' => wire'[i].rec = casts'[p]
    <3>1. casts'[p] = casts[p] /\ p \in Pages \ late
      BY <1>3, <2>1
    <3> QED
      BY <1>1, <1>3, <2>1, <3>1, Untouched
  <2> QED
    BY <2>1 DEF Current
<1>4. ASSUME NEW d \in Pages, Stop(d)
      PROVE  Current'
  BY <1>0, <1>3, <1>4 DEF Stop, Unfile, chromeVars
<1>5. CASE StartReplied \/ StopReplied \/ GiveUp
  BY <1>0, <1>3, <1>5 DEF StartReplied, StopReplied, GiveUp, Unfile, chromeVars
<1>6. CASE SendStart \/ SendStop
  BY <1>3, <1>6 DEF SendStart, SendStop
<1>7. ASSUME NEW r \in Recordings, Fire(r) \/ Mark(r) \/ Tell(r)
      PROVE  Current'
  BY <1>3, <1>7 DEF Fire, Mark, Tell, chromeVars
<1>8. ASSUME NEW d \in Pages, SendAck(d)
      PROVE  Current'
  BY <1>3, <1>8 DEF SendAck
<1>9. CASE ReadFrame \/ ReadReply
  <2>1. /\ UNCHANGED <<casting, late, casts>> /\ wire # <<>> /\ wire' = Tail(wire)
    BY <1>9 DEF ReadFrame, ReadReply, chromeVars
  <2>2. ASSUME NEW p \in Pages \ late, casts'[p] # 0
        PROVE  casting'[p] \in {0, casts'[p]} /\ \A i \in Nat : FrameAt(p, i)' => wire'[i].rec = casts'[p]
    <3>1. \A i \in Nat : FrameAt(p, i)' => FrameAt(p, i + 1) /\ wire'[i] = wire[i + 1]
      BY <2>1, Received
    <3>2. \A i \in Nat : i + 1 \in Nat
      OBVIOUS
    <3> QED
      BY <1>1, <2>1, <2>2, <3>1, <3>2
  <2> QED
    BY <2>1, <2>2 DEF Current
<1>10. ASSUME NEW d \in Pages, Serve(d)
       PROVE  Current'
  <2>1. /\ UNCHANGED <<casts, rec, pc, page, cur, got, late, alive>>
        /\ \A p \in Pages : p # d \/ d \notin alive => casting'[p] = casting[p]
        /\ \/ casting'[d] \in {0, casting[d]}
           \/ CallAt(d, 1) /\ queue[d][1].kind = "start" /\ casting'[d] = queue[d][1].rec
        /\ \A q \in Pages, i \in Nat : FrameAt(q, i)' => FrameAt(q, i) /\ wire'[i] = wire[i]
    BY <1>10, ServeIs
  <2>2. ASSUME NEW p \in Pages \ late, casts'[p] # 0
        PROVE  casting'[p] \in {0, casts'[p]} /\ \A i \in Nat : FrameAt(p, i)' => wire'[i].rec = casts'[p]
    <3>1. \A i \in Nat : FrameAt(p, i)' => wire'[i].rec = casts'[p]
      BY <1>1, <2>1, <2>2
    <3>2. CASE casting'[p] \in {0, casting[p]}
      BY <1>1, <2>1, <2>2, <3>1, <3>2
    <3>3. CASE p = d /\ CallAt(d, 1) /\ queue[d][1].kind = "start" /\ casting'[d] = queue[d][1].rec
      <4>1. Waits(p, queue[p][1].rec, "starting")
        BY <3>3 DEF IInv, OneCall, CalledOnce, For
      <4>2. casts[p] = queue[p][1].rec
        BY <1>0, <4>1 DEF Waits, Filed
      <4> QED
        BY <2>1, <3>1, <3>3, <4>2
    <3> QED
      BY <2>1, <3>2, <3>3
  <2> QED
    BY <2>1, <2>2 DEF Current
<1>11. ASSUME NEW d \in Pages, PageCloses(d)
       PROVE  Current'
  <2>1. UNCHANGED <<wire, casts, late>> /\ casting' = [casting EXCEPT ![d] = 0]
    BY <1>11 DEF PageCloses
  <2>2. ASSUME NEW p \in Pages \ late, casts'[p] # 0
        PROVE  casting'[p] \in {0, casts'[p]} /\ \A i \in Nat : FrameAt(p, i)' => wire'[i].rec = casts'[p]
    <3>1. casting'[p] \in {0, casting[p]}
      BY <1>0, <2>1
    <3> QED
      BY <1>1, <2>1, <2>2, <3>1, Untouched
  <2> QED
    BY <2>1, <2>2 DEF Current
<1>12. ASSUME NEW d \in Pages, SendFrame(d)
       PROVE  Current'
  <2> DEFINE m == [kind |-> "frame", page |-> d, rec |-> casting[d]]
  <2>1. /\ m \in Frames /\ m.rec = casting[d] /\ wire' = Append(wire, m) /\ casting[d] # 0
        /\ UNCHANGED <<rec, casts, late, casting>>
    BY <1>0, <1>12, Numbers DEF Frames, SendFrame, Types, Recordings, toolVars
  <2> HIDE DEF m
  <2>2. ASSUME NEW p \in Pages \ late, casts'[p] # 0
        PROVE  casting'[p] \in {0, casts'[p]} /\ \A i \in Nat : FrameAt(p, i)' => wire'[i].rec = casts'[p]
    <3>1. m \in Frames \cup Replies /\ rec' = rec /\ wire' = Append(wire, m)
      BY <2>1
    <3>2. ASSUME NEW i \in Nat, FrameAt(p, i)'
          PROVE  wire'[i].rec = casts[p]
      <4>1. \/ FrameAt(p, i) /\ wire'[i] = wire[i]
            \/ i = Len(wire) + 1 /\ m \in Frames /\ wire'[i] = m /\ m.page = p
        BY <3>1, <3>2, Sent
      <4>2. m.page = d
        BY DEF m
      <4> QED
        BY <1>1, <2>1, <2>2, <4>1, <4>2
    <3> QED
      BY <1>1, <2>1, <2>2, <3>2
  <2> QED
    BY <2>1, <2>2 DEF Current
<1>13. CASE Opens
  BY <1>3, <1>13, OpensOnly
<1> QED
  BY <1>2, <1>4, <1>5, <1>6, <1>7, <1>8, <1>9, <1>10, <1>11, <1>12, <1>13, ActionCases

LEMMA OwnFramesKeep ==
  ASSUME IInv, Next
  PROVE  OwnFrames'
<1>0. Types /\ rec \in [Recordings -> RecStates] /\ late \subseteq late'
  <2>1. Types /\ rec \in [Recordings -> RecStates]
    BY DEF IInv, Types
  <2>2. late \subseteq late'
    BY ActionCases, OpensOnly
    DEF Start, Stop, SendStart, StartReplied, SendStop, StopReplied, GiveUp, ReadReply, ReadFrame, Fire, Mark,
        Tell, SendAck, Serve, PageCloses, SendFrame
  <2> QED
    BY <2>1, <2>2
<1>1. ASSUME NEW q \in Recordings, rec'[q].page \notin late', NEW i \in 1..Len(rec'[q].frames)
      PROVE  rec'[q].frames[i] = q
  <2>1. CASE Begins(q)
    BY <1>1, <2>1 DEF Begins
  <2>2. CASE ~Begins(q) /\ ~Takes(q)
    <3>1. rec'[q].page = rec[q].page /\ rec'[q].frames = rec[q].frames
      BY <2>2, RecordingSteps, Persists, RecordingsStay DEF Ends, Times, Fills
    <3>2. rec[q].page \notin late
      BY <1>0, <1>1, <3>1
    <3> QED
      BY <1>1, <3>1, <3>2 DEF IInv, OwnFrames
  <2>3. CASE Takes(q)
    <3> DEFINE p == wire[1].page
    <3>1. /\ FrameAt(p, 1) /\ p \in Pages /\ casts[p] = q /\ wire[1].rec \in Recordings
          /\ rec'[q].frames = Append(rec[q].frames, wire[1].rec)
      BY <2>3 DEF Takes
    <3>2. casts[p] # 0 /\ rec[q].page = p /\ rec'[q].page = rec[q].page
      BY <3>1, Numbers, Filing, RecordingsStay
    <3> HIDE DEF p
    <3>3. p \notin late
      BY <1>0, <1>1, <3>2
    <3>4. wire[1].rec = q
      BY <3>1, <3>2, <3>3 DEF IInv, Current
    <3>5. rec[q].frames \in Seq(Recordings)
      BY <1>0 DEF RecStates
    <3>6. /\ Len(rec[q].frames) \in Nat /\ Len(rec'[q].frames) = Len(rec[q].frames) + 1
          /\ \A k \in 1..Len(rec[q].frames) : rec'[q].frames[k] = rec[q].frames[k]
          /\ rec'[q].frames[Len(rec[q].frames) + 1] = q
      BY <3>1, <3>4, <3>5, Appended
    <3>7. \A k \in 1..Len(rec[q].frames) : rec[q].frames[k] = q
      BY <3>2, <3>3 DEF IInv, OwnFrames
    <3>8. i \in 1..(Len(rec[q].frames) + 1)
      BY <1>1, <3>6
    <3>9. i \in 1..Len(rec[q].frames) \/ i = Len(rec[q].frames) + 1
      BY <3>6, <3>8
    <3> QED
      BY <3>6, <3>7, <3>9
  <2> QED
    BY <2>1, <2>2, <2>3
<1> QED
  BY <1>1 DEF OwnFrames

-----------------------------------------------------------------------------
(* The theorems *)

LEMMA InitHolds == Init => IInv
<1> SUFFICES ASSUME Init PROVE IInv
  OBVIOUS
<1>1. MaxRecordings \in Nat /\ Window \in Nat /\ 0 \in 0..MaxRecordings /\ 0 \in 0..Window
  BY ScreencastAssumption
<1>2. /\ Blank.page = "none" /\ Blank.active = FALSE /\ Blank.collecting = FALSE /\ Blank.frames = <<>>
      /\ Blank.maxFrames = 0 /\ Blank.limitHit = "none" /\ Blank \in RecStates
  <2>1. <<>> \in Seq(Recordings)
    OBVIOUS
  <2> QED
    BY <2>1 DEF Blank, RecStates
<1>3. \A r \in Recordings : rec[r] = Blank
  BY DEF Init
<1>4. Types
  <2>1. <<>> \in Seq(Frames \cup Replies) /\ <<>> \in Seq(Calls \cup Others)
    OBVIOUS
  <2> QED
    BY <1>1, <1>2, <2>1 DEF Init, Types
<1>5. Filed /\ OwnDeadline
  BY <1>2, <1>3 DEF Init, Filed, OwnDeadline
<1>11. Roots
  BY Numbers DEF Init, Roots
<1>6. LimitsAreKept /\ OwnFrames
  <2>1. Len(<<>>) = 0 /\ MaxBytes \in Nat
    BY ScreencastAssumption
  <2> QED
    BY <1>2, <1>3, <2>1 DEF Init, LimitsAreKept, OwnFrames
<1>7. wire = <<>> /\ \A p \in Pages : queue[p] = <<>> /\ casts[p] = 0 /\ casting[p] = 0
  BY DEF Init
<1>8. \A p \in Pages, i \in Nat : ~CallAt(p, i) /\ ~ReplyAt(p, i) /\ ~FrameAt(p, i)
  BY <1>7 DEF CallAt, ReplyAt, FrameAt
<1>9. Known
  BY <1>7, <1>8 DEF Known
<1>10. OneCall /\ Silence /\ Current
  BY <1>7, <1>8 DEF Init, OneCall, CalledOnce, Silence, FramesEnd, Silent, NoFrames, Current
<1> QED
  BY <1>4, <1>5, <1>11, <1>6, <1>9, <1>10 DEF IInv

LEMMA NextKeeps == IInv /\ [Next]_vars => IInv'
<1>1. ASSUME IInv, Next
      PROVE  IInv'
  BY <1>1, TypesKeep, FiledKeeps, LimitsKeep, RootsKeep, DeadlineKeeps, KnownKeeps, OneCallKeeps, SilenceKeeps,
     CurrentKeeps, OwnFramesKeep DEF IInv
<1>2. ASSUME IInv, UNCHANGED vars
      PROVE  IInv'
  BY <1>2 DEF IInv, vars, toolVars, chromeVars, Types, Filed, LimitsAreKept, Roots, OwnDeadline, Known, CallAt,
     ReplyAt, FrameAt, OneCall, CalledOnce, Waits, Silence, FramesEnd, Stopped, Unused, Silent, NoFrames, Current,
     OwnFrames
<1> QED
  BY <1>1, <1>2

\* The whole invariant, for any pages and limits.
THEOREM InductiveHolds == Spec => []IInv
BY InitHolds, NextKeeps, PTL DEF Spec

\* Types, and a map that holds running recordings under their own page.
THEOREM TypesHold == Spec => []TypeOK
<1>1. IInv => TypeOK
  <2> SUFFICES ASSUME IInv PROVE TypeOK
    OBVIOUS
  <2>1. \A p \in Pages : casts[p] # 0 => casts[p] \in Recordings /\ rec[casts[p]].active /\ rec[casts[p]].page = p
    BY Filing DEF IInv, Filed
  <2>2. \A r \in Recordings : rec[r].limitHit \in {"none", "maxFrames", "memory", "maxDurationMs"}
    BY DEF IInv, Types, RecStates
  <2> QED
    BY <2>1, <2>2 DEF IInv, Types, TypeOK
<1> QED
  BY <1>1, InductiveHolds, PTL

\* No recording outgrows its frame limit or the memory budget, and one that
\* stopped collecting knows what to report (screencast.go:61-68).
THEOREM LimitsHold == Spec => []LimitsAreKept
<1>1. IInv => LimitsAreKept
  BY DEF IInv
<1> QED
  BY <1>1, InductiveHolds, PTL

\* A late timer leaves the next recording alone, and on a page none of whose
\* calls was given up a recording holds only its own frames (screencast.go:158).
THEOREM RecordingsApart == Spec => []RecordingsAreSeparate
<1>1. IInv => RecordingsAreSeparate
  BY DEF IInv, RecordingsAreSeparate
<1> QED
  BY <1>1, InductiveHolds, PTL

\* Between tools a directory is open exactly for a filed recording, whatever
\* start it was opened for came to (screencast.go:120-134, 195-200, 233).
THEOREM RootsClosed == Spec => []NoRootLeak
<1>1. IInv => NoRootLeak
  BY DEF IInv, Roots, HoldsRoot, NoRootLeak
<1> QED
  BY <1>1, InductiveHolds, PTL
=============================================================================
