-------------------------- MODULE WebSocket_proofs --------------------------
(***************************************************************************)
(* Proofs about WebSocket, for any writers, any frames from Chrome and any *)
(* room in the socket: types are kept, writeMu excludes, the frames on the *)
(* socket are whole, and so are the messages that are returned.            *)
(***************************************************************************)
EXTENDS WebSocket, TLAPS, WellFoundedInduction

\* The holder of writeMu wrote the last half frame, or the last frame is whole.
StreamFollowsLock ==
    \A p \in Procs :
        /\ pc[p] = "header" /\ tcp = "open" => last.part = "payload"
        /\ pc[p] = "payload" => last = [by |-> p, part |-> "header"]

\* A half frame is left behind only by its writer still at it, or by a write that
\* failed, after which the socket takes nothing.
HalfIsUnderWay ==
    last.part = "header" /\ tcp = "open" => lock # Nobody /\ pc[lock] = "payload"

Inductive == TypeOK /\ StreamFollowsLock /\ HalfIsUnderWay

States == {"idle", "lock", "header", "payload", "shut", "ended"}

-----------------------------------------------------------------------------
(* The names are distinct.                                                  *)

LEMMA NobodyIsNone == Nobody \notin Procs /\ Reader \in Procs /\ Closer \in Procs
BY WebSocketAssumption DEF Procs, Reader, Closer, Nobody

-----------------------------------------------------------------------------
(* Steps outside of writeFrame and steps of it.                             *)

\* A step that lets one process go on outside of writeFrame, writes nothing and
\* does not open the socket again keeps the invariant.
LEMMA OffStream ==
  ASSUME Inductive, NEW p \in Procs, NEW s \in {"idle", "lock", "shut", "ended"},
         pc[p] \notin {"header", "payload"},
         pc' = [pc EXCEPT ![p] = s],
         job' \in [Procs -> {"none", "text", "pong", "close"}],
         UNCHANGED writeVars,
         tcp' \in {"open", "closed", "broken"}, tcp' = "open" => tcp = "open",
         sent' = sent, read' \in 0..Len(sent)
  PROVE  Inductive'
<1> USE NobodyIsNone DEF Inductive, TypeOK, writeVars
<1>1. pc' \in [Procs -> States] /\ \A q \in Procs : q # p => pc'[q] = pc[q]
  BY DEF States
<1>2. pc'[p] = s /\ p # lock
  OBVIOUS
<1>3. TypeOK'
  BY <1>1, <1>2 DEF States
<1>4. StreamFollowsLock'
  BY <1>1, <1>2 DEF StreamFollowsLock
<1>5. HalfIsUnderWay'
  BY <1>1, <1>2 DEF HalfIsUnderWay
<1> QED
  BY <1>3, <1>4, <1>5

LEMMA Keeps_Acquire ==
  ASSUME Inductive, NEW p \in Procs, Acquire(p)
  PROVE  Inductive'
<1> USE NobodyIsNone DEF Inductive, TypeOK, Acquire, LockFree, readVars
<1>1. pc' \in [Procs -> States] /\ pc'[p] = "header" /\ \A q \in Procs : q # p => pc'[q] = pc[q]
  BY DEF States
<1>2. TypeOK'
  BY <1>1 DEF States
<1>3. StreamFollowsLock' /\ HalfIsUnderWay'
  BY <1>1 DEF StreamFollowsLock, HalfIsUnderWay
<1> QED
  BY <1>2, <1>3

LEMMA Keeps_WriteHeader ==
  ASSUME Inductive, NEW p \in Procs, WriteHeader(p)
  PROVE  Inductive'
<1> USE NobodyIsNone DEF Inductive, TypeOK, WriteHeader, Put, readVars
<1>1. pc' \in [Procs -> States] /\ pc'[p] = "payload" /\ \A q \in Procs : q # p => pc'[q] = pc[q]
  BY DEF States
<1>2. last' = [by |-> p, part |-> "header"] /\ queued' \in 0..Room
  BY WebSocketAssumption
<1>3. TypeOK'
  BY <1>1, <1>2 DEF States
<1>4. StreamFollowsLock' /\ HalfIsUnderWay'
  BY <1>1, <1>2 DEF StreamFollowsLock, HalfIsUnderWay
<1> QED
  BY <1>3, <1>4

\* What follows a frame is not another half of it.
LEMMA AfterFrame ==
  ASSUME NEW p \in Procs, NEW ok \in BOOLEAN
  PROVE  After(p, ok) \in {"idle", "shut", "ended"}
BY DEF After

LEMMA Keeps_WritePayload ==
  ASSUME Inductive, NEW p \in Procs, WritePayload(p)
  PROVE  Inductive'
<1>1. pc[p] = "payload" /\ lock = p
  BY DEF WritePayload, Inductive, TypeOK
<1>2. /\ pc' \in [Procs -> States] /\ pc'[p] \in {"idle", "shut", "ended"}
      /\ \A q \in Procs : q # p => pc'[q] = pc[q]
  BY AfterFrame DEF WritePayload, Inductive, TypeOK, States
<1>3. \A q \in Procs : pc'[q] \notin {"header", "payload"}
  BY <1>1, <1>2 DEF Inductive, TypeOK
<1>4. last' = [by |-> p, part |-> "payload"] /\ queued' \in 0..Room
  BY WebSocketAssumption DEF WritePayload, Put, Inductive, TypeOK
<1>5. lock' = Nobody /\ UNCHANGED <<job, tcp, sent, read>>
  BY DEF WritePayload, readVars
<1>6. TypeOK'
  BY <1>2, <1>3, <1>4, <1>5, NobodyIsNone DEF Inductive, TypeOK, States
<1>7. StreamFollowsLock' /\ HalfIsUnderWay'
  BY <1>3, <1>4 DEF StreamFollowsLock, HalfIsUnderWay
<1> QED
  BY <1>6, <1>7 DEF Inductive

LEMMA Keeps_WriteFails ==
  ASSUME Inductive, NEW p \in Procs, WriteFails(p)
  PROVE  Inductive'
<1> USE NobodyIsNone DEF Inductive, TypeOK, WriteFails, ReleaseLock, readVars
<1>1. /\ pc' \in [Procs -> States] /\ pc'[p] \in {"idle", "shut", "ended"}
      /\ \A q \in Procs : q # p => pc'[q] = pc[q]
  BY AfterFrame DEF States
<1>2. TypeOK'
  BY <1>1 DEF States
<1>3. StreamFollowsLock' /\ HalfIsUnderWay'
  BY <1>1 DEF StreamFollowsLock, HalfIsUnderWay
<1> QED
  BY <1>2, <1>3

LEMMA Keeps_Write ==
  ASSUME Inductive, NEW p \in Procs, Write(p)
  PROVE  Inductive'
BY Keeps_WriteHeader, Keeps_WritePayload, Keeps_WriteFails DEF Write

LEMMA Keeps_CloseTCP ==
  ASSUME Inductive, NEW p \in Procs, CloseTCP(p)
  PROVE  Inductive'
<1>1. pc[p] = "shut" /\ pc' = [pc EXCEPT ![p] = "ended"] /\ tcp' = "closed"
  BY DEF CloseTCP
<1>2. UNCHANGED <<job, writeVars, sent, read>>
  BY DEF CloseTCP, readVars
<1> QED
  BY <1>1, <1>2, OffStream DEF Inductive, TypeOK

\* WriteMessage and Close only queue for writeMu.
LEMMA Keeps_Asking ==
  ASSUME Inductive, NEW p \in Procs, NEW kind \in {"text", "close"},
         pc[p] = "idle", WriteFrame(p, kind), UNCHANGED <<writeVars, tcp, sent, readVars>>
  PROVE  Inductive'
<1>1. pc' = [pc EXCEPT ![p] = "lock"] /\ job' = [job EXCEPT ![p] = kind]
  BY DEF WriteFrame
<1>2. job' \in [Procs -> {"none", "text", "pong", "close"}]
  BY <1>1 DEF Inductive, TypeOK
<1>3. UNCHANGED <<writeVars, tcp, sent, read>>
  BY DEF readVars
<1> QED
  BY <1>1, <1>2, <1>3, OffStream DEF Inductive, TypeOK

LEMMA Keeps_ReadFrame ==
  ASSUME Inductive, ReadFrame
  PROVE  Inductive'
<1> DEFINE frame == sent[read']
<1>1. pc[Reader] = "idle" /\ read' = read + 1 /\ read' \in 0..Len(sent)
  BY DEF ReadFrame, Reading, Inductive, TypeOK
<1>2. UNCHANGED <<writeVars, tcp, sent>>
  BY DEF ReadFrame
<1>3. CASE UNCHANGED <<pc, job>>
  <2>1. pc' = [pc EXCEPT ![Reader] = "idle"]
    BY <1>1, <1>3 DEF Inductive, TypeOK
  <2> QED
    BY <2>1, <1>1, <1>2, <1>3, OffStream, NobodyIsNone DEF Inductive, TypeOK
<1>4. CASE \E kind \in {"pong", "close"} : WriteFrame(Reader, kind)
  <2>1. PICK kind \in {"pong", "close"} : WriteFrame(Reader, kind)
    BY <1>4
  <2>2. pc' = [pc EXCEPT ![Reader] = "lock"] /\ job' = [job EXCEPT ![Reader] = kind]
    BY <2>1 DEF WriteFrame
  <2>3. job' \in [Procs -> {"none", "text", "pong", "close"}]
    BY <2>2 DEF Inductive, TypeOK
  <2> QED
    BY <2>2, <2>3, <1>1, <1>2, OffStream, NobodyIsNone DEF Inductive, TypeOK
<1>5. CASE pc' = [pc EXCEPT ![Reader] = "ended"] /\ job' = job
  BY <1>1, <1>2, <1>5, OffStream, NobodyIsNone DEF Inductive, TypeOK
<1>6. Data(frame) \/ Control(frame) \/ Refused(frame)
  BY DEF ReadFrame
<1>7. Data(frame) => UNCHANGED <<pc, job>>
  BY DEF Data
<1>8. Control(frame) =>
        UNCHANGED <<pc, job>> \/ \E kind \in {"pong", "close"} : WriteFrame(Reader, kind)
  BY DEF Control
<1>9. Refused(frame) => pc' = [pc EXCEPT ![Reader] = "ended"] /\ job' = job
  BY DEF Refused
<1> QED
  BY <1>3, <1>4, <1>5, <1>6, <1>7, <1>8, <1>9

LEMMA Keeps_ReadFails ==
  ASSUME Inductive, ReadFails
  PROVE  Inductive'
<1>1. pc[Reader] = "idle" /\ pc' = [pc EXCEPT ![Reader] = "ended"]
  BY DEF ReadFails, Reading
<1>2. UNCHANGED <<job, writeVars, tcp, sent, read>>
  BY DEF ReadFails, readVars
<1> QED
  BY <1>1, <1>2, OffStream, NobodyIsNone DEF Inductive, TypeOK

\* Chrome and the socket never write for us.
LEMMA Keeps_Outside ==
  ASSUME Inductive,
         (\E f \in DataFrames \cup OtherFrames : ChromeSends(f)) \/ ChromeReads \/ Breaks
  PROVE  Inductive'
<1>1. CASE \E f \in DataFrames \cup OtherFrames : ChromeSends(f)
  <2>1. PICK f \in DataFrames \cup OtherFrames : ChromeSends(f)
    BY <1>1
  <2>2. sent' \in Seq(DataFrames \cup OtherFrames) /\ Len(sent') = Len(sent) + 1
    BY <2>1 DEF ChromeSends, Inductive, TypeOK
  <2>3. read' \in 0..Len(sent')
    BY <2>1, <2>2 DEF ChromeSends, readVars, Inductive, TypeOK
  <2>4. UNCHANGED <<pc, job, lock, last, queued, tcp>>
    BY <2>1 DEF ChromeSends, writeVars
  <2> QED
    BY <2>2, <2>3, <2>4 DEF Inductive, TypeOK, StreamFollowsLock, HalfIsUnderWay
<1>2. CASE ChromeReads
  <2>1. queued' \in 0..Room
    BY <1>2, WebSocketAssumption DEF ChromeReads, Inductive, TypeOK
  <2>2. UNCHANGED <<pc, job, lock, last, tcp, sent, read>>
    BY <1>2 DEF ChromeReads, readVars
  <2> QED
    BY <2>1, <2>2 DEF Inductive, TypeOK, StreamFollowsLock, HalfIsUnderWay
<1>3. CASE Breaks
  BY <1>3 DEF Breaks, Inductive, TypeOK, StreamFollowsLock, HalfIsUnderWay, writeVars, readVars
<1> QED
  BY <1>1, <1>2, <1>3

-----------------------------------------------------------------------------
(* The invariant.                                                           *)

LEMMA Inductive_Init ==
  ASSUME Init
  PROVE  Inductive
<1>1. TypeOK
  BY NobodyIsNone, WebSocketAssumption DEF Init, TypeOK
<1>2. StreamFollowsLock /\ HalfIsUnderWay
  BY DEF Init, StreamFollowsLock, HalfIsUnderWay
<1> QED
  BY <1>1, <1>2 DEF Inductive

LEMMA Inductive_Next ==
  ASSUME Inductive, [Next]_vars
  PROVE  Inductive'
<1>1. ASSUME NEW w \in Writers, WriteMessage(w) PROVE Inductive'
  BY <1>1, Keeps_Asking DEF WriteMessage, Procs
<1>2. ASSUME NEW p \in Procs, Acquire(p) \/ Write(p) \/ CloseTCP(p) PROVE Inductive'
  BY <1>2, Keeps_Acquire, Keeps_Write, Keeps_CloseTCP
<1>3. CASE Close
  BY <1>3, Keeps_Asking, NobodyIsNone DEF Close
<1>4. CASE UNCHANGED vars
  BY <1>4 DEF vars, writeVars, readVars, Inductive, TypeOK, StreamFollowsLock, HalfIsUnderWay
<1>5. CASE Finished
  BY <1>4, <1>5 DEF Finished
<1> QED
  BY <1>1, <1>2, <1>3, <1>4, <1>5, Keeps_ReadFrame, Keeps_ReadFails, Keeps_Outside DEF Next

THEOREM InductiveHolds == Spec => []Inductive
BY Inductive_Init, Inductive_Next, PTL DEF Spec

\* Every variable keeps its type, and only the holder of writeMu is at a frame
\* (writeFrame).
THEOREM TypeCorrect == Spec => []TypeOK
BY InductiveHolds, PTL DEF Inductive

\* What the socket gets last only ever changes in a writeFrame that holds writeMu.
LEMMA OnlyFramesWrite ==
  ASSUME [Next]_vars, last' # last
  PROVE  \E p \in Procs : WriteHeader(p) \/ WritePayload(p)
BY DEF Next, vars, writeVars, readVars, WriteMessage, Acquire, Write, WriteFails, CloseTCP, Close,
   ReadFrame, ReadFails, ChromeSends, ChromeReads, Breaks, Finished

\* However many callers, pongs and closes write at once, the frames on the socket
\* are whole (writeFrame).
THEOREM WholeFrames == Spec => FramesAreWhole
<1>1. ASSUME Inductive, [Next]_vars, last' # last
      PROVE  IF last'.part = "header" THEN last.part = "payload"
             ELSE last = [by |-> last'.by, part |-> "header"]
  <2>1. PICK p \in Procs : WriteHeader(p) \/ WritePayload(p)
    BY <1>1, OnlyFramesWrite
  <2>2. CASE WriteHeader(p)
    BY <1>1, <2>2 DEF WriteHeader, Put, Inductive, StreamFollowsLock
  <2>3. CASE WritePayload(p)
    BY <1>1, <2>3 DEF WritePayload, Put, Inductive, StreamFollowsLock
  <2> QED
    BY <2>1, <2>2, <2>3
<1> QED
  BY <1>1, InductiveHolds, PTL DEF Spec, FramesAreWhole

-----------------------------------------------------------------------------
(* Induction, and the size of a sequence of frames.                         *)

\* A set with 0 and the successor of each of its members holds all numbers.
LEMMA AllNaturals ==
  ASSUME NEW S, 0 \in S, \A n \in Nat : n \in S => n + 1 \in S
  PROVE  Nat \subseteq S
<1> DEFINE R == {ss \in Nat \X Nat : ss[1] < ss[2]}
<1>1. IsWellFoundedOn(R, Nat)
  BY NatLessThanWellFounded DEF OpToRel
<1> SUFFICES ASSUME Nat \ S # {} PROVE FALSE
  OBVIOUS
<1>2. Nat \ S \subseteq Nat
  OBVIOUS
<1> HIDE DEF R
<1>3. PICK x \in Nat \ S : \A y \in Nat \ S : <<y, x>> \notin R
  BY <1>1, <1>2, WFMin
<1>4. x # 0 /\ x - 1 \in Nat /\ x - 1 < x /\ x = (x - 1) + 1
  OBVIOUS
<1>5. x - 1 \in S
  BY <1>3, <1>4 DEF R
<1> QED
  BY <1>4, <1>5

LEMMA AllUpTo ==
  ASSUME NEW k \in Nat, NEW S, 0 \in S, \A n \in 0..k - 1 : n \in S => n + 1 \in S
  PROVE  0..k \subseteq S
<1> DEFINE T == S \cup {n \in Nat : n > k}
<1>1. 0 \in T
  OBVIOUS
<1>2. ASSUME NEW n \in Nat, n \in T PROVE n + 1 \in T
  <2>1. n >= k => n + 1 > k /\ n + 1 \in Nat
    OBVIOUS
  <2>2. ~ n >= k => n \in 0..k - 1
    OBVIOUS
  <2> QED
    BY <1>2, <2>1, <2>2
<1> HIDE DEF T
<1>3. Nat \subseteq T
  BY <1>1, <1>2, AllNaturals
<1> QED
  BY <1>3 DEF T

\* What a fold adds up of the frames at a set of positions.
Sums(g, all, frames) ==
    g = [s \in SUBSET (DOMAIN frames) |->
            IF s = {} THEN 0 ELSE g[s \ {Max(s)}] + all[frames[Max(s)]].size]

Total(all, frames) == FoldLeft(LAMBDA n, f : n + all[f].size, 0, frames)

LEMMA TotalIsSum ==
  ASSUME NEW all, NEW frames
  PROVE  Total(all, frames) = (CHOOSE g : Sums(g, all, frames))[DOMAIN frames]
BY DEF Total, FoldLeft, MapThenFoldSet, Sums

LEMMA MaxOf ==
  ASSUME NEW n \in Nat, NEW s \in SUBSET (1..n), n \in s
  PROVE  Max(s) = n
<1>1. \E x \in s : \A y \in s : x >= y
  OBVIOUS
<1>2. Max(s) \in s /\ \A y \in s : Max(s) >= y
  BY <1>1, Zenon DEF Max
<1>3. Max(s) \in 1..n /\ Max(s) >= n
  BY <1>2
<1> QED
  BY <1>3

\* A set of positions has a last one.
LEMMA MaxAmong ==
  ASSUME NEW n \in Nat, NEW s \in SUBSET (1..n), s # {}
  PROVE  Max(s) \in s
<1>1. \E x \in s : \A y \in s : x >= y
  <2> SUFFICES ASSUME \A x \in s : \E y \in s : y > x PROVE FALSE
    OBVIOUS
  <2> DEFINE T == {i \in Nat : \E y \in s : y > i}
  <2>1. 0 \in T
    <3>1. PICK y \in s : y \in 1..n
      OBVIOUS
    <3> QED
      BY <3>1
  <2>2. ASSUME NEW i \in Nat, i \in T PROVE i + 1 \in T
    <3>1. PICK x \in s : x > i
      BY <2>2
    <3>2. PICK y \in s : y > x
      OBVIOUS
    <3>3. x \in 1..n /\ y \in 1..n
      OBVIOUS
    <3>4. y > i + 1
      BY <3>1, <3>2, <3>3
    <3> QED
      BY <3>4
  <2> HIDE DEF T
  <2>3. n \in T
    BY <2>1, <2>2, AllNaturals
  <2>4. PICK y \in s : y > n
    BY <2>3 DEF T
  <2>5. y \in 1..n
    OBVIOUS
  <2> QED
    BY <2>4, <2>5
<1> QED
  BY <1>1, Zenon DEF Max

\* The sums exist: those of the first positions extend to one more.
LEMMA SumsExist ==
  ASSUME NEW all, NEW k \in Nat, NEW frames, DOMAIN frames = 1..k
  PROVE  \E g : Sums(g, all, frames)
<1> DEFINE w(i) == all[frames[i]].size
           Upto(g, n) == g = [s \in SUBSET (1..n) |-> IF s = {} THEN 0 ELSE g[s \ {Max(s)}] + w(Max(s))]
           T == {n \in Nat : \E g : Upto(g, n)}
<1> HIDE DEF w
<1>1. 0 \in T
  <2>1. \A s \in SUBSET (1..0) : s = {}
    OBVIOUS
  <2>2. Upto([s \in SUBSET (1..0) |-> 0], 0)
    BY <2>1
  <2> QED
    BY <2>2
<1>2. ASSUME NEW n \in Nat, n \in T PROVE n + 1 \in T
  <2>1. PICK g : Upto(g, n)
    BY <1>2
  <2> DEFINE h == [s \in SUBSET (1..n + 1) |-> IF n + 1 \in s THEN g[s \ {n + 1}] + w(n + 1) ELSE g[s]]
  <2>2. ASSUME NEW s \in SUBSET (1..n + 1)
        PROVE  h[s] = IF s = {} THEN 0 ELSE h[s \ {Max(s)}] + w(Max(s))
    <3>1. CASE n + 1 \in s
      <4>1. Max(s) = n + 1
        BY <3>1, MaxOf
      <4>2. s \ {n + 1} \in SUBSET (1..n + 1) /\ n + 1 \notin s \ {n + 1}
        OBVIOUS
      <4>3. h[s \ {n + 1}] = g[s \ {n + 1}]
        BY <4>2
      <4>4. h[s] = g[s \ {n + 1}] + w(n + 1)
        BY <3>1
      <4> HIDE DEF h
      <4> QED
        BY <3>1, <4>1, <4>3, <4>4
    <3>2. CASE n + 1 \notin s
      <4>1. s \in SUBSET (1..n)
        BY <3>2
      <4>2. h[s] = g[s]
        BY <3>2
      <4>3. s # {} => Max(s) \in s
        BY <4>1, MaxAmong
      <4>4. h[s \ {Max(s)}] = g[s \ {Max(s)}]
        BY <3>2
      <4>5. g[s] = IF s = {} THEN 0 ELSE g[s \ {Max(s)}] + w(Max(s))
        BY <2>1, <4>1
      <4> HIDE DEF h
      <4> QED
        BY <4>2, <4>4, <4>5
    <3> QED
      BY <3>1, <3>2
  <2>3. h = [s \in SUBSET (1..n + 1) |-> h[s]]
    OBVIOUS
  <2>4. Upto(h, n + 1)
    <3> HIDE DEF h
    <3> QED
      BY <2>2, <2>3
  <2> HIDE DEF Upto, h
  <2> QED
    BY <2>4
<1>3. k \in T
  <2> HIDE DEF T
  <2> QED
    BY <1>1, <1>2, AllNaturals
<1> QED
  BY <1>3 DEF Sums, w

\* Sums of the first positions, one after the other.
Running(g, all, frames, k) ==
    /\ g[1..0] = 0
    /\ \A i \in 0..k - 1 : g[1..i + 1] = g[1..i] + all[frames[i + 1]].size

LEMMA SumSteps ==
  ASSUME NEW all, NEW k \in Nat, NEW frames, DOMAIN frames = 1..k, NEW g, Sums(g, all, frames)
  PROVE  Running(g, all, frames, k)
<1>1. 1..0 = {} /\ {} \in SUBSET (1..k)
  OBVIOUS
<1>2. g[1..0] = 0
  BY <1>1 DEF Sums
<1>3. ASSUME NEW i \in 0..k - 1
      PROVE  g[1..i + 1] = g[1..i] + all[frames[i + 1]].size
  <2> DEFINE s == 1..i + 1
  <2>1. s \in SUBSET (1..k) /\ s # {} /\ i + 1 \in Nat /\ i + 1 \in s /\ s \in SUBSET (1..i + 1)
    <3>1. i \in Nat /\ i + 1 <= k /\ i + 1 \in 1..i + 1
      OBVIOUS
    <3>2. 1..i + 1 \subseteq 1..k
      BY <3>1
    <3> QED
      BY <3>1, <3>2
  <2>2. s \ {i + 1} = 1..i
    OBVIOUS
  <2> HIDE DEF s
  <2>3. Max(s) = i + 1
    BY <2>1, MaxOf
  <2>4. g[s] = g[s \ {Max(s)}] + all[frames[Max(s)]].size
    BY <2>1 DEF Sums
  <2> QED
    BY <2>2, <2>3, <2>4 DEF s
<1> QED
  BY <1>2, <1>3 DEF Running

LEMMA TotalRuns ==
  ASSUME NEW all, NEW k \in Nat, NEW frames, DOMAIN frames = 1..k
  PROVE  \E g : Running(g, all, frames, k) /\ Total(all, frames) = g[1..k]
<1> DEFINE g == CHOOSE g : Sums(g, all, frames)
<1>1. Sums(g, all, frames)
  BY SumsExist, Zenon
<1>2. Total(all, frames) = g[1..k]
  BY TotalIsSum, Zenon
<1> HIDE DEF g
<1>3. Running(g, all, frames, k)
  BY <1>1, SumSteps
<1> QED
  BY <1>2, <1>3

\* Two sequences of frames agree in their sizes as far as the first goes.
SameSizes(all, frames, one, longer, k) == \A i \in 1..k : all[frames[i]].size = one[longer[i]].size

LEMMA SumsAgree ==
  ASSUME NEW all, NEW one, NEW frames, NEW longer, NEW k \in Nat, NEW n \in Nat, k <= n,
         SameSizes(all, frames, one, longer, k), NEW g, NEW h,
         Running(g, all, frames, k), Running(h, one, longer, n)
  PROVE  g[1..k] = h[1..k]
<1> DEFINE T == {i \in Nat : g[1..i] = h[1..i]}
<1>1. 0 \in T
  BY DEF Running
<1>2. ASSUME NEW i \in 0..k - 1, i \in T PROVE i + 1 \in T
  <2>1. i \in 0..n - 1 /\ i + 1 \in 1..k /\ i + 1 \in Nat
    OBVIOUS
  <2>2. all[frames[i + 1]].size = one[longer[i + 1]].size
    BY <2>1 DEF SameSizes
  <2>3. g[1..i] = h[1..i]
    BY <1>2
  <2>4. g[1..i + 1] = h[1..i + 1]
    BY <2>1, <2>2, <2>3 DEF Running
  <2> QED
    BY <2>1, <2>4
<1> HIDE DEF T
<1>3. 0..k \subseteq T
  BY <1>1, <1>2, AllUpTo
<1>4. k \in 0..k
  OBVIOUS
<1> QED
  BY <1>3, <1>4 DEF T

LEMMA TotalsAgree ==
  ASSUME NEW all, NEW one, NEW k \in Nat, NEW frames, DOMAIN frames = 1..k,
         \A i \in 1..k : all[frames[i]].size = one[frames[i]].size
  PROVE  Total(all, frames) = Total(one, frames)
<1>1. PICK g : Running(g, all, frames, k) /\ Total(all, frames) = g[1..k]
  BY TotalRuns
<1>2. PICK h : Running(h, one, frames, k) /\ Total(one, frames) = h[1..k]
  BY TotalRuns
<1>3. k <= k /\ SameSizes(all, frames, one, frames, k)
  BY DEF SameSizes
<1>4. g[1..k] = h[1..k]
  BY <1>1, <1>2, <1>3, SumsAgree, SMTT(40)
<1> QED
  BY <1>1, <1>2, <1>4

\* One more frame adds its size.
LEMMA TotalOfAppend ==
  ASSUME NEW all, NEW frames \in Seq(Nat), NEW x \in Nat
  PROVE  /\ Total(all, <<>>) = 0
         /\ Total(all, Append(frames, x)) = Total(all, frames) + all[x].size
<1> DEFINE k == Len(frames)
           longer == Append(frames, x)
<1>1. /\ k \in Nat /\ k + 1 \in Nat /\ k \in 0..(k + 1) - 1 /\ k <= k + 1 /\ 0 \in Nat
      /\ DOMAIN frames = 1..k /\ DOMAIN longer = 1..k + 1 /\ DOMAIN <<>> = 1..0
      /\ longer[k + 1] = x /\ \A i \in 1..k : longer[i] = frames[i]
  OBVIOUS
<1> HIDE DEF k, longer
<1>2. PICK g : Running(g, all, frames, k) /\ Total(all, frames) = g[1..k]
  BY <1>1, TotalRuns
<1>3. PICK h : Running(h, all, longer, k + 1) /\ Total(all, longer) = h[1..k + 1]
  BY <1>1, TotalRuns
<1>4. PICK e : Running(e, all, <<>>, 0) /\ Total(all, <<>>) = e[1..0]
  BY <1>1, TotalRuns
<1>5. SameSizes(all, frames, all, longer, k)
  BY <1>1 DEF SameSizes
<1>6. g[1..k] = h[1..k]
  BY <1>1, <1>2, <1>3, <1>5, SumsAgree
<1>7. h[1..k + 1] = h[1..k] + all[longer[k + 1]].size
  BY <1>1, <1>3 DEF Running
<1>8. e[1..0] = 0
  BY <1>4 DEF Running
<1> QED
  BY <1>1, <1>2, <1>3, <1>4, <1>6, <1>7, <1>8 DEF longer

-----------------------------------------------------------------------------
(* The messages.                                                            *)

\* The frames of a message so far: one text frame and its continuations, none
\* but the last of them final, and no more than a message may hold.
Chain(m) ==
    /\ m \in Seq(1..read) /\ m # <<>>
    /\ sent[m[1]].op = "text"
    /\ \A i \in 1..Len(m) - 1 : ~sent[m[i]].fin /\ sent[m[i + 1]].op = "cont"
    /\ Size(m) <= MaxMessage

\* No data frame since the message began is left out, up to a frame.
Covers(m, to) == \A f \in m[1]..to : sent[f].op \in {"text", "cont"} => f \in ToSet(m)

Messages ==
    /\ \A m \in delivered : Chain(m) /\ sent[Last(m)].fin /\ Covers(m, Last(m))
    /\ buf \in Seq(1..read)
    /\ buf # <<>> => Chain(buf) /\ ~sent[Last(buf)].fin /\ (pc[Reader] # "ended" => Covers(buf, read))

LEMMA SizeIsTotal ==
  ASSUME NEW m
  PROVE  Size(m) = Total(sent, m) /\ Size(m)' = Total(sent', m)
BY DEF Size, Total, FoldLeft, MapThenFoldSet

LEMMA SeqElement ==
  ASSUME NEW S, NEW s \in Seq(S)
  PROVE  /\ Len(s) \in Nat /\ DOMAIN s = 1..Len(s) /\ \A i \in 1..Len(s) : s[i] \in S
         /\ s # <<>> => 1 \in 1..Len(s) /\ Len(s) \in 1..Len(s)
OBVIOUS

\* Frames that were read stay what they were.
LEMMA ChainStays ==
  ASSUME TypeOK, NEW m, Chain(m), read' \in Nat, read <= read',
         \A f \in 1..read : sent'[f] = sent[f]
  PROVE  /\ Chain(m)' /\ m[1] \in 1..read /\ Last(m) \in 1..read /\ Last(m) = m[Len(m)]
         /\ sent'[Last(m)] = sent[Last(m)]
         /\ Covers(m, Last(m)) => Covers(m, Last(m))'
<1>1. m \in Seq(1..read) /\ m # <<>>
  BY DEF Chain
<1>2. /\ Len(m) \in Nat /\ DOMAIN m = 1..Len(m) /\ \A i \in 1..Len(m) : m[i] \in 1..read
      /\ 1 \in 1..Len(m) /\ Len(m) \in 1..Len(m)
  BY <1>1, SeqElement
<1>3. read \in Nat /\ 1..read \subseteq 1..read'
  BY DEF TypeOK
<1>4. m \in Seq(1..read')
  BY <1>1, <1>3
<1>5. \A i \in 1..Len(m) : sent'[m[i]] = sent[m[i]]
  BY <1>2
<1>6. Size(m)' = Size(m)
  <2>1. \A i \in 1..Len(m) : sent'[m[i]].size = sent[m[i]].size
    BY <1>5
  <2>2. Total(sent', m) = Total(sent, m)
    BY <1>2, <2>1, TotalsAgree
  <2> QED
    BY <2>2, SizeIsTotal
<1>7. \A i \in 1..Len(m) - 1 : i \in 1..Len(m) /\ i + 1 \in 1..Len(m)
  BY <1>2
<1>8. Chain(m)'
  BY <1>1, <1>2, <1>4, <1>5, <1>6, <1>7 DEF Chain
<1>9. Last(m) = m[Len(m)]
  BY DEF Last
<1>10. m[1] \in 1..read /\ Last(m) \in 1..read
  BY <1>2, <1>9
<1>11. ASSUME Covers(m, Last(m)) PROVE Covers(m, Last(m))'
  <2>1. \A f \in m[1]..Last(m) : sent'[f] = sent[f]
    BY <1>3, <1>10
  <2> QED
    BY <1>11, <2>1 DEF Covers
<1> QED
  BY <1>8, <1>9, <1>10, <1>11

\* Steps that neither read nor return a message.
LEMMA MessagesStay ==
  ASSUME TypeOK, Messages, UNCHANGED readVars, \A f \in 1..read : sent'[f] = sent[f],
         pc'[Reader] # "ended" => pc[Reader] # "ended"
  PROVE  Messages'
<1>1. read' = read /\ buf' = buf /\ delivered' = delivered /\ read \in Nat /\ read <= read' /\ read' \in Nat
  BY DEF readVars, TypeOK
<1>2. ASSUME NEW m \in delivered PROVE Chain(m)' /\ sent'[Last(m)].fin /\ Covers(m, Last(m))'
  <2>1. Chain(m) /\ sent[Last(m)].fin /\ Covers(m, Last(m))
    BY DEF Messages
  <2> QED
    BY <1>1, <2>1, ChainStays
<1>3. ASSUME buf # <<>>
      PROVE  Chain(buf)' /\ ~sent'[Last(buf)].fin /\ (pc'[Reader] # "ended" => Covers(buf, read)')
  <2>1. Chain(buf) /\ ~sent[Last(buf)].fin /\ (pc[Reader] # "ended" => Covers(buf, read))
    BY <1>3 DEF Messages
  <2>2. PICK m : m = buf
    OBVIOUS
  <2>3. Chain(m)' /\ m[1] \in 1..read /\ sent'[Last(m)] = sent[Last(m)]
    BY <1>1, <2>1, <2>2, ChainStays
  <2>4. Chain(buf)'
    BY <1>1, <2>2, <2>3
  <2>5. \A f \in buf[1]..read : sent'[f] = sent[f]
    BY <1>1, <2>2, <2>3
  <2> QED
    BY <1>1, <2>1, <2>2, <2>3, <2>4, <2>5 DEF Covers
<1> QED
  BY <1>1, <1>2, <1>3 DEF Messages

\* The data frame read next goes on with the message begun or begins one.
LEMMA MessageGrows ==
  ASSUME TypeOK, Messages, Reading, read < Len(sent), sent' = sent, read' = read + 1,
         NEW frame, frame = sent[read + 1], MayStart(frame) \/ MayContinue(frame),
         NEW frames, frames = Append(buf, read + 1)
  PROVE  Chain(frames)' /\ frames # <<>> /\ Last(frames) = read + 1 /\ Covers(frames, read + 1)
<1>1. /\ read \in Nat /\ read + 1 \in 1..Len(sent) /\ buf \in Seq(1..read) /\ MaxMessage \in Nat
      /\ sent \in Seq(DataFrames \cup OtherFrames) /\ pc[Reader] = "idle"
  BY WebSocketAssumption DEF TypeOK, Messages, Reading
<1>2. frame \in DataFrames \cup OtherFrames
  BY <1>1, SeqElement
<1> DEFINE n == Len(buf)
<1>3. /\ n \in Nat /\ DOMAIN buf = 1..n /\ \A i \in 1..n : buf[i] \in 1..read
      /\ buf # <<>> => 1 \in 1..n /\ n \in 1..n
  BY <1>1, SeqElement
<1>4. /\ frames \in Seq(1..read + 1) /\ frames # <<>> /\ Len(frames) = n + 1 /\ DOMAIN frames = 1..n + 1
      /\ frames[n + 1] = read + 1 /\ \A i \in 1..n : frames[i] = buf[i]
  BY <1>1
<1>5. Last(frames) = read + 1
  BY <1>4 DEF Last
<1>6. buf = <<>> => n = 0
  OBVIOUS
<1>7. buf \in Seq(Nat) /\ read + 1 \in Nat
  BY <1>1
<1> HIDE DEF n
<1>8. Size(frames) = Size(buf) + frame.size
  BY <1>7, SizeIsTotal, TotalOfAppend
<1>9. Size(frames) <= MaxMessage
  <2>1. CASE MayStart(frame)
    <3>1. frame.size \in 1..MaxMessage
      <4>1. frame.op = "text"
        BY <2>1 DEF MayStart
      <4>2. frame \notin OtherFrames
        BY <4>1 DEF OtherFrames, Frame
      <4>3. PICK op \in {"text", "cont"}, fin \in BOOLEAN, size \in 1..MaxMessage : frame = Frame(op, fin, size)
        BY <1>2, <4>2 DEF DataFrames
      <4> QED
        BY <4>3 DEF Frame
    <3>2. Size(buf) = 0
      BY <1>7, <2>1, SizeIsTotal, TotalOfAppend DEF MayStart
    <3> QED
      BY <1>1, <1>8, <3>1, <3>2
  <2>2. CASE MayContinue(frame)
    BY <1>8, <2>2 DEF MayContinue, Fits
  <2> QED
    BY <2>1, <2>2
<1>10. Size(frames)' = Size(frames)
  BY SizeIsTotal
<1>11. sent[frames[1]].op = "text" /\ \A i \in 1..n : ~sent[frames[i]].fin /\ sent[frames[i + 1]].op = "cont"
  <2>1. CASE MayStart(frame)
    BY <1>3, <1>4, <1>6, <2>1 DEF MayStart
  <2>2. CASE MayContinue(frame)
    <3>1. Chain(buf) /\ ~sent[Last(buf)].fin /\ buf # <<>>
      BY <2>2 DEF MayContinue, Messages
    <3>2. sent[buf[1]].op = "text" /\ \A i \in 1..n - 1 : ~sent[buf[i]].fin /\ sent[buf[i + 1]].op = "cont"
      BY <3>1 DEF Chain, n
    <3>3. ~sent[buf[n]].fin /\ frame.op = "cont"
      BY <2>2, <3>1 DEF Last, n, MayContinue
    <3>4. ASSUME NEW i \in 1..n PROVE ~sent[frames[i]].fin /\ sent[frames[i + 1]].op = "cont"
      <4>1. CASE i = n
        BY <1>3, <1>4, <3>1, <3>3, <4>1
      <4>2. CASE i # n
        <5>1. i \in 1..n - 1 /\ i + 1 \in 1..n
          BY <1>3, <4>2
        <5> QED
          BY <1>4, <3>2, <5>1
      <4> QED
        BY <4>1, <4>2
    <3> QED
      BY <1>3, <1>4, <3>1, <3>2, <3>4
  <2> QED
    BY <2>1, <2>2
<1>12. Chain(frames)'
  <2>1. Len(frames) - 1 = n
    BY <1>3, <1>4
  <2> QED
    BY <1>4, <1>9, <1>10, <1>11, <2>1 DEF Chain
<1>13. Covers(frames, read + 1)
  <2>1. read + 1 \in ToSet(frames) /\ \A i \in 1..n : buf[i] \in ToSet(frames)
    BY <1>3, <1>4 DEF ToSet
  <2>2. ASSUME NEW f \in frames[1]..read + 1, f # read + 1, sent[f].op \in {"text", "cont"}
        PROVE  f \in ToSet(frames)
    <3>1. buf # <<>>
      <4>1. buf = <<>> => frames[1] = read + 1
        BY <1>4, <1>6
      <4> QED
        BY <1>1, <2>2, <4>1
    <3>2. frames[1] = buf[1] /\ f \in buf[1]..read
      BY <1>1, <1>3, <1>4, <2>2, <3>1
    <3>3. f \in ToSet(buf)
      BY <1>1, <2>2, <3>1, <3>2 DEF Messages, Covers
    <3>4. PICK i \in 1..n : buf[i] = f
      BY <1>3, <3>3 DEF ToSet
    <3> QED
      BY <2>1, <3>4
  <2> QED
    BY <2>1, <2>2 DEF Covers
<1> QED
  BY <1>4, <1>5, <1>12, <1>13

\* A frame read leaves messages whole: as data, as a control frame in between,
\* or as the one that ends the reading.
LEMMA MessagesRead ==
  ASSUME TypeOK, Messages, ReadFrame
  PROVE  Messages'
<1> DEFINE frame == sent[read + 1]
<1>1. /\ Reading /\ read < Len(sent) /\ read' = read + 1 /\ sent' = sent
      /\ Data(frame) \/ Control(frame) \/ Refused(frame)
  BY DEF ReadFrame
<1>2. read \in Nat /\ read' \in Nat /\ read <= read' /\ pc[Reader] = "idle"
  BY <1>1 DEF TypeOK, Reading
<1>3. ASSUME NEW m \in delivered PROVE Chain(m)' /\ sent'[Last(m)].fin /\ Covers(m, Last(m))'
  BY <1>1, <1>2, ChainStays DEF Messages
<1>4. buf \in Seq(1..read')
  BY <1>1, <1>2 DEF Messages
<1>5. CASE Data(frame)
  <2> PICK frames : frames = Append(buf, read + 1)
    OBVIOUS
  <2>1. Chain(frames)' /\ frames # <<>> /\ Last(frames) = read + 1 /\ Covers(frames, read + 1)
    BY <1>1, <1>5, MessageGrows DEF Data
  <2>2. frames \in Seq(1..read')
    BY <2>1 DEF Chain
  <2>3. IF frame.fin THEN buf' = <<>> /\ delivered' = delivered \cup {frames}
        ELSE buf' = frames /\ delivered' = delivered
    BY <1>1, <1>5 DEF Data
  <2>4. Covers(frames, Last(frames))' /\ Covers(frames, read)'
    BY <1>1, <2>1 DEF Covers
  <2>5. CASE frame.fin
    <3>1. buf' = <<>> /\ buf' \in Seq(1..read') /\ delivered' = delivered \cup {frames}
      BY <2>3, <2>5
    <3>2. sent'[Last(frames)].fin
      BY <1>1, <2>1, <2>5
    <3>3. \A m \in delivered' : Chain(m)' /\ sent'[Last(m)].fin /\ Covers(m, Last(m))'
      BY <1>3, <2>1, <2>4, <3>1, <3>2
    <3> QED
      BY <3>1, <3>3 DEF Messages
  <2>6. CASE ~frame.fin
    BY <1>1, <1>3, <2>1, <2>2, <2>3, <2>4, <2>6 DEF Messages, Chain, Covers
  <2> QED
    BY <2>5, <2>6
<1>6. CASE Control(frame) \/ Refused(frame)
  <2>1. buf' = buf /\ delivered' = delivered
    BY <1>6 DEF Control, Refused
  <2>2. pc'[Reader] # "ended" => frame.op \notin {"text", "cont"}
    <3>1. CASE Control(frame)
      BY <3>1 DEF Control
    <3>2. CASE Refused(frame)
      BY <3>2, NobodyIsNone DEF Refused, TypeOK
    <3> QED
      BY <1>6, <3>1, <3>2
  <2>3. ASSUME buf # <<>>
        PROVE  Chain(buf)' /\ ~sent'[Last(buf)].fin /\ (pc'[Reader] # "ended" => Covers(buf, read)')
    <3>1. Chain(buf) /\ ~sent[Last(buf)].fin /\ Covers(buf, read)
      BY <1>2, <2>3 DEF Messages
    <3>2. PICK m : m = buf
      OBVIOUS
    <3>3. Chain(m)'
      BY <1>1, <1>2, <3>1, <3>2, ChainStays
    <3>4. \A f \in buf[1]..read' : f = read + 1 \/ f \in buf[1]..read
      BY <1>1, <1>2
    <3> QED
      BY <1>1, <2>1, <2>2, <3>1, <3>2, <3>3, <3>4 DEF Covers
  <2> QED
    BY <1>3, <1>4, <2>1, <2>3 DEF Messages
<1> QED
  BY <1>1, <1>5, <1>6

\* No step but a read lets a message grow or a reader come back.
LEMMA MessagesNext ==
  ASSUME TypeOK, Messages, [Next]_vars
  PROVE  Messages'
<1>1. CASE ReadFrame
  BY <1>1, MessagesRead
<1>2. CASE \E frame \in DataFrames \cup OtherFrames : ChromeSends(frame)
  <2>1. PICK frame \in DataFrames \cup OtherFrames : ChromeSends(frame)
    BY <1>2
  <2>2. \A f \in 1..read : sent'[f] = sent[f]
    BY <2>1 DEF ChromeSends, TypeOK
  <2> QED
    BY <2>1, <2>2, MessagesStay DEF ChromeSends
<1>3. ASSUME UNCHANGED <<sent, readVars>>, pc'[Reader] # "ended" => pc[Reader] # "ended"
      PROVE  Messages'
  <2>1. \A f \in 1..read : sent'[f] = sent[f]
    BY <1>3
  <2> QED
    BY <1>3, <2>1, MessagesStay
<1>4. ASSUME NEW p \in Procs, Acquire(p) \/ Write(p) \/ CloseTCP(p) PROVE Messages'
  BY <1>3, <1>4, NobodyIsNone DEF TypeOK, Acquire, Write, WriteHeader, WritePayload, WriteFails, CloseTCP, Put
<1>5. ASSUME NEW w \in Writers, WriteMessage(w) PROVE Messages'
  BY <1>3, <1>5, NobodyIsNone DEF TypeOK, WriteMessage, WriteFrame, Procs
<1>6. CASE Close \/ ReadFails
  BY <1>3, <1>6, NobodyIsNone DEF TypeOK, Close, ReadFails, WriteFrame
<1>7. CASE ChromeReads \/ Breaks \/ Finished \/ UNCHANGED vars
  BY <1>3, <1>7 DEF ChromeReads, Breaks, Finished, vars
<1> QED
  BY <1>1, <1>2, <1>4, <1>5, <1>6, <1>7 DEF Next

\* A message returned is one Chrome sent, whole and within the limit, however it
\* was cut into frames and whatever came between them (ReadMessage).
THEOREM WholeMessages == Spec => []MessagesAreWhole
<1>1. Init => Messages
  BY DEF Init, Messages
<1>2. Messages /\ TypeOK /\ [Next]_vars => Messages'
  BY MessagesNext
<1>3. Messages => MessagesAreWhole
  BY DEF Messages, Chain, Covers, MessagesAreWhole
<1> QED
  BY <1>1, <1>2, <1>3, TypeCorrect, PTL DEF Spec
====
