-------------------------- MODULE CdpClient_proofs --------------------------
(***************************************************************************)
(* Proofs about CdpClient, for any set of calls, any replies and any bound *)
(* on the wire: types are kept, a call only ever gets its own answer, no   *)
(* waiting call is forgotten, the pending table is emptied of what         *)
(* returned, and the read loop never blocks on a channel.                  *)
(***************************************************************************)
EXTENDS CdpClient, TLAPS

\* Before a call draws an id nothing belongs to it.
Started ==
    \A c \in Calls :
        /\ callID[c] <= nextID
        /\ pc[c] \in {"write", "select", "drop"} => callID[c] # 0
        /\ pc[c] = "drop" => outcome[c] # None
        /\ pc[c] = "idle" => callID[c] = 0 /\ outcome[c] = None /\ ch[c] = NoMsg

\* Ids are drawn under the lock: no two calls share one.
IdsUnique == \A c, d \in Calls : callID[c] = callID[d] /\ callID[c] # 0 => c = d

\* An entry belongs to a call that has not returned and got nothing yet.
PendingOwned ==
    \A p \in pending :
        /\ p[1] = callID[p[2]] /\ p[1] # 0
        /\ pc[p[2]] \in {"write", "select", "drop"}
        /\ ch[p[2]] = NoMsg
        /\ loop = "deliver" => target # p[2]

\* Replies on the wire are replies Chrome gave.
WireReplied ==
    \A i \in 1..Len(wire) : wire[i].id # 0 => <<wire[i].id, wire[i].kind>> \in replied

\* closed and done follow the read loop, and only it closes channels.
LoopPhase ==
    /\ closed <=> loop \in {"drained", "exited"}
    /\ done <=> loop = "exited"
    /\ chClosed # {} => closed
    /\ loop = "deliver" => pc[target] # "idle" /\ held.id # 0

Inductive ==
    /\ TypeOK
    /\ Started
    /\ IdsUnique
    /\ PendingOwned
    /\ WireReplied
    /\ LoopPhase
    /\ OwnReply
    /\ NoOrphan
    /\ SendNeverBlocks
    /\ ClosedIsDrained

-----------------------------------------------------------------------------
(* One lemma per action of the specification.                               *)

LEMMA Keeps_Refused ==
  ASSUME Inductive, NEW c \in Calls, Refused(c)
  PROVE  Inductive'
BY SMTT(60), CallsAssumption, ResultsAssumption
  DEF Refused, Accepts, Return, Inductive, TypeOK, Started, IdsUnique, PendingOwned, WireReplied,
      LoopPhase, OwnReply, NoOrphan, SendNeverBlocks, ClosedIsDrained, Messages,
      Outcomes, None, NoMsg, clientVars, chromeVars

LEMMA Keeps_Register ==
  ASSUME Inductive, NEW c \in Calls, Register(c)
  PROVE  Inductive'
BY SMTT(60), CallsAssumption, ResultsAssumption
  DEF Register, Accepts, FreshID, Without, Inductive, TypeOK, Started, IdsUnique, PendingOwned, WireReplied,
      LoopPhase, OwnReply, NoOrphan, SendNeverBlocks, ClosedIsDrained, Messages,
      Outcomes, None, NoMsg, clientVars, chromeVars

LEMMA Keeps_WriteFails ==
  ASSUME Inductive, NEW c \in Calls, WriteFails(c)
  PROVE  Inductive'
BY SMTT(60), CallsAssumption, ResultsAssumption
  DEF WriteFails, GiveUp, Inductive, TypeOK, Started, IdsUnique, PendingOwned, WireReplied,
      LoopPhase, OwnReply, NoOrphan, SendNeverBlocks, ClosedIsDrained, Messages,
      Outcomes, None, NoMsg, clientVars, chromeVars

LEMMA Keeps_CtxDone ==
  ASSUME Inductive, NEW c \in Calls, CtxDone(c)
  PROVE  Inductive'
BY SMTT(60), CallsAssumption, ResultsAssumption
  DEF CtxDone, CtxReady, GiveUp, Inductive, TypeOK, Started, IdsUnique, PendingOwned, WireReplied,
      LoopPhase, OwnReply, NoOrphan, SendNeverBlocks, ClosedIsDrained, Messages,
      Outcomes, None, NoMsg, clientVars, chromeVars

LEMMA Keeps_SelectDone ==
  ASSUME Inductive, NEW c \in Calls, SelectDone(c)
  PROVE  Inductive'
BY SMTT(60), CallsAssumption, ResultsAssumption
  DEF SelectDone, Return, Inductive, TypeOK, Started, IdsUnique, PendingOwned, WireReplied,
      LoopPhase, OwnReply, NoOrphan, SendNeverBlocks, ClosedIsDrained, Messages,
      Outcomes, None, NoMsg, clientVars, chromeVars

LEMMA Keeps_DropPending ==
  ASSUME Inductive, NEW c \in Calls, DropPending(c)
  PROVE  Inductive'
BY SMTT(60), CallsAssumption, ResultsAssumption
  DEF DropPending, DropEntry, Without, Inductive, TypeOK, Started, IdsUnique, PendingOwned, WireReplied,
      LoopPhase, OwnReply, NoOrphan, SendNeverBlocks, ClosedIsDrained, Messages,
      Outcomes, None, NoMsg, clientVars, chromeVars

LEMMA Keeps_CloseDone ==
  ASSUME Inductive, CloseDone
  PROVE  Inductive'
BY SMTT(60), CallsAssumption, ResultsAssumption
  DEF CloseDone, Signal, Inductive, TypeOK, Started, IdsUnique, PendingOwned, WireReplied,
      LoopPhase, OwnReply, NoOrphan, SendNeverBlocks, ClosedIsDrained, Messages,
      Outcomes, None, NoMsg, clientVars, chromeVars

LEMMA Keeps_ReadEvent ==
  ASSUME Inductive, ReadEvent
  PROVE  Inductive'
BY SMTT(60), CallsAssumption, ResultsAssumption
  DEF ReadEvent, Inductive, TypeOK, Started, IdsUnique, PendingOwned, WireReplied,
      LoopPhase, OwnReply, NoOrphan, SendNeverBlocks, ClosedIsDrained, Messages,
      Outcomes, None, NoMsg, clientVars, chromeVars

LEMMA Keeps_CloseConn ==
  ASSUME Inductive, CloseConn
  PROVE  Inductive'
BY SMTT(60), CallsAssumption, ResultsAssumption
  DEF CloseConn, Inductive, TypeOK, Started, IdsUnique, PendingOwned, WireReplied,
      LoopPhase, OwnReply, NoOrphan, SendNeverBlocks, ClosedIsDrained, Messages,
      Outcomes, None, NoMsg, clientVars, chromeVars

LEMMA Keeps_CloseReturns ==
  ASSUME Inductive, CloseReturns
  PROVE  Inductive'
BY SMTT(60), CallsAssumption, ResultsAssumption
  DEF CloseReturns, Inductive, TypeOK, Started, IdsUnique, PendingOwned, WireReplied,
      LoopPhase, OwnReply, NoOrphan, SendNeverBlocks, ClosedIsDrained, Messages,
      Outcomes, None, NoMsg, clientVars, chromeVars

LEMMA Keeps_ChromeEmits ==
  ASSUME Inductive, ChromeEmits
  PROVE  Inductive'
BY SMTT(60), CallsAssumption, ResultsAssumption
  DEF ChromeEmits, EventMsg, BadMsg, Inductive, TypeOK, Started, IdsUnique, PendingOwned, WireReplied,
      LoopPhase, OwnReply, NoOrphan, SendNeverBlocks, ClosedIsDrained, Messages,
      Outcomes, None, NoMsg, clientVars, chromeVars

LEMMA Keeps_ChromeGone ==
  ASSUME Inductive, ChromeGone
  PROVE  Inductive'
BY SMTT(60), CallsAssumption, ResultsAssumption
  DEF ChromeGone, Inductive, TypeOK, Started, IdsUnique, PendingOwned, WireReplied,
      LoopPhase, OwnReply, NoOrphan, SendNeverBlocks, ClosedIsDrained, Messages,
      Outcomes, None, NoMsg, clientVars, chromeVars

LEMMA Keeps_ChromeReplies ==
  ASSUME Inductive, NEW id \in requests, NEW r \in Results, ChromeReplies(id, r)
  PROVE  Inductive'
BY SMTT(60), CallsAssumption, ResultsAssumption
  DEF ChromeReplies, Inductive, TypeOK, Started, IdsUnique, PendingOwned, WireReplied,
      LoopPhase, OwnReply, NoOrphan, SendNeverBlocks, ClosedIsDrained, Messages,
      Outcomes, None, NoMsg, clientVars, chromeVars

LEMMA Keeps_Write ==
  ASSUME Inductive, NEW c \in Calls, Write(c)
  PROVE  Inductive'
<1>1. TypeOK'
  <2>1. requests' \subseteq Nat
    BY DEF Inductive, TypeOK, Write
  <2>2. pc' \in [Calls -> {"idle", "write", "select", "drop", "returned"}]
    BY DEF Inductive, TypeOK, Write
  <2> QED
    BY <2>1, <2>2 DEF Inductive, TypeOK, Write, clientVars
<1>2. Started'
  BY SMTT(20), ResultsAssumption
  DEF Write, Inductive, TypeOK, Started, IdsUnique, PendingOwned, WireReplied,
      LoopPhase, OwnReply, NoOrphan, SendNeverBlocks, ClosedIsDrained, clientVars, chromeVars, NoMsg, None
<1>3. IdsUnique'
  BY SMTT(20), ResultsAssumption
  DEF Write, Inductive, TypeOK, Started, IdsUnique, PendingOwned, WireReplied,
      LoopPhase, OwnReply, NoOrphan, SendNeverBlocks, ClosedIsDrained, clientVars, chromeVars
<1>4. PendingOwned'
  BY SMTT(20), ResultsAssumption
  DEF Write, Inductive, TypeOK, Started, IdsUnique, PendingOwned, WireReplied,
      LoopPhase, OwnReply, NoOrphan, SendNeverBlocks, ClosedIsDrained, clientVars, chromeVars, NoMsg
<1>5. WireReplied'
  BY SMTT(20), ResultsAssumption
  DEF Write, Inductive, TypeOK, Started, IdsUnique, PendingOwned, WireReplied,
      LoopPhase, OwnReply, NoOrphan, SendNeverBlocks, ClosedIsDrained, clientVars, chromeVars
<1>6. LoopPhase'
  BY SMTT(20), ResultsAssumption
  DEF Write, Inductive, TypeOK, Started, IdsUnique, PendingOwned, WireReplied,
      LoopPhase, OwnReply, NoOrphan, SendNeverBlocks, ClosedIsDrained, clientVars, chromeVars
<1>7. OwnReply'
  BY SMTT(20), ResultsAssumption
  DEF Write, Inductive, TypeOK, Started, IdsUnique, PendingOwned, WireReplied,
      LoopPhase, OwnReply, NoOrphan, SendNeverBlocks, ClosedIsDrained, clientVars, chromeVars, NoMsg, None
<1>8. NoOrphan'
  BY SMTT(20), ResultsAssumption
  DEF Write, Inductive, TypeOK, Started, IdsUnique, PendingOwned, WireReplied,
      LoopPhase, OwnReply, NoOrphan, SendNeverBlocks, ClosedIsDrained, clientVars, chromeVars, NoMsg
<1>9. SendNeverBlocks'
  BY SMTT(20), ResultsAssumption
  DEF Write, Inductive, TypeOK, Started, IdsUnique, PendingOwned, WireReplied,
      LoopPhase, OwnReply, NoOrphan, SendNeverBlocks, ClosedIsDrained, clientVars, chromeVars, NoMsg
<1>10. ClosedIsDrained'
  BY SMTT(20), ResultsAssumption
  DEF Write, Inductive, TypeOK, Started, IdsUnique, PendingOwned, WireReplied,
      LoopPhase, OwnReply, NoOrphan, SendNeverBlocks, ClosedIsDrained, clientVars, chromeVars
<1> QED
  BY <1>1, <1>2, <1>3, <1>4, <1>5, <1>6, <1>7, <1>8, <1>9, <1>10 DEF Inductive

LEMMA Keeps_SelectCh ==
  ASSUME Inductive, NEW c \in Calls, SelectCh(c)
  PROVE  Inductive'
<1> USE DEF Inductive
<1>1. UNCHANGED <<nextID, pending, closed, done, callID, chClosed, loop, held,
                   target, closer, conn, requests, wire, replied>>
  BY DEF SelectCh, chromeVars
<1>2. PICK o \in Outcomes :
        /\ ch' \in [Calls -> Messages]
        /\ \A d \in Calls : ch'[d] \in {ch[d], NoMsg}
        /\ Return(c, o) /\ o # None
        /\ o \in Results => <<callID[c], o>> \in replied
  <2>1. CASE ch[c] # NoMsg /\ ch' = [ch EXCEPT ![c] = NoMsg] /\ Return(c, ch[c].kind)
    <3>1. <<callID[c], ch[c].kind>> \in replied /\ ch[c].kind \in Results
      BY <2>1 DEF TypeOK, OwnReply
    <3>2. ch' \in [Calls -> Messages] /\ \A d \in Calls : ch'[d] \in {ch[d], NoMsg}
      BY <2>1 DEF NoMsg, Messages, TypeOK
    <3> QED BY <2>1, <3>1, <3>2, ResultsAssumption DEF Outcomes, None
  <2>2. CASE ch[c] = NoMsg /\ Return(c, "closed") /\ UNCHANGED ch
    BY <2>2, ResultsAssumption DEF TypeOK, Outcomes, None
  <2> QED BY <2>1, <2>2 DEF SelectCh, ClosedCh
<1>3. pc' = [pc EXCEPT ![c] = "returned"] /\ outcome' = [outcome EXCEPT ![c] = o]
  BY <1>2 DEF Return
<1>4. TypeOK'
  BY <1>1, <1>2, <1>3 DEF TypeOK
<1>5. OwnReply'
  BY <1>1, <1>2, <1>3 DEF OwnReply, TypeOK
<1>6. Started'
  BY <1>1, <1>2, <1>3 DEF Started, TypeOK
<1>7. IdsUnique'
  BY SMTT(20), ResultsAssumption
  DEF SelectCh, ClosedCh, Return, Inductive, TypeOK, Started, IdsUnique, PendingOwned, WireReplied,
      LoopPhase, OwnReply, NoOrphan, SendNeverBlocks, ClosedIsDrained, clientVars, chromeVars
<1>8. PendingOwned'
  BY SMTT(20), ResultsAssumption
  DEF SelectCh, ClosedCh, Return, Inductive, TypeOK, Started, IdsUnique, PendingOwned, WireReplied,
      LoopPhase, OwnReply, NoOrphan, SendNeverBlocks, ClosedIsDrained, clientVars, chromeVars, NoMsg
<1>9. WireReplied'
  BY SMTT(20), ResultsAssumption
  DEF SelectCh, ClosedCh, Return, Inductive, TypeOK, Started, IdsUnique, PendingOwned, WireReplied,
      LoopPhase, OwnReply, NoOrphan, SendNeverBlocks, ClosedIsDrained, clientVars, chromeVars
<1>10. LoopPhase'
  BY SMTT(20), ResultsAssumption
  DEF SelectCh, ClosedCh, Return, Inductive, TypeOK, Started, IdsUnique, PendingOwned, WireReplied,
      LoopPhase, OwnReply, NoOrphan, SendNeverBlocks, ClosedIsDrained, clientVars, chromeVars
<1>11. NoOrphan'
  BY SMTT(20), ResultsAssumption
  DEF SelectCh, ClosedCh, Return, Inductive, TypeOK, Started, IdsUnique, PendingOwned, WireReplied,
      LoopPhase, OwnReply, NoOrphan, SendNeverBlocks, ClosedIsDrained, clientVars, chromeVars, NoMsg
<1>12. SendNeverBlocks'
  BY SMTT(20), ResultsAssumption
  DEF SelectCh, ClosedCh, Return, Inductive, TypeOK, Started, IdsUnique, PendingOwned, WireReplied,
      LoopPhase, OwnReply, NoOrphan, SendNeverBlocks, ClosedIsDrained, clientVars, chromeVars, NoMsg
<1>13. ClosedIsDrained'
  BY SMTT(20), ResultsAssumption
  DEF SelectCh, ClosedCh, Return, Inductive, TypeOK, Started, IdsUnique, PendingOwned, WireReplied,
      LoopPhase, OwnReply, NoOrphan, SendNeverBlocks, ClosedIsDrained, clientVars, chromeVars
<1> QED
  BY <1>4, <1>5, <1>6, <1>7, <1>8, <1>9, <1>10, <1>11, <1>12, <1>13 DEF Inductive

LEMMA Keeps_ReadError ==
  ASSUME Inductive, ReadError
  PROVE  Inductive'
<1>0. wire' = wire \/ (wire # <<>> /\ wire' = Tail(wire))
  BY DEF ReadError, Unreadable
<1>1. TypeOK'
  <2>0. wire \in Seq(Messages)
    BY DEF Inductive, TypeOK
  <2>1. wire' \in Seq(Messages)
    BY <1>0, <2>0
  <2>2. chClosed' \subseteq Calls /\ pending' \subseteq Nat \X Calls
    BY DEF ReadError, Inductive, TypeOK
  <2> QED
    BY <2>1, <2>2 DEF ReadError, Inductive, TypeOK
<1>2. Started'
  BY SMTT(20), ResultsAssumption
  DEF ReadError, Inductive, TypeOK, Started, IdsUnique, PendingOwned, WireReplied,
      LoopPhase, OwnReply, NoOrphan, SendNeverBlocks, ClosedIsDrained, clientVars, chromeVars, NoMsg, None
<1>3. IdsUnique'
  BY SMTT(20), ResultsAssumption
  DEF ReadError, Inductive, TypeOK, Started, IdsUnique, PendingOwned, WireReplied,
      LoopPhase, OwnReply, NoOrphan, SendNeverBlocks, ClosedIsDrained, clientVars, chromeVars
<1>4. PendingOwned'
  BY SMTT(20), ResultsAssumption
  DEF ReadError, Inductive, TypeOK, Started, IdsUnique, PendingOwned, WireReplied,
      LoopPhase, OwnReply, NoOrphan, SendNeverBlocks, ClosedIsDrained, clientVars, chromeVars, NoMsg
<1>5. WireReplied'
  <2>1. replied' = replied /\ wire \in Seq(Messages)
    BY DEF ReadError, Inductive, TypeOK
  <2>2. \A i \in 1..Len(wire') : wire'[i] \in {wire[j] : j \in 1..Len(wire)}
    BY <1>0, <2>1
  <2> QED
    BY <2>1, <2>2 DEF Inductive, WireReplied
<1>6. LoopPhase'
  BY SMTT(20), ResultsAssumption
  DEF ReadError, Inductive, TypeOK, Started, IdsUnique, PendingOwned, WireReplied,
      LoopPhase, OwnReply, NoOrphan, SendNeverBlocks, ClosedIsDrained, clientVars, chromeVars
<1>7. OwnReply'
  BY SMTT(20), ResultsAssumption
  DEF ReadError, Inductive, TypeOK, Started, IdsUnique, PendingOwned, WireReplied,
      LoopPhase, OwnReply, NoOrphan, SendNeverBlocks, ClosedIsDrained, clientVars, chromeVars, NoMsg, None
<1>8. NoOrphan'
  <2> SUFFICES ASSUME NEW c \in Calls, pc[c] \in {"write", "select"}
               PROVE  ch[c] # NoMsg \/ c \in chClosed'
    BY DEF NoOrphan, ReadError
  <2>1. <<callID[c], c>> \in pending \/ ch[c] # NoMsg \/ c \in chClosed
    BY DEF Inductive, NoOrphan, ReadError
  <2>2. <<callID[c], c>>[2] = c
    OBVIOUS
  <2> QED
    BY <2>1, <2>2 DEF ReadError
<1>9. SendNeverBlocks'
  BY SMTT(20), ResultsAssumption
  DEF ReadError, Inductive, TypeOK, Started, IdsUnique, PendingOwned, WireReplied,
      LoopPhase, OwnReply, NoOrphan, SendNeverBlocks, ClosedIsDrained, clientVars, chromeVars, NoMsg
<1>10. ClosedIsDrained'
  BY SMTT(20), ResultsAssumption
  DEF ReadError, Inductive, TypeOK, Started, IdsUnique, PendingOwned, WireReplied,
      LoopPhase, OwnReply, NoOrphan, SendNeverBlocks, ClosedIsDrained, clientVars, chromeVars
<1> QED
  BY <1>1, <1>2, <1>3, <1>4, <1>5, <1>6, <1>7, <1>8, <1>9, <1>10 DEF Inductive

LEMMA Keeps_ReadReply ==
  ASSUME Inductive, ReadReply
  PROVE  Inductive'
<1>1. TypeOK'
  <2> USE DEF Inductive, TypeOK
  <2>1. wire' \in Seq(Messages) /\ Head(wire) \in Messages
    BY DEF ReadReply
  <2>2. pending' \subseteq Nat \X Calls
    BY DEF ReadReply, Without
  <2>3. held' \in Messages /\ loop' \in {"read", "deliver", "drained", "exited"}
        /\ (loop' = "deliver" => target' \in Calls)
    BY <2>1 DEF ReadReply, Owner
  <2> QED
    BY <2>1, <2>2, <2>3 DEF ReadReply
<1>2. Started'
  BY SMTT(20), ResultsAssumption
  DEF ReadReply, Owner, Without, Inductive, TypeOK, Started, IdsUnique, PendingOwned, WireReplied,
      LoopPhase, OwnReply, NoOrphan, SendNeverBlocks, ClosedIsDrained, clientVars, chromeVars, NoMsg, None
<1>3. IdsUnique'
  BY SMTT(20), ResultsAssumption
  DEF ReadReply, Owner, Without, Inductive, TypeOK, Started, IdsUnique, PendingOwned, WireReplied,
      LoopPhase, OwnReply, NoOrphan, SendNeverBlocks, ClosedIsDrained, clientVars, chromeVars
<1>4. PendingOwned'
  BY SMTT(20), ResultsAssumption
  DEF ReadReply, Owner, Without, Inductive, TypeOK, Started, IdsUnique, PendingOwned, WireReplied,
      LoopPhase, OwnReply, NoOrphan, SendNeverBlocks, ClosedIsDrained, clientVars, chromeVars, NoMsg
<1>5. WireReplied'
  BY SMTT(20), ResultsAssumption
  DEF ReadReply, Owner, Without, Inductive, TypeOK, Started, IdsUnique, PendingOwned, WireReplied,
      LoopPhase, OwnReply, NoOrphan, SendNeverBlocks, ClosedIsDrained, clientVars, chromeVars
<1>6. LoopPhase'
  BY SMTT(20), ResultsAssumption
  DEF ReadReply, Owner, Without, Inductive, TypeOK, Started, IdsUnique, PendingOwned, WireReplied,
      LoopPhase, OwnReply, NoOrphan, SendNeverBlocks, ClosedIsDrained, clientVars, chromeVars
<1>7. OwnReply'
  BY SMTT(20), ResultsAssumption
  DEF ReadReply, Owner, Without, Inductive, TypeOK, Started, IdsUnique, PendingOwned, WireReplied,
      LoopPhase, OwnReply, NoOrphan, SendNeverBlocks, ClosedIsDrained, clientVars, chromeVars, NoMsg, None
<1>8. NoOrphan'
  BY SMTT(20), ResultsAssumption
  DEF ReadReply, Owner, Without, Inductive, TypeOK, Started, IdsUnique, PendingOwned, WireReplied,
      LoopPhase, OwnReply, NoOrphan, SendNeverBlocks, ClosedIsDrained, clientVars, chromeVars, NoMsg
<1>9. SendNeverBlocks'
  BY SMTT(20), ResultsAssumption
  DEF ReadReply, Owner, Without, Inductive, TypeOK, Started, IdsUnique, PendingOwned, WireReplied,
      LoopPhase, OwnReply, NoOrphan, SendNeverBlocks, ClosedIsDrained, clientVars, chromeVars, NoMsg
<1>10. ClosedIsDrained'
  BY SMTT(20), ResultsAssumption
  DEF ReadReply, Owner, Without, Inductive, TypeOK, Started, IdsUnique, PendingOwned, WireReplied,
      LoopPhase, OwnReply, NoOrphan, SendNeverBlocks, ClosedIsDrained, clientVars, chromeVars
<1> QED
  BY <1>1, <1>2, <1>3, <1>4, <1>5, <1>6, <1>7, <1>8, <1>9, <1>10 DEF Inductive

LEMMA Keeps_Deliver ==
  ASSUME Inductive, Deliver
  PROVE  Inductive'
<1>1. TypeOK'
  BY SMTT(20), ResultsAssumption
  DEF Deliver, Inductive, TypeOK, Started, IdsUnique, PendingOwned, WireReplied,
      LoopPhase, OwnReply, NoOrphan, SendNeverBlocks, ClosedIsDrained, clientVars, chromeVars, Messages, Outcomes, None, NoMsg
<1>2. Started'
  BY SMTT(20), ResultsAssumption
  DEF Deliver, Inductive, TypeOK, Started, IdsUnique, PendingOwned, WireReplied,
      LoopPhase, OwnReply, NoOrphan, SendNeverBlocks, ClosedIsDrained, clientVars, chromeVars, NoMsg, None
<1>3. IdsUnique'
  BY SMTT(20), ResultsAssumption
  DEF Deliver, Inductive, TypeOK, Started, IdsUnique, PendingOwned, WireReplied,
      LoopPhase, OwnReply, NoOrphan, SendNeverBlocks, ClosedIsDrained, clientVars, chromeVars
<1>4. PendingOwned'
  BY SMTT(20), ResultsAssumption
  DEF Deliver, Inductive, TypeOK, Started, IdsUnique, PendingOwned, WireReplied,
      LoopPhase, OwnReply, NoOrphan, SendNeverBlocks, ClosedIsDrained, clientVars, chromeVars, NoMsg
<1>5. WireReplied'
  BY SMTT(20), ResultsAssumption
  DEF Deliver, Inductive, TypeOK, Started, IdsUnique, PendingOwned, WireReplied,
      LoopPhase, OwnReply, NoOrphan, SendNeverBlocks, ClosedIsDrained, clientVars, chromeVars
<1>6. LoopPhase'
  BY SMTT(20), ResultsAssumption
  DEF Deliver, Inductive, TypeOK, Started, IdsUnique, PendingOwned, WireReplied,
      LoopPhase, OwnReply, NoOrphan, SendNeverBlocks, ClosedIsDrained, clientVars, chromeVars
<1>7. OwnReply'
  <2> USE DEF Inductive, TypeOK, OwnReply
  <2>1. ASSUME NEW c \in Calls, ch'[c] # NoMsg
        PROVE  ch'[c].id = callID[c] /\ <<ch'[c].id, ch'[c].kind>> \in replied
    <3>1. CASE c = target
      <4>1. ch'[c] = held
        BY <3>1 DEF Deliver
      <4> QED BY <3>1, <4>1 DEF Deliver
    <3>2. CASE c # target
      <4>1. ch'[c] = ch[c]
        BY <3>2 DEF Deliver
      <4> QED BY <2>1, <4>1
    <3> QED BY <3>1, <3>2
  <2> QED
    BY <2>1 DEF Deliver, chromeVars
<1>8. NoOrphan'
  BY SMTT(20), ResultsAssumption
  DEF Deliver, Inductive, TypeOK, Started, IdsUnique, PendingOwned, WireReplied,
      LoopPhase, OwnReply, NoOrphan, SendNeverBlocks, ClosedIsDrained, clientVars, chromeVars, NoMsg
<1>9. SendNeverBlocks'
  BY SMTT(20), ResultsAssumption
  DEF Deliver, Inductive, TypeOK, Started, IdsUnique, PendingOwned, WireReplied,
      LoopPhase, OwnReply, NoOrphan, SendNeverBlocks, ClosedIsDrained, clientVars, chromeVars, NoMsg
<1>10. ClosedIsDrained'
  BY SMTT(20), ResultsAssumption
  DEF Deliver, Inductive, TypeOK, Started, IdsUnique, PendingOwned, WireReplied,
      LoopPhase, OwnReply, NoOrphan, SendNeverBlocks, ClosedIsDrained, clientVars, chromeVars
<1> QED
  BY <1>1, <1>2, <1>3, <1>4, <1>5, <1>6, <1>7, <1>8, <1>9, <1>10 DEF Inductive

LEMMA InitiallyInductive ==
  ASSUME Init
  PROVE  Inductive
<1>1. TypeOK
  <2>1. NoMsg \in Messages /\ None \in Outcomes
    BY DEF NoMsg, Messages, Outcomes
  <2>2. wire \in Seq(Messages)
    BY DEF Init
  <2> QED
    BY <2>1, <2>2 DEF Init, TypeOK
<1>2. Started /\ IdsUnique /\ PendingOwned
  BY DEF Init, Started, IdsUnique, PendingOwned, None, NoMsg
<1>3. WireReplied /\ LoopPhase /\ NoOrphan /\ SendNeverBlocks /\ ClosedIsDrained
  BY DEF Init, WireReplied, LoopPhase, NoOrphan, SendNeverBlocks, ClosedIsDrained
<1>4. OwnReply
  BY ResultsAssumption DEF Init, OwnReply, None
<1> QED
  BY <1>1, <1>2, <1>3, <1>4 DEF Inductive

LEMMA Stutters ==
  ASSUME Inductive, UNCHANGED vars
  PROVE  Inductive'
BY DEF vars, clientVars, chromeVars, Inductive, TypeOK, Started, IdsUnique, PendingOwned,
       WireReplied, LoopPhase, OwnReply, NoOrphan, SendNeverBlocks, ClosedIsDrained

-----------------------------------------------------------------------------
(* Every step keeps the inductive invariant, so every reachable state has it. *)
THEOREM InductiveHolds == Spec => []Inductive
<1>1. Init => Inductive
  BY InitiallyInductive
<1>2. Inductive /\ [Next]_vars => Inductive'
  <2> SUFFICES ASSUME Inductive, [Next]_vars
               PROVE  Inductive'
    OBVIOUS
  <2>1. CASE \E c \in Calls : Register(c) \/ Refused(c) \/ Write(c) \/ Caller(c)
    BY <2>1, Keeps_Register, Keeps_Refused, Keeps_Write, Keeps_WriteFails, Keeps_CtxDone,
       Keeps_SelectDone, Keeps_SelectCh, Keeps_DropPending DEF Caller
  <2>2. CASE ReadLoop
    BY <2>2, Keeps_ReadError, Keeps_CloseDone, Keeps_ReadReply, Keeps_Deliver, Keeps_ReadEvent
       DEF ReadLoop
  <2>3. CASE CloseConn \/ CloseReturns
    BY <2>3, Keeps_CloseConn, Keeps_CloseReturns
  <2>4. CASE Chrome
    BY <2>4, Keeps_ChromeReplies, Keeps_ChromeEmits, Keeps_ChromeGone DEF Chrome
  <2>5. CASE UNCHANGED vars
    BY <2>5, Stutters
  <2> QED
    BY <2>1, <2>2, <2>3, <2>4, <2>5 DEF Next
<1> QED
  BY <1>1, <1>2, PTL DEF Spec

(* The client keeps its types (client.go:73-86). *)
THEOREM TypeCorrect == Spec => []TypeOK
<1>1. Inductive => TypeOK
  BY DEF Inductive
<1> QED
  BY <1>1, InductiveHolds, PTL

(* Whatever the interleaving of callers and read loop, a call returns only the
   reply Chrome gave to the id that call drew (client.go:121-124, 202-210). *)
THEOREM RepliesAreOwn == Spec => []OwnReply
<1>1. Inductive => OwnReply
  BY DEF Inductive
<1> QED
  BY <1>1, InductiveHolds, PTL

(* A call the read loop took out of the table always has something that will
   wake it: no interleaving of reply, failure and select forgets a caller. *)
THEOREM NobodyIsForgotten == Spec => []NoOrphan
<1>1. Inductive => NoOrphan
  BY DEF Inductive
<1> QED
  BY <1>1, InductiveHolds, PTL

(* A call that returned, by whichever of its exits, has no entry left. *)
THEOREM TableIsEmptied == Spec => []NoLeak
<1>1. Inductive => NoLeak
  <2> SUFFICES ASSUME Inductive, NEW c \in Calls, pc[c] \in {"idle", "returned"},
                      NEW p \in pending
               PROVE  p[2] # c
    BY DEF NoLeak
  <2> QED
    BY DEF Inductive, PendingOwned
<1> QED
  BY <1>1, InductiveHolds, PTL

(* The read loop's send finds the one place of the channel free, and the
   channel open (client.go:203-210). *)
THEOREM SendIsFree == Spec => []SendNeverBlocks
<1>1. Inductive => SendNeverBlocks
  BY DEF Inductive
<1> QED
  BY <1>1, InductiveHolds, PTL

(* Nobody registers after the table was drained (client.go:112-125, 185-193). *)
THEOREM DrainedForGood == Spec => []ClosedIsDrained
<1>1. Inductive => ClosedIsDrained
  BY DEF Inductive
<1> QED
  BY <1>1, InductiveHolds, PTL

-----------------------------------------------------------------------------
(* The client implements CallSpec, but for its fairness.                    *)

\* What Chrome has received or answered was written by the call that drew the
\* id, and that call knows it was sent.
SentBy(id, c) ==
    /\ callID[c] = id /\ id # 0
    /\ pc[c] \in {"select", "drop", "returned"}
    /\ outcome[c] # "unsent"
Sent ==
    /\ \A id \in requests : \E c \in Calls : SentBy(id, c)
    /\ \A p \in replied : \E c \in Calls : SentBy(p[1], c)

AnsweredOnce ==
    /\ \A p \in replied : p[1] \notin requests
    /\ \A p, q \in replied : p[1] = q[1] => p = q

\* A call that gives up has a reason to.
Reasons ==
    /\ \A c \in Calls :
        /\ pc[c] = "drop" => outcome[c] \in {"canceled", "unsent"}
        /\ outcome[c] = "canceled" => c \in Bounded
        /\ outcome[c] = "unsent" => c \in Unencodable \/ conn = "down"
        /\ pc[c] \in {"write", "select"} => outcome[c] = None

Faithful == Sent /\ AnsweredOnce /\ Reasons

LEMMA InitiallyFaithful ==
  ASSUME Init
  PROVE  Faithful
BY DEF Init, Faithful, Sent, AnsweredOnce, Reasons, None

\* A step in which Chrome receives and answers nothing.
LEMMA KeepsSent ==
  ASSUME Sent, AnsweredOnce, UNCHANGED <<requests, replied>>,
         \A id : \A c \in Calls : SentBy(id, c) => SentBy(id, c)'
  PROVE  Sent' /\ AnsweredOnce'
BY DEF Sent, AnsweredOnce

LEMMA KeepsFaithful ==
  ASSUME Inductive, Faithful, [Next]_vars
  PROVE  Faithful'
<1> USE DEF Inductive, TypeOK, clientVars, chromeVars
<1> Sent /\ AnsweredOnce /\ Reasons
  BY DEF Faithful
<1>1. ASSUME NEW c \in Calls, Register(c) PROVE Faithful'
  <2>1. \A id : \A d \in Calls : SentBy(id, d) => SentBy(id, d)'
    BY <1>1 DEF Register, SentBy
  <2>2. Reasons'
    BY <1>1 DEF Register, Reasons, Started
  <2> QED
    BY <1>1, <2>1, <2>2, KeepsSent DEF Register, Faithful
<1>2. ASSUME NEW c \in Calls, NEW o \in {"closed"} \cup Results, Return(c, o), pc[c] \in {"idle", "select"},
             UNCHANGED <<callID, closed, conn, requests, replied>>
      PROVE  Faithful'
  <2>1. \A id : \A d \in Calls : SentBy(id, d) => SentBy(id, d)'
    BY <1>2, ResultsAssumption DEF Return, SentBy
  <2>2. Reasons'
    BY <1>2, ResultsAssumption DEF Return, Reasons
  <2> QED
    BY <1>2, <2>1, <2>2, KeepsSent DEF Faithful
<1>3. ASSUME NEW c \in Calls, Write(c) PROVE Faithful'
  <2>1. \A id : \A d \in Calls : SentBy(id, d) => SentBy(id, d)'
    BY <1>3 DEF Write, SentBy
  <2>2. SentBy(callID[c], c)'
    BY <1>3 DEF Write, SentBy, Started, Reasons, None
  <2>3. Sent'
    BY <1>3, <2>1, <2>2 DEF Write, Sent
  <2>4. ASSUME NEW p \in replied PROVE p[1] # callID[c]
    <3>1. PICK d \in Calls : SentBy(p[1], d)
      BY DEF Sent
    <3> QED
      BY <1>3, <3>1 DEF Write, SentBy, IdsUnique
  <2>5. AnsweredOnce'
    BY <1>3, <2>4 DEF Write, AnsweredOnce
  <2>6. Reasons'
    BY <1>3 DEF Write, Reasons
  <2> QED
    BY <2>3, <2>5, <2>6 DEF Faithful
<1>4. ASSUME NEW c \in Calls, WriteFails(c) \/ CtxDone(c) PROVE Faithful'
  <2>1. \A id : \A d \in Calls : SentBy(id, d) => SentBy(id, d)'
    BY <1>4 DEF WriteFails, CtxDone, GiveUp, SentBy
  <2>2. UNCHANGED conn
    BY <1>4 DEF WriteFails, CtxDone
  <2>3. WriteFails(c) => Reasons'
    BY <1>4, <2>2 DEF WriteFails, GiveUp, Reasons
  <2>4. CtxDone(c) => Reasons'
    BY <1>4, <2>2 DEF CtxDone, CtxReady, GiveUp, Reasons
  <2> QED
    BY <1>4, <2>1, <2>3, <2>4, KeepsSent DEF WriteFails, CtxDone, Faithful
<1>5. ASSUME NEW c \in Calls, DropPending(c) PROVE Faithful'
  <2>1. \A id : \A d \in Calls : SentBy(id, d) => SentBy(id, d)'
    BY <1>5 DEF DropPending, SentBy
  <2>2. Reasons'
    BY <1>5 DEF DropPending, Reasons
  <2> QED
    BY <1>5, <2>1, <2>2, KeepsSent DEF DropPending, Faithful
<1>6. CASE ReadLoop
  <2>1. UNCHANGED <<pc, callID, outcome, conn, requests, replied>>
    BY <1>6 DEF ReadLoop, ReadError, CloseDone, ReadReply, Deliver, ReadEvent
  <2>2. \A id : \A d \in Calls : SentBy(id, d) => SentBy(id, d)'
    BY <2>1 DEF SentBy
  <2>3. Reasons'
    BY <2>1 DEF Reasons
  <2> QED
    BY <2>1, <2>2, <2>3, KeepsSent DEF Faithful
<1>7. CASE CloseConn \/ CloseReturns \/ ChromeEmits \/ ChromeGone \/ UNCHANGED vars
  <2>1. UNCHANGED <<pc, callID, outcome, closed, requests, replied>> /\ conn' \in {conn, "down"}
    BY <1>7 DEF CloseConn, CloseReturns, ChromeEmits, ChromeGone, vars
  <2>2. \A id : \A d \in Calls : SentBy(id, d) => SentBy(id, d)'
    BY <2>1 DEF SentBy
  <2>3. Reasons'
    BY <2>1 DEF Reasons
  <2> QED
    BY <2>1, <2>2, <2>3, KeepsSent DEF Faithful
<1>8. ASSUME NEW id \in requests, NEW r \in Results, ChromeReplies(id, r) PROVE Faithful'
  <2>1. \A i : \A c \in Calls : SentBy(i, c) => SentBy(i, c)'
    BY <1>8 DEF ChromeReplies, SentBy
  <2>2. Sent'
    BY <1>8, <2>1 DEF ChromeReplies, Sent
  <2>3. AnsweredOnce'
    BY <1>8 DEF ChromeReplies, AnsweredOnce
  <2>4. Reasons'
    BY <1>8 DEF ChromeReplies, Reasons
  <2> QED
    BY <2>2, <2>3, <2>4 DEF Faithful
<1>9. ASSUME NEW c \in Calls, Refused(c) \/ SelectDone(c) PROVE Faithful'
  <2>1. /\ Return(c, "closed") /\ pc[c] \in {"idle", "select"}
        /\ UNCHANGED <<callID, closed, conn, requests, replied>>
    BY <1>9 DEF Refused, SelectDone
  <2> QED
    BY <2>1, <1>2
<1>10. ASSUME NEW c \in Calls, SelectCh(c) PROVE Faithful'
  <2>1. PICK o \in {"closed"} \cup Results : Return(c, o)
    BY <1>10 DEF SelectCh, ClosedCh, OwnReply
  <2>2. pc[c] \in {"idle", "select"} /\ UNCHANGED <<callID, closed, conn, requests, replied>>
    BY <1>10 DEF SelectCh
  <2> QED
    BY <2>1, <2>2, <1>2
<1> QED
  BY <1>1, <1>3, <1>4, <1>5, <1>6, <1>7, <1>8, <1>9, <1>10 DEF Next, Caller, Chrome

\* What Chrome answered to a call's id is the answer of the call.
LEMMA AnswerIs ==
  ASSUME AnsweredOnce, NEW c \in Calls, NEW r \in Results,
         callID[c] # 0, <<callID[c], r>> \in replied
  PROVE  Answer[c] = r
<1>1. Answers(c) = {r}
  BY DEF Answers, AnsweredOnce
<1> QED
  BY <1>1 DEF Answer, One

LEMMA StartsAsSpec ==
  ASSUME Init
  PROVE  Promise!SpecInit
<1>1. replied = {}
  BY DEF Init
<1>2. \A c \in Calls : Answers(c) = {}
  BY <1>1 DEF Answers
<1> QED
  BY <1>2 DEF Init, Promise!SpecInit, Promise!None, Status, Answer, One, Returned, IsUp, IsHeard,
              Written, IsSent, None

\* Steps that change nothing a caller sees.
LEMMA Unseen ==
  ASSUME UNCHANGED <<callID, replied, conn, closed>>,
         \A c \in Calls :
            \/ pc'[c] = pc[c] /\ outcome'[c] = outcome[c]
            \/ /\ pc[c] = "select" /\ pc'[c] = "drop"
               /\ outcome'[c] # "unsent" /\ callID[c] # 0
            \/ pc[c] = "write" /\ pc'[c] = "drop" /\ outcome'[c] = "unsent"
  PROVE  UNCHANGED Promise!specVars
<1>1. Status' = Status
  BY DEF Status
<1>2. Answer' = Answer
  BY DEF Answer, Answers
<1>3. Returned' = Returned
  BY DEF Returned
<1>4. Written' = Written
  BY DEF Written, IsSent
<1> QED
  BY <1>1, <1>2, <1>3, <1>4 DEF Promise!specVars, IsUp, IsHeard

LEMMA RegisterStarts ==
  ASSUME Inductive, Faithful, NEW c \in Calls, Register(c)
  PROVE  Promise!Start(c)
<1>1. Status[c] = "idle" /\ Status' = [Status EXCEPT ![c] = "open"]
  BY DEF Register, Status, Inductive, TypeOK
<1>2. ASSUME NEW d \in Calls PROVE Answers(d)' = Answers(d)
  <2>1. CASE d = c
    <3>1. ASSUME NEW p \in replied PROVE p[1] # nextID + 1
      <4>1. PICK e \in Calls : SentBy(p[1], e)
        BY DEF Faithful, Sent
      <4> QED
        BY <4>1 DEF SentBy, Inductive, Started, TypeOK
    <3> QED
      BY <2>1, <3>1 DEF Register, FreshID, Answers, Inductive, Started, TypeOK, chromeVars
  <2>2. CASE d # c
    BY <2>2 DEF Register, Answers, Inductive, TypeOK, chromeVars
  <2> QED
    BY <2>1, <2>2
<1>3. Answer' = Answer
  BY <1>2 DEF Answer
<1>4. Returned' = Returned
  BY DEF Register, Returned, Inductive, TypeOK
<1>5. Written' = Written
  BY DEF Register, Written, IsSent, Inductive, TypeOK
<1>6. IsHeard /\ IsHeard' = IsHeard /\ IsUp' = IsUp
  BY DEF Register, Accepts, IsUp, IsHeard
<1> QED
  BY <1>1, <1>3, <1>4, <1>5, <1>6 DEF Promise!Start

LEMMA RefusedRefuses ==
  ASSUME Inductive, NEW c \in Calls, Refused(c)
  PROVE  Promise!Refuse(c)
<1>1. Status[c] = "idle" /\ Status' = [Status EXCEPT ![c] = "ended"] /\ ~IsHeard
  BY DEF Refused, Return, Status, IsHeard, Inductive, TypeOK
<1>2. Returned' = [Returned EXCEPT ![c] = "closed"]
  BY DEF Refused, Return, Returned, Inductive, TypeOK
<1>3. Answer' = Answer /\ IsUp' = IsUp /\ IsHeard' = IsHeard
  BY DEF Refused, Answer, Answers, IsUp, IsHeard, clientVars, chromeVars
<1>4. Written' = Written
  BY DEF Refused, Return, Written, IsSent, Inductive, TypeOK, Started, clientVars
<1> QED
  BY <1>1, <1>2, <1>3, <1>4 DEF Promise!Refuse

LEMMA WriteSends ==
  ASSUME Inductive, NEW c \in Calls, Write(c)
  PROVE  Promise!Send(c)
<1>1. Status[c] = "open" /\ Status' = Status
  BY DEF Write, Status, Inductive, TypeOK
<1>2. Returned' = Returned
  BY DEF Write, Returned, Inductive, TypeOK
<1>3. Answer' = Answer /\ IsUp' = IsUp /\ IsHeard' = IsHeard
  BY DEF Write, Answer, Answers, IsUp, IsHeard, clientVars
<1>4. c \notin Written /\ c \notin Unencodable /\ Written' = Written \cup {c}
  BY DEF Write, Written, IsSent, Inductive, TypeOK, clientVars
<1> QED
  BY <1>1, <1>2, <1>3, <1>4 DEF Promise!Send

\* How a call leaves: with a reply or a close from the select, or with the
\* error it had when it dropped its entry.
Leaves(c, o) ==
    /\ Return(c, o)
    /\ \/ pc[c] = "select" /\ o # "unsent"
       \/ pc[c] = "drop" /\ o = outcome[c]
    /\ callID' = callID /\ replied' = replied
    /\ conn' = conn /\ closed' = closed

\* A call that returns has something to report.
LEMMA ReturnEnds ==
  ASSUME Inductive, NEW c \in Calls, NEW o,
         Leaves(c, o), o \in Promise!Reportable(c)
  PROVE  Promise!End(c)
<1>1. Status[c] = "open" /\ Status' = [Status EXCEPT ![c] = "ended"]
  BY DEF Leaves, Return, Status, Inductive, TypeOK
<1>2. Returned' = [Returned EXCEPT ![c] = o]
  BY DEF Leaves, Return, Returned, Inductive, TypeOK
<1>3. Answer' = Answer /\ IsUp' = IsUp /\ IsHeard' = IsHeard
  BY DEF Leaves, Answer, Answers, IsUp, IsHeard
<1>4. Written' = Written
  BY DEF Leaves, Return, Written, IsSent, Inductive, TypeOK, Started
<1> QED
  BY <1>1, <1>2, <1>3, <1>4 DEF Promise!End

LEMMA SelectDoneEnds ==
  ASSUME Inductive, NEW c \in Calls, SelectDone(c)
  PROVE  Promise!End(c)
<1>1. "closed" \in Promise!Reportable(c)
  BY DEF SelectDone, Promise!Reportable, IsHeard, Written, IsSent, Inductive, LoopPhase
<1>2. Leaves(c, "closed")
  BY DEF SelectDone, Leaves, clientVars, chromeVars
<1> QED
  BY <1>1, <1>2, ReturnEnds

LEMMA SelectChEnds ==
  ASSUME Inductive, Faithful, NEW c \in Calls, SelectCh(c)
  PROVE  Promise!End(c)
<1>0. pc[c] = "select" /\ UNCHANGED <<callID, replied, conn, closed>> /\ c \in Written
  BY DEF SelectCh, chromeVars, Written, IsSent
<1>1. CASE ch[c] # NoMsg /\ Return(c, ch[c].kind)
  <2>1. /\ <<callID[c], ch[c].kind>> \in replied
        /\ ch[c].kind \in Results /\ callID[c] # 0
    BY <1>1 DEF SelectCh, Inductive, OwnReply, TypeOK, Started
  <2>2. Answer[c] = ch[c].kind
    BY <2>1, AnswerIs DEF Faithful
  <2>3. ch[c].kind \in Promise!Reportable(c) /\ ch[c].kind # "unsent"
    BY <1>0, <2>1, <2>2, ResultsAssumption DEF Promise!Reportable, Promise!None
  <2>4. Leaves(c, ch[c].kind)
    BY <1>0, <1>1, <2>3 DEF Leaves
  <2> QED
    BY <2>3, <2>4, ReturnEnds
<1>2. CASE c \in chClosed /\ Return(c, "closed")
  <2>1. "closed" \in Promise!Reportable(c)
    BY <1>0, <1>2 DEF Promise!Reportable, IsHeard, Inductive, LoopPhase
  <2>2. Leaves(c, "closed")
    BY <1>0, <1>2 DEF Leaves
  <2> QED
    BY <2>1, <2>2, ReturnEnds
<1> QED
  BY <1>1, <1>2 DEF SelectCh, ClosedCh

LEMMA DropPendingEnds ==
  ASSUME Inductive, Faithful, NEW c \in Calls, DropPending(c)
  PROVE  Promise!End(c)
<1>1. ASSUME outcome[c] = "canceled" PROVE outcome[c] \in Promise!Reportable(c)
  BY <1>1 DEF DropPending, Promise!Reportable, Faithful, Reasons, Written, IsSent,
              Inductive, Started
<1>2. ASSUME outcome[c] = "unsent" PROVE outcome[c] \in Promise!Reportable(c)
  BY <1>2 DEF DropPending, Promise!Reportable, Faithful, Reasons, Written, IsSent, IsUp
<1>3. outcome[c] \in Promise!Reportable(c)
  BY <1>1, <1>2 DEF DropPending, Faithful, Reasons
<1>4. Leaves(c, outcome[c])
  BY DEF DropPending, Leaves, Return, chromeVars, Inductive, TypeOK
<1> QED
  BY <1>3, <1>4, ReturnEnds

LEMMA RepliesPerform ==
  ASSUME Inductive, Faithful, NEW id \in requests, NEW r \in Results, ChromeReplies(id, r)
  PROVE  \E c \in Calls : Promise!Perform(c, r)
<1>1. PICK c \in Calls : SentBy(id, c)
  BY DEF Faithful, Sent
<1>2. Answers(c) = {} /\ Answers(c)' = {r}
  BY <1>1 DEF SentBy, Answers, ChromeReplies, Faithful, AnsweredOnce, clientVars
<1>3. ASSUME NEW d \in Calls, d # c PROVE Answers(d)' = Answers(d)
  BY <1>1, <1>3 DEF SentBy, Answers, ChromeReplies, clientVars, Inductive, IdsUnique
<1>4. Answer[c] = None /\ Answer' = [Answer EXCEPT ![c] = r]
  <2>1. One({}) = None /\ One({r}) = r
    BY DEF One
  <2>2. Answer[c] = None
    BY <1>2, <2>1 DEF Answer
  <2>3. One(Answers(c)') = r /\ \A d \in Calls \ {c} : One(Answers(d)') = One(Answers(d))
    BY <1>2, <1>3, <2>1
  <2> QED
    BY <2>2, <2>3 DEF Answer
<1>5. c \in Written
  BY <1>1 DEF SentBy, Written, IsSent
<1>6. IsUp /\ UNCHANGED <<Status, Returned, Written, IsUp, IsHeard>>
  BY DEF ChromeReplies, IsUp, IsHeard, Status, Returned, Written, IsSent, clientVars
<1> QED
  BY <1>4, <1>5, <1>6 DEF Promise!Perform, Promise!None, None

LEMMA ConnectionEnds ==
  ASSUME CloseConn \/ ChromeGone
  PROVE  Promise!Disconnect \/ UNCHANGED Promise!specVars
<1>0. UNCHANGED <<pc, callID, outcome, replied, closed>> /\ conn' = "down"
  BY DEF CloseConn, ChromeGone, clientVars, chromeVars
<1>1. UNCHANGED <<Status, Answer, Returned, Written, IsHeard>> /\ ~IsUp'
  BY <1>0 DEF Status, Answer, Answers, Returned, Written, IsSent, IsHeard, IsUp
<1> QED
  BY <1>1 DEF Promise!Disconnect, Promise!specVars, IsUp

\* What ends the read loop is what ends the listening, up or not.
LEMMA ErrorStopsListening ==
  ASSUME Inductive, ReadError
  PROVE  Promise!StopListening
<1>1. UNCHANGED <<pc, callID, outcome, replied, conn>> /\ ~closed /\ closed'
  BY DEF ReadError, Inductive, LoopPhase
<1>2. UNCHANGED <<Status, Answer, Returned, Written, IsUp>>
  BY <1>1 DEF Status, Answer, Answers, Returned, Written, IsSent, IsUp
<1>3. IsHeard = TRUE /\ IsHeard' = FALSE
  BY <1>1 DEF IsHeard
<1> QED
  BY <1>2, <1>3 DEF Promise!StopListening

LEMMA StepsAsSpec ==
  ASSUME Inductive, Faithful, [Next]_vars
  PROVE  [Promise!SpecNext]_(Promise!specVars)
<1> USE DEF Promise!SpecNext
<1>1. ASSUME NEW c \in Calls, Register(c) PROVE Promise!SpecNext
  BY <1>1, RegisterStarts
<1>2. ASSUME NEW c \in Calls, Refused(c) \/ Write(c) PROVE Promise!SpecNext
  BY <1>2, RefusedRefuses, WriteSends
<1>3. ASSUME NEW c \in Calls, SelectDone(c) \/ SelectCh(c) \/ DropPending(c) PROVE Promise!SpecNext
  BY <1>3, SelectDoneEnds, SelectChEnds, DropPendingEnds
<1>4. ASSUME NEW c \in Calls, WriteFails(c) \/ CtxDone(c)
      PROVE  UNCHANGED Promise!specVars
  BY <1>4, Unseen DEF WriteFails, CtxDone, GiveUp, Inductive, TypeOK, Started, clientVars, chromeVars
<1>5. CASE ReadError
  BY <1>5, ErrorStopsListening
<1>6. CASE CloseDone \/ ReadReply \/ Deliver \/ ReadEvent
  BY <1>6, Unseen DEF CloseDone, ReadReply, Deliver, ReadEvent, chromeVars, clientVars
<1>7. CASE CloseReturns \/ ChromeEmits \/ UNCHANGED vars
  BY <1>7, Unseen DEF CloseReturns, ChromeEmits, vars, clientVars, chromeVars
<1>8. CASE CloseConn \/ ChromeGone
  BY <1>8, ConnectionEnds
<1>9. ASSUME NEW id \in requests, NEW r \in Results, ChromeReplies(id, r) PROVE Promise!SpecNext
  BY <1>9, RepliesPerform
<1> QED
  BY <1>1, <1>2, <1>3, <1>4, <1>5, <1>6, <1>7, <1>8, <1>9 DEF Next, Caller, ReadLoop, Chrome

(* The client implements the remote procedure calls of CallSpec, except that
   how soon a call ends is not part of it: every step is a step of CallSpec or
   changes nothing a caller sees, whether the read loop ended with the
   connection or on a message it cannot read (client.go:111-147, 179-213). *)
THEOREM ImplementsCalls == Spec => ImplementsCallSteps
<1>1. Init => Promise!SpecInit
  BY StartsAsSpec
<1>2. Inductive /\ Faithful /\ [Next]_vars => [Promise!SpecNext]_(Promise!specVars)
  BY StepsAsSpec
<1>3. Spec => []Faithful
  <2>1. Init => Faithful
    BY InitiallyFaithful
  <2>2. Inductive /\ Faithful /\ [Next]_vars => Faithful'
    BY KeepsFaithful
  <2> QED
    BY <2>1, <2>2, InductiveHolds, PTL DEF Spec
<1> QED
  BY <1>1, <1>2, <1>3, InductiveHolds, PTL DEF Spec, ImplementsCallSteps
=============================================================================
