----------------------------- MODULE ConsoleLog -----------------------------
(***************************************************************************)
(* The console collector: one buffer of the newest messages of all pages,  *)
(* filled by the read loop and read by list_console_messages and           *)
(* get_console_message (internal/tools/collectors.go, console.go).  The    *)
(* client polls: it passes the lastMsgId of its last listing of a page as  *)
(* the sinceMsgId of the next one, and asks for the types in Wanted.       *)
(***************************************************************************)
EXTENDS Naturals, Sequences, FiniteSets

CONSTANTS Pages,       (* attached pages, one session each                  *)
          Types,       (* message types                                     *)
          Wanted,      (* the types the client asks for, {} for all         *)
          MaxConsoleMessages, (* maxConsoleMessages                         *)
          MaxLogged    (* bound: messages ever logged                       *)

ASSUME ConsoleAssumption ==
    /\ MaxConsoleMessages \in Nat \ {0} /\ MaxLogged \in Nat
    /\ Wanted \subseteq Types

VARIABLES
    consoleSeq,  \* collectors.consoleSeq
    consoleMsgs, \* collectors.consoleMsgs, oldest first
    msgCursor,      \* client: the last lastMsgId of each page
    times,       \* how often the client was handed each message
    getMsg          \* the get_console_message running: its msgid and where it is

consoleVars == <<consoleSeq, consoleMsgs, msgCursor, times, getMsg>>

NoGetMsg == [at |-> "idle", id |-> 0]

ConsoleInit ==
    /\ consoleSeq = 0 /\ consoleMsgs = <<>>
    /\ msgCursor = [p \in Pages |-> 0]
    /\ times = [i \in 1..MaxLogged |-> 0]
    /\ getMsg = NoGetMsg

-----------------------------------------------------------------------------
(* The read loop *)

DropOldest(s) == IF Len(s) > MaxConsoleMessages THEN Tail(s) ELSE s

AddConsoleMsg(p, type) ==
    /\ consoleSeq < MaxLogged
    /\ consoleSeq' = consoleSeq + 1
    /\ consoleMsgs' = DropOldest(Append(consoleMsgs,
                                        [id |-> consoleSeq', type |-> type, page |-> p]))
    /\ UNCHANGED <<msgCursor, times, getMsg>>

-----------------------------------------------------------------------------
(* list_console_messages *)

MessagesOf(p) == {consoleMsgs[i] : i \in {j \in DOMAIN consoleMsgs : consoleMsgs[j].page = p}}

TypeOf(m) == Wanted = {} \/ m.type \in Wanted

\* Variant: the cursor itself is taken for unread when it is the newest.
NotBefore(m, since) == m.id >= since

\* Variant: the cursor is taken for the first message to leave out.
AfterNext(m, since) == m.id > since + 1

After(m, since) == m.id > since

Matching(p, since) == {m \in MessagesOf(p) : After(m, since) /\ TypeOf(m)}

\* The newest message of the page, whatever the filters leave of it.
LastID(p, since) ==
    LET ids == {m.id : m \in MessagesOf(p)}
    IN  IF ids = {} THEN 0 ELSE CHOOSE i \in ids : \A j \in ids : j <= i

\* One listing without paging; it holds collectors.mu from end to end.
ListConsoleMessages(p) ==
    /\ getMsg = NoGetMsg
    /\ LET handed == {m.id : m \in Matching(p, msgCursor[p])}
       IN  times' = [i \in DOMAIN times |-> IF i \in handed THEN times[i] + 1 ELSE times[i]]
    /\ msgCursor' = [msgCursor EXCEPT ![p] = LastID(p, msgCursor[p])]
    /\ UNCHANGED <<consoleSeq, consoleMsgs, getMsg>>

-----------------------------------------------------------------------------
(* get_console_message *)

Held == {consoleMsgs[i].id : i \in DOMAIN consoleMsgs}

\* The message is looked up once for its page, which is then checked without
\* collectors.mu, and once more for the answer.
BeginGet(i) ==
    /\ getMsg = NoGetMsg
    /\ getMsg' = [at |-> IF i \in Held THEN "check" ELSE "absent", id |-> i]
    /\ UNCHANGED <<consoleSeq, consoleMsgs, msgCursor, times>>

\* The check of the page may refuse or fail.
CheckPage ==
    /\ getMsg.at = "check"
    /\ getMsg' = NoGetMsg \/ getMsg' = [getMsg EXCEPT !.at = "again"]
    /\ UNCHANGED <<consoleSeq, consoleMsgs, msgCursor, times>>

LookAgain ==
    /\ getMsg.at = "again"
    /\ getMsg' = [getMsg EXCEPT !.at = IF getMsg.id \in Held THEN "found" ELSE "absent"]
    /\ UNCHANGED <<consoleSeq, consoleMsgs, msgCursor, times>>

EndGet ==
    /\ getMsg.at \in {"found", "absent"}
    /\ getMsg' = NoGetMsg
    /\ UNCHANGED <<consoleSeq, consoleMsgs, msgCursor, times>>

ConsoleNext ==
    \/ \E p \in Pages, type \in Types : AddConsoleMsg(p, type)
    \/ \E p \in Pages : ListConsoleMessages(p)
    \/ \E i \in 1..MaxLogged : BeginGet(i)
    \/ CheckPage \/ LookAgain \/ EndGet

ConsoleSpec == ConsoleInit /\ [][ConsoleNext]_consoleVars

-----------------------------------------------------------------------------
(* Properties *)

ConsoleTypeOK ==
    /\ consoleSeq \in 0..MaxLogged
    /\ Len(consoleMsgs) <= MaxConsoleMessages
    /\ \A i \in DOMAIN consoleMsgs :
           consoleMsgs[i] \in [id : 1..consoleSeq, type : Types, page : Pages]
    /\ msgCursor \in [Pages -> 0..consoleSeq]
    /\ times \in [1..MaxLogged -> Nat]
    /\ getMsg \in [at : {"idle", "check", "again", "found", "absent"}, id : 0..MaxLogged]

\* A polling client is never handed a message twice, also not after the buffer
\* lost every message of the page and lastMsgId fell back to 0
\* (listConsoleMessages).
NoRepeats == \A i \in DOMAIN times : times[i] <= 1

\* What lies at or below the client's cursor and is still buffered was handed
\* to it, if it asked for its type: filters that match nothing do not move the
\* cursor past anything wanted (listConsoleMessages).
NothingSkipped ==
    \A p \in Pages : \A m \in MessagesOf(p) :
        m.id <= msgCursor[p] /\ TypeOf(m) => times[m.id] > 0

\* Polling hands every message it asks for to the client exactly once, as long as
\* the buffer holds it (listConsoleMessages).
PollsAreExact == NoRepeats /\ NothingSkipped
=============================================================================
