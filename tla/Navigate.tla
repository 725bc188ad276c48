------------------------------ MODULE Navigate ------------------------------
(***************************************************************************)
(* navigate_page on one attached page: navigateSession of                  *)
(* internal/tools/pages.go with its one-shot waiter for the load event and *)
(* the readyState it asks for when none came.  Documents are numbered as   *)
(* they are committed.  Chrome (external) commits a navigation some time   *)
(* after it was asked for, and the page may navigate by itself.            *)
(***************************************************************************)
EXTENDS Integers, Sequences, SequencesExt

CONSTANT MaxDocs  (* bound: documents ever committed, the first one included *)

ASSUME NavigateAssumption == MaxDocs \in Nat \ {0}

VARIABLES
    pc,      \* navigateSession: "idle", "calling", "waiting", "check"
    waiter,  \* its waiter: -1 none, 0 empty, else the document it heard of
    got,     \* the reply to Page.navigate: "none", "ok" or "error"
    result,  \* how the last call ended: "none", "loaded", "note", "error", "timeout", or
             \* "unread" for a timeout whose readyState nobody could tell
    heard,   \* the document of the load event a "loaded" is based on
    mine,    \* the document the call running (or the last one) navigated to, 0 for none
    asked,   \* Chrome: the navigation asked for and not committed: "none", "mine", or
             \* "old" when its call has given up
    doc,     \* Chrome: the document shown
    ready,   \* Chrome: its readyState
    wire,    \* events and replies on their way from Chrome
    seen     \* documents whose load event the read loop has dispatched

toolVars == <<pc, waiter, got, result, heard>>
chromeVars == <<mine, asked, doc, ready>>
vars == <<toolVars, chromeVars, wire, seen>>

None == -1
Empty == 0

Init ==
    /\ pc = "idle" /\ waiter = None /\ got = "none" /\ result = "none"
    /\ heard = 0 /\ mine = 0
    /\ asked = "none" /\ doc = 1 /\ ready = "complete"
    /\ wire = <<>> /\ seen = {}

-----------------------------------------------------------------------------
(* navigateSession *)

\* Variant: the waiter is registered when the navigation is under way.
WaitLater == None

WaitFirst == Empty

\* A navigation of an earlier call that is still under way is replaced.
Call ==
    /\ pc = "idle"
    /\ waiter' = WaitFirst
    /\ asked' = "mine" /\ mine' = 0
    /\ got' = "none" /\ result' = "none" /\ heard' = 0
    /\ pc' = "calling"
    /\ UNCHANGED <<doc, ready, wire, seen>>

\* The waiter is removed on every way out.
End(r) ==
    /\ pc' = "idle" /\ waiter' = None /\ got' = "none" /\ result' = r

CallReturns ==
    /\ pc = "calling" /\ got # "none"
    /\ \/ /\ got = "ok"
          /\ pc' = "waiting"
          /\ waiter' = IF waiter = None THEN Empty ELSE waiter
          /\ UNCHANGED <<got, result>>
       \/ got = "error" /\ End("error")
    /\ UNCHANGED <<heard, chromeVars, wire, seen>>

IsEvent(msg) == msg.kind = "load"

\* The reply on its way, if there is one: it finds no call any more and is left out.
Replies == {i \in DOMAIN wire : ~IsEvent(wire[i])}

Unanswered == IF Replies = {} THEN wire ELSE RemoveAt(wire, CHOOSE i \in Replies : TRUE)

\* The select of client.Call takes its deadline, though the reply may be there too,
\* and the document loaded: nobody asks it.
CallTimesOut ==
    /\ pc = "calling"
    /\ End("timeout")
    /\ asked' = IF asked = "mine" THEN "old" ELSE asked
    /\ wire' = Unanswered
    /\ UNCHANGED <<heard, mine, doc, ready, seen>>

Loaded ==
    /\ pc = "waiting" /\ waiter \notin {None, Empty}
    /\ End("loaded")
    /\ heard' = waiter
    /\ UNCHANGED <<chromeVars, wire, seen>>

\* The select may take the timer although the event is there too.
TimerFires ==
    /\ pc = "waiting"
    /\ pc' = "check"
    /\ UNCHANGED <<waiter, got, result, heard, chromeVars, wire, seen>>

\* Variant: a missed event is a timeout.
NeverEnough(state) == FALSE

LoadedEnough(state) == state \in {"complete", "interactive"}

\* documentReadyState, answered by whatever document is shown by then.
CheckReadyState ==
    /\ pc = "check"
    /\ End(IF LoadedEnough(ready) THEN "note" ELSE "timeout")
    /\ UNCHANGED <<heard, chromeVars, wire, seen>>

\* The page does not answer: a dialog is open, or a script is busy.
CheckFails ==
    /\ pc = "check"
    /\ End("unread")
    /\ UNCHANGED <<heard, chromeVars, wire, seen>>

-----------------------------------------------------------------------------
(* The read loop *)

\* dispatchEvent hands a load event to the waiter, if there is one.
ReadMessage ==
    /\ wire # <<>>
    /\ LET msg == Head(wire)
       IN  \/ /\ IsEvent(msg)
              /\ waiter' = IF waiter = Empty THEN msg.doc ELSE waiter
              /\ seen' = seen \cup {msg.doc}
              /\ UNCHANGED got
           \/ /\ ~IsEvent(msg)
              /\ got' = msg.kind
              /\ UNCHANGED <<waiter, seen>>
    /\ wire' = Tail(wire)
    /\ UNCHANGED <<pc, result, heard, chromeVars>>

-----------------------------------------------------------------------------
(* Chrome *)

Message(kind, d) == Append(wire, [kind |-> kind, doc |-> d])

Answer(kind) == wire' = IF asked = "mine" THEN Message(kind, 0) ELSE wire

Commit ==
    /\ asked # "none" /\ doc < MaxDocs
    /\ doc' = doc + 1 /\ ready' = "loading"
    /\ mine' = IF asked = "mine" THEN doc' ELSE mine
    /\ asked' = "none" /\ Answer("ok")
    /\ UNCHANGED <<toolVars, seen>>

\* A URL that differs in its fragment alone: no new document, no load event.
SameDocument ==
    /\ asked # "none"
    /\ asked' = "none" /\ Answer("ok")
    /\ UNCHANGED <<toolVars, mine, doc, ready, seen>>

NavigationFails ==
    /\ asked # "none"
    /\ asked' = "none" /\ Answer("error")
    /\ UNCHANGED <<toolVars, mine, doc, ready, seen>>

PageNavigates ==
    /\ doc < MaxDocs
    /\ doc' = doc + 1 /\ ready' = "loading"
    /\ UNCHANGED <<toolVars, mine, asked, wire, seen>>

Interactive ==
    /\ ready = "loading"
    /\ ready' = "interactive"
    /\ UNCHANGED <<toolVars, mine, asked, doc, wire, seen>>

Complete ==
    /\ ready = "interactive"
    /\ ready' = "complete"
    /\ wire' = Message("load", doc)
    /\ UNCHANGED <<toolVars, mine, asked, doc, seen>>

Tool == CallReturns \/ CallTimesOut \/ Loaded \/ TimerFires \/ CheckReadyState \/ CheckFails

Next ==
    \/ Call \/ Tool \/ ReadMessage
    \/ Commit \/ SameDocument \/ NavigationFails \/ PageNavigates
    \/ Interactive \/ Complete

Spec == Init /\ [][Next]_vars

\* The tool and the read loop go on; Chrome owes nothing.
FairSpec == Spec /\ WF_vars(Tool) /\ WF_vars(ReadMessage)

-----------------------------------------------------------------------------
(* Properties *)

TypeOK ==
    /\ pc \in {"idle", "calling", "waiting", "check"}
    /\ waiter \in {None, Empty} \cup 1..MaxDocs
    /\ got \in {"none", "ok", "error"}
    /\ result \in {"none", "loaded", "note", "error", "timeout", "unread"}
    /\ heard \in 0..MaxDocs /\ mine \in 0..MaxDocs /\ doc \in 1..MaxDocs
    /\ ready \in {"loading", "interactive", "complete"}
    /\ seen \subseteq 1..doc
    /\ (pc = "idle") = (waiter = None)
    /\ pc # "idle" => result = "none"

\* The load event of the document the call navigated to cannot slip past it, not
\* even when it is dispatched before the reply to Page.navigate is looked at
\* (navigateSession registers its waiter before the call).
LoadIsNotMissed ==
    pc \in {"calling", "waiting"} /\ mine \in seen => waiter \notin {None, Empty}

\* Once Page.navigate is answered and the page can tell its readyState, a timeout is
\* reported only while the document shown is loading and nothing of its load event
\* has reached this server: an event that came while the select took its timer, or
\* to a waiter that had heard of another document, makes no timeout (navigateSession
\* asks for the readyState; for a call that timed out it does not).
TimeoutsAreReal ==
    [][result' = "timeout" /\ result # "timeout" /\ pc # "calling" =>
           ready = "loading" /\ doc \notin seen]_vars

\* What pages.go:225 says: navigateSession navigates and waits for the load
\* event: "loaded" is not about a document the navigation replaced.
LoadedIsOurs == result = "loaded" => heard >= mine
=============================================================================
