---------------------------- MODULE DialogGuard -----------------------------
(***************************************************************************)
(* Tool calls racing JavaScript dialogs: callGuarded and rendererCall of   *)
(* internal/tools/dialogguard.go, the one-shot waiters and dispatchEvent   *)
(* of manager.go, the dialog records of collectors.go and handle_dialog of *)
(* input.go.                                                               *)
(*                                                                         *)
(* Two goroutines of the program take part: the one that runs tools, one   *)
(* at a time, and the CDP read loop.  Each critical section is one step,   *)
(* and the two interleave everywhere else.  Chrome is external: per        *)
(* session it performs calls one after the other, stops while a dialog     *)
(* shows, and shows dialogs because of a call or on the page's own accord. *)
(* Dialogs and calls are numbered from 1; 0 stands for none.               *)
(***************************************************************************)
EXTENDS Naturals, Sequences

CONSTANTS Sessions,     (* attached pages                                   *)
          Tools,        (* the tools tried, a subset of DOMAIN Script       *)
          MaxCalls,     (* bound: CDP calls the tools make                  *)
          MaxDialogs    (* bound: dialogs pages open                        *)

VARIABLES
    dialogs,    \* collectors.dialogs: the dialog recorded per session
    waiters,    \* Manager.waiters for the opening event: pairs of session, call
    pc,         \* where the tool goroutine is
    tool, sess, \* the tool it runs and the session that tool acts on
    step,       \* which of the tool's calls is being made
    call,       \* number of the last CDP call made
    opened,     \* what lies in the opening channel of the current guard
    got,        \* the reply that came for the current call: "none", "ok", "err"
    found,      \* the dialog handle_dialog saw before it answered
    last,       \* what the last tool returned
    loop,       \* the read loop: "read", "take" or "notify"
    held,       \* the dialog whose opening event the read loop handles
    taken,      \* the waiters it took
    wire,       \* messages on their way from Chrome, in order
    showing,    \* Chrome: the dialog each page shows
    executing,  \* Chrome: the call each page is in the middle of
    queue,      \* Chrome: the calls waiting for each page
    answers,    \* Chrome: Page.handleJavaScriptDialog requests, session and call
    origin,     \* Chrome: session and causing call (or 0) of each dialog so far
    performed   \* Chrome: the calls each page has begun to perform

toolVars == <<pc, tool, sess, step, call, opened, got, found, last>>
loopVars == <<loop, held, taken>>
chromeVars == <<showing, executing, queue, answers, origin, performed>>
vars == <<dialogs, waiters, toolVars, loopVars, wire, chromeVars>>

\* How a tool makes its CDP calls: "guarded" through callGuarded, whose dialog
\* becomes a note on a successful result; "renderer" through rendererCall, whose
\* dialog becomes a dialog_open error; "plain" through client.Call.
Script == [
    press_key |-> <<"guarded", "guarded">>,
    click     |-> <<"renderer", "guarded">>,
    fill      |-> <<"renderer", "renderer">>,
    drag      |-> <<"renderer", "plain">>,
    handle_dialog |-> <<"answer">> ]

ASSUME DialogGuardAssumption ==
    Tools \subseteq DOMAIN Script /\ MaxCalls \in Nat /\ MaxDialogs \in Nat

NoResult == [tool |-> "none", sess |-> "none", kind |-> "none", dialog |-> 0, call |-> 0]

Init ==
    /\ dialogs = [s \in Sessions |-> 0] /\ waiters = {}
    /\ pc = "idle" /\ tool = "none" /\ sess = "none"
    /\ step = 0 /\ call = 0 /\ opened = 0 /\ got = "none" /\ found = 0
    /\ last = NoResult
    /\ loop = "read" /\ held = [dialog |-> 0, sess |-> "none"] /\ taken = {}
    /\ wire = <<>>
    /\ showing = [s \in Sessions |-> 0]
    /\ executing = [s \in Sessions |-> 0]
    /\ queue = [s \in Sessions |-> <<>>]
    /\ answers = {} /\ origin = <<>> /\ performed = {}

-----------------------------------------------------------------------------
(* The tool goroutine *)

How == Script[tool][step]

Entry(t, i) ==
    CASE Script[t][i] = "plain" -> "send"
      [] Script[t][i] = "answer" -> "look"
      [] OTHER -> "check"

Start(t, s) ==
    /\ pc = "idle" /\ call + Len(Script[t]) <= MaxCalls
    /\ tool' = t /\ sess' = s /\ step' = 1
    /\ pc' = Entry(t, 1)
    /\ UNCHANGED <<dialogs, waiters, call, opened, got, found, last, loopVars, wire, chromeVars>>

\* c is the call the result is about, 0 when it was never made.
Finish(kind, dialog, c) ==
    /\ pc' = "idle"
    /\ last' = [tool |-> tool, sess |-> sess, kind |-> kind, dialog |-> dialog, call |-> c]

\* A dialog ends the tool: with a note or with an error.
Interrupted(dialog, c) == Finish(IF How = "guarded" THEN "note" ELSE "dialog_open", dialog, c)

\* callGuarded: first the dialog left open by an earlier action ...
CheckDialog ==
    /\ pc = "check"
    /\ IF dialogs[sess] # 0
       THEN Interrupted(dialogs[sess], 0)
       ELSE pc' = "register" /\ UNCHANGED last
    /\ UNCHANGED <<dialogs, waiters, tool, sess, step, call, opened, got, found,
                   loopVars, wire, chromeVars>>

\* Variant: the call goes out with no waiter registered.
WithNoWaiter == waiters

WithWaiter == waiters \cup {<<sess, call + 1>>}

\* ... then the waiter ...
AddWaiter ==
    /\ pc = "register"
    /\ waiters' = WithWaiter
    /\ pc' = "send"
    /\ UNCHANGED <<dialogs, tool, sess, step, call, opened, got, found, last,
                   loopVars, wire, chromeVars>>

\* ... then the call, in a goroutine of its own.
Send ==
    /\ pc = "send"
    /\ call' = call + 1
    /\ queue' = [queue EXCEPT ![sess] = Append(@, call + 1)]
    /\ pc' = "await"
    /\ UNCHANGED <<dialogs, waiters, tool, sess, step, opened, got, found, last, loopVars, wire,
                   showing, executing, answers, origin, performed>>

RemoveWaiter == waiters' = waiters \ {<<sess, call>>}

\* The reply wins the select: an error ends the tool, a result leads to its
\* next call, or to its end.
GotReply ==
    /\ pc = "await" /\ got # "none"
    /\ RemoveWaiter
    /\ got' = "none" /\ opened' = 0
    /\ IF got = "ok" /\ step < Len(Script[tool])
       THEN /\ step' = step + 1
            /\ pc' = Entry(tool, step + 1)
            /\ UNCHANGED last
       ELSE /\ Finish(IF got = "ok" THEN "done" ELSE "failed", 0, call)
            /\ UNCHANGED step
    /\ UNCHANGED <<dialogs, tool, sess, call, found, loopVars, wire, chromeVars>>

\* The opening event wins: the call is abandoned.
GotOpened ==
    /\ pc = "await" /\ opened # 0
    /\ RemoveWaiter
    /\ Interrupted(opened, call)
    /\ got' = "none" /\ opened' = 0
    /\ UNCHANGED <<dialogs, tool, sess, step, call, found, loopVars, wire, chromeVars>>

Deadline == pc \in {"await", "answering"}

\* The deadline wins: the call is abandoned, and may still be performed.
Timeout ==
    /\ Deadline
    /\ RemoveWaiter
    /\ Finish("timeout", 0, call)
    /\ got' = "none" /\ opened' = 0
    /\ UNCHANGED <<dialogs, tool, sess, step, call, found, loopVars, wire, chromeVars>>

\* handle_dialog: is a dialog recorded?
LookForDialog ==
    /\ pc = "look"
    /\ IF dialogs[sess] = 0
       THEN Finish("dialog_not_open", 0, 0) /\ UNCHANGED found
       ELSE found' = dialogs[sess] /\ pc' = "answer" /\ UNCHANGED last
    /\ UNCHANGED <<dialogs, waiters, tool, sess, step, call, opened, got, loopVars, wire, chromeVars>>

AnswerDialog ==
    /\ pc = "answer"
    /\ call' = call + 1
    /\ answers' = answers \cup {<<sess, call + 1>>}
    /\ pc' = "answering"
    /\ UNCHANGED <<dialogs, waiters, tool, sess, step, opened, got, found, last, loopVars, wire,
                   showing, executing, queue, origin, performed>>

AnswerReplied ==
    /\ pc = "answering" /\ got # "none"
    /\ got' = "none"
    /\ IF got = "ok"
       THEN pc' = "forget" /\ UNCHANGED last
       ELSE Finish("failed", found, call)
    /\ UNCHANGED <<dialogs, waiters, tool, sess, step, call, opened, found, loopVars, wire, chromeVars>>

\* Variant: the record of a closed dialog is left alone.
StillRecorded(s) == dialogs

Unrecorded(s) == [dialogs EXCEPT ![s] = 0]

\* handle_dialog drops whatever record the session has by now.
ForgetDialog ==
    /\ pc = "forget"
    /\ dialogs' = Unrecorded(sess)
    /\ Finish("handled", found, call)
    /\ UNCHANGED <<waiters, tool, sess, step, call, opened, got, found, loopVars, wire, chromeVars>>

-----------------------------------------------------------------------------
(* The read loop *)

\* handleCollectorEvent, Page.javascriptDialogOpening.
CollectOpening ==
    /\ loop = "read" /\ wire # <<>> /\ Head(wire).kind = "opening"
    /\ dialogs' = [dialogs EXCEPT ![Head(wire).sess] = Head(wire).n]
    /\ held' = [dialog |-> Head(wire).n, sess |-> Head(wire).sess]
    /\ loop' = "take"
    /\ wire' = Tail(wire)
    /\ UNCHANGED <<waiters, toolVars, taken, chromeVars>>

\* handleCollectorEvent, Page.javascriptDialogClosed.
CollectClosed ==
    /\ loop = "read" /\ wire # <<>> /\ Head(wire).kind = "closed"
    /\ dialogs' = Unrecorded(Head(wire).sess)
    /\ wire' = Tail(wire)
    /\ UNCHANGED <<waiters, toolVars, loopVars, chromeVars>>

WaitersOf(s) == {w \in waiters : w[1] = s}

\* dispatchEvent takes the waiters of this session out of the map ...
TakeWaiters ==
    /\ loop = "take"
    /\ taken' = WaitersOf(held.sess)
    /\ waiters' = waiters \ taken'
    /\ loop' = "notify"
    /\ UNCHANGED <<dialogs, toolVars, held, wire, chromeVars>>

\* ... and fills their channels.  The channel of a guard that gave up is
\* nobody's any more.
NotifyWaiters ==
    /\ loop = "notify"
    /\ opened' = IF pc \in {"send", "await"} /\ \E w \in taken : w[2] = (IF pc = "send" THEN call + 1 ELSE call)
                 THEN held.dialog ELSE opened
    /\ loop' = "read" /\ taken' = {}
    /\ UNCHANGED <<dialogs, waiters, pc, tool, sess, step, call, got, found, last, held, wire, chromeVars>>

\* Variant: any reply is taken for the one the current call waits for.
AwaitsAny(n) == pc \in {"await", "answering"}

Awaits(n) == pc \in {"await", "answering"} /\ n = call

\* A reply reaches the call that waits for it; that of an abandoned call is
\* discarded by the CDP client (module CdpClient).
ReadReply ==
    /\ loop = "read" /\ wire # <<>> /\ Head(wire).kind \in {"ok", "err"}
    /\ got' = IF Awaits(Head(wire).n) THEN Head(wire).kind ELSE got
    /\ wire' = Tail(wire)
    /\ UNCHANGED <<dialogs, waiters, pc, tool, sess, step, call, opened, found, last, loopVars, chromeVars>>

-----------------------------------------------------------------------------
(* Chrome *)

Event(kind, s, n) == [kind |-> kind, sess |-> s, n |-> n]

ShowDialog(s, by) ==
    /\ Len(origin) < MaxDialogs
    /\ origin' = Append(origin, [sess |-> s, by |-> by])
    /\ showing' = [showing EXCEPT ![s] = Len(origin) + 1]
    /\ wire' = Append(wire, Event("opening", s, Len(origin) + 1))

\* The page starts the next call, which answers at once or opens a dialog.
Perform(s) ==
    /\ showing[s] = 0 /\ executing[s] = 0 /\ queue[s] # <<>>
    /\ performed' = performed \cup {Head(queue[s])}
    /\ queue' = [queue EXCEPT ![s] = Tail(@)]
    /\ \/ /\ \E kind \in {"ok", "err"} : wire' = Append(wire, Event(kind, s, Head(queue[s])))
          /\ UNCHANGED <<showing, executing, origin>>
       \/ /\ ShowDialog(s, Head(queue[s]))
          /\ executing' = [executing EXCEPT ![s] = Head(queue[s])]
    /\ UNCHANGED <<dialogs, waiters, toolVars, loopVars, answers>>

\* A call a dialog held up goes on once the dialog is gone, and answers.
Resume(s) ==
    /\ showing[s] = 0 /\ executing[s] # 0
    /\ wire' = Append(wire, Event("ok", s, executing[s]))
    /\ executing' = [executing EXCEPT ![s] = 0]
    /\ UNCHANGED <<dialogs, waiters, toolVars, loopVars, showing, queue, answers, origin, performed>>

\* A script of the page opens a dialog, inside a call it resumed or by itself.
PageOpensDialog(s) ==
    /\ showing[s] = 0
    /\ ShowDialog(s, executing[s])
    /\ UNCHANGED <<dialogs, waiters, toolVars, loopVars, executing, queue, answers, performed>>

\* Page.handleJavaScriptDialog is served even though the page is blocked.
ServeAnswer(s, c) ==
    /\ <<s, c>> \in answers
    /\ answers' = answers \ {<<s, c>>}
    /\ IF showing[s] = 0
       THEN wire' = Append(wire, Event("err", s, c)) /\ UNCHANGED showing
       ELSE /\ showing' = [showing EXCEPT ![s] = 0]
            /\ wire' \in {wire \o <<Event("closed", s, 0), Event("ok", s, c)>>,
                          wire \o <<Event("ok", s, c), Event("closed", s, 0)>>}
    /\ UNCHANGED <<dialogs, waiters, toolVars, loopVars, executing, queue, origin, performed>>

\* Somebody at the screen closes it.
UserCloses(s) ==
    /\ showing[s] # 0
    /\ showing' = [showing EXCEPT ![s] = 0]
    /\ wire' = Append(wire, Event("closed", s, 0))
    /\ UNCHANGED <<dialogs, waiters, toolVars, loopVars, executing, queue, answers, origin, performed>>

-----------------------------------------------------------------------------
ToolStep ==
    \/ CheckDialog \/ AddWaiter \/ Send \/ GotReply \/ GotOpened \/ Timeout
    \/ LookForDialog \/ AnswerDialog \/ AnswerReplied \/ ForgetDialog

LoopStep == CollectOpening \/ CollectClosed \/ TakeWaiters \/ NotifyWaiters \/ ReadReply

ChromeStep(s) ==
    \/ Perform(s) \/ Resume(s) \/ PageOpensDialog(s) \/ UserCloses(s)
    \/ \E c \in 1..MaxCalls : ServeAnswer(s, c)

Next ==
    \/ \E t \in Tools, s \in Sessions : Start(t, s)
    \/ ToolStep
    \/ LoopStep
    \/ \E s \in Sessions : ChromeStep(s)

Spec == Init /\ [][Next]_vars

\* Both goroutines run whenever they can; the deadline passes.
FairSpec == Spec /\ WF_vars(ToolStep) /\ WF_vars(LoopStep)

-----------------------------------------------------------------------------
(* Properties *)

Kinds == {"none", "done", "note", "dialog_open", "timeout", "dialog_not_open", "failed", "handled"}

\* Every variable keeps its type.
TypeOK ==
    /\ dialogs \in [Sessions -> 0..MaxDialogs] /\ showing \in [Sessions -> 0..MaxDialogs]
    /\ waiters \subseteq Sessions \X (1..MaxCalls) /\ taken \subseteq Sessions \X (1..MaxCalls)
    /\ pc \in {"idle", "check", "register", "send", "await", "look", "answer", "answering", "forget"}
    /\ pc # "idle" => tool \in Tools /\ sess \in Sessions /\ step \in 1..Len(Script[tool])
    /\ call \in 0..MaxCalls /\ opened \in 0..MaxDialogs /\ found \in 0..MaxDialogs
    /\ got \in {"none", "ok", "err"} /\ last.kind \in Kinds
    /\ loop \in {"read", "take", "notify"}
    /\ executing \in [Sessions -> 0..MaxCalls]
    /\ performed \subseteq 1..MaxCalls

AtRest == pc = "idle" /\ loop = "read" /\ wire = <<>>

\* No phantom dialog: once every message is in, a recorded dialog is the one the
\* page shows.  A record that outlived its dialog would make every tool on the
\* page fail with dialog_open, and handle_dialog fail too (collectors.go:137-150).
NoPhantomDialog ==
    AtRest => \A s \in Sessions : dialogs[s] # 0 => dialogs[s] = showing[s]

\* A dialog recorded after the guard registered wakes the guard: the record is
\* written before the waiters are taken, and the waiter is there before the
\* record (dialogguard.go:36-48, manager.go:223-237).  A dialog the guard's own
\* call opened is such a dialog.
GuardHearsItsDialog ==
    /\ pc = "await" /\ How # "plain" /\ loop = "read" /\ got = "none"
    /\ dialogs[sess] # 0 /\ origin[dialogs[sess]].by = call
    => opened # 0

\* A result is about its own call and its own page.  A tool that reports success
\* without a note had its last call performed: the late reply to an abandoned
\* call is not taken for it (dialogguard.go:26-28).  And a dialog it reports, or
\* handle_dialog answers, is the page's: waiters and records go by session.
ResultsAreOwn ==
    /\ last.kind = "done" => last.call \in performed
    /\ last.dialog # 0 => origin[last.dialog].sess = last.sess

\* No guard leaves its waiter behind, however it ends: the map does not grow,
\* and no later event goes to a channel nobody reads (dialogguard.go:37).
NoStaleWaiter == pc = "idle" => waiters = {}

\* One call leaves nothing to the next, and takes nothing from another page
\* (callGuarded, dispatchEvent).
CallsAreSeparate == ResultsAreOwn /\ NoStaleWaiter

\* Every tool ends: the reply, the dialog or the deadline (dialogguard.go:45-54).
ToolEnds == (pc # "idle") ~> (pc = "idle")

\* "every call that can open a dialog races the reply against the dialog-opened
\* event and returns as soon as either arrives" (dialogguard.go:15-17): a tool
\* does not sit waiting behind a dialog that has been recorded.
NoSilentWait ==
    pc = "await" /\ loop = "read" /\ got = "none" /\ dialogs[sess] # 0 => opened # 0

\* The same promise for a call that opens a dialog itself, without asking for
\* luck with the order of events: drag makes such calls plainly (input.go:238).
CallHearsItsDialog ==
    /\ pc = "await" /\ loop = "read" /\ got = "none"
    /\ dialogs[sess] # 0 /\ origin[dialogs[sess]].by = call
    => opened # 0

\* "dialogs tracks the open JavaScript dialog per session" (collectors.go:27).
DialogsTracked ==
    AtRest => \A s \in Sessions : showing[s] # 0 => dialogs[s] # 0

=============================================================================
