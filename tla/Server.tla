------------------------------- MODULE Server -------------------------------
(***************************************************************************)
(* The process around Lifecycle: lines of JSON-RPC on standard input, one  *)
(* handled at a time (internal/mcpserver, internal/transport, cmd/root.go),*)
(* tools that connect to Chrome on first use, and the end of the process,  *)
(* orderly or not.  A request's number stands for its id.  Clients and     *)
(* operating systems (external) close standard output, and kill.  Chrome   *)
(* and the client may also fall silent: be there, and neither say anything *)
(* nor take what they are sent.                                            *)
(***************************************************************************)
EXTENDS Lifecycle, Sequences

CONSTANT MaxRead   (* bound: lines read                                     *)

ASSUME ServerAssumption == MaxRead \in Nat

\* What a line can be: no JSON-RPC message; one of another version; a method it
\* has, or has not; a tools/call whose parameters or tool are wrong, or a right one.
Kinds == {"garbage", "version", "initialize", "list", "unknown", "params", "notool", "call"}
Null == 0

VARIABLES
    serve,   \* Serve: "reading", "handling", "connecting", "calling" or "stopped"
    line,    \* the line being handled: its kind, and its id or Null
    read,    \* lines read
    due,     \* ids of the answers owed so far, in order
    out,     \* ids of the answers written, in order
    stdout,  \* is there a reader of standard output?
    silent,  \* who has fallen silent, of Peers
    status   \* the exit status Serve's end leads to

Peers == {"chrome", "client"}

serverVars == <<serve, line, read, due, out, stdout, silent, status>>
processVars == <<lifeVars, serverVars>>

NoLine == [kind |-> "garbage", id |-> Null]

SInit ==
    /\ LInit
    /\ serve = "reading" /\ line = NoLine /\ read = 0
    /\ due = <<>> /\ out = <<>>
    /\ stdout = TRUE /\ silent = {} /\ status = 0

Serving(label) == process = "running" /\ pc = "idle" /\ serve = label

-----------------------------------------------------------------------------
(* Reading *)

\* A line whose id is missing, or null, is a notification; of a line that is no
\* message the id is not known.  Both the latter and a wrong version are answered.
Owes(kind, id) == kind \in {"garbage", "version"} \/ id # Null

Read(kind, id) ==
    /\ Serving("reading") /\ read < MaxRead
    /\ kind = "garbage" => id = Null
    /\ serve' = "handling"
    /\ line' = [kind |-> kind, id |-> id]
    /\ read' = read + 1
    /\ due' = IF Owes(kind, id) THEN Append(due, id) ELSE due
    /\ UNCHANGED <<lifeVars, out, stdout, silent, status>>

\* Variant: a line that is too long ends main there and then.
ExitNow == process' = "exited" /\ UNCHANGED <<mode, pc, connVars, launchVars, background, asked, ending>>

Deferred == BeginShutdown

\* The end of standard input; or a line over 1 MB, which ends Serve as well.
ReadEnds(s) ==
    /\ Serving("reading")
    /\ serve' = "stopped" /\ status' = s
    /\ IF s = 0 THEN BeginShutdown ELSE Deferred
    /\ UNCHANGED <<line, read, due, out, stdout, silent>>

-----------------------------------------------------------------------------
(* Answering *)

\* A write nobody reads any more is more than an error: a Go process that writes
\* to a broken standard output is ended by SIGPIPE.
Write ==
    /\ serve' = "reading" /\ line' = NoLine
    /\ out' = Append(out, line.id)
    /\ process' = IF stdout THEN process ELSE "crashed"

Reply == Write /\ UNCHANGED <<mode, pc, connVars, launchVars, background, asked, ending, read, due, stdout, silent, status>>

\* Variant: what it cannot do, it says so, to notifications too.
NoneForKnown == line.id = Null /\ line.kind \in {"initialize", "list", "call"}

IsNotification == line.kind \notin {"garbage", "version"} /\ line.id = Null

Ignore ==
    /\ Serving("handling") /\ IsNotification
    /\ serve' = "reading" /\ line' = NoLine
    /\ UNCHANGED <<lifeVars, read, due, out, stdout, silent, status>>

\* All that needs no tool, and a tool that finds its arguments wrong.
Handle ==
    /\ Serving("handling") /\ ~IsNotification
    /\ Reply

-----------------------------------------------------------------------------
(* A tool *)

IsCall == Serving("handling") /\ ~IsNotification /\ line.kind = "call"

\* ensure, with a client or without one.
CallTool ==
    /\ IsCall
    /\ \/ client /\ serve' = "calling" /\ UNCHANGED lifeVars
       \/ BeginConnect /\ serve' = "connecting"
    /\ UNCHANGED <<line, read, due, out, stdout, silent, status>>

Connecting ==
    /\ serve \in {"connecting", "stopped"}
    /\ Main /\ pc # "idle"
    /\ UNCHANGED serverVars

Connected ==
    /\ Serving("connecting") /\ client
    /\ serve' = "calling"
    /\ UNCHANGED <<lifeVars, line, read, due, out, stdout, silent, status>>

CannotConnect ==
    /\ Serving("connecting") /\ ~client
    /\ Reply

\* Chrome answers the tool's calls, one way or another.
ChromeAnswers ==
    /\ Serving("calling") /\ conn = "open"
    /\ Reply

\* Variant: calls of a connection that is lost are forgotten.
NeverFails == FALSE

ConnectionLost == conn = "closed"

\* The calls of a lost connection fail; Manager.client stays as it is, and so
\* those of every later tool do.
CallFails ==
    /\ Serving("calling") /\ ConnectionLost
    /\ Reply

-----------------------------------------------------------------------------
(* Others *)

ReaderGoes ==
    /\ stdout /\ process = "running"
    /\ stdout' = FALSE
    /\ UNCHANGED <<lifeVars, serve, line, read, due, out, silent, status>>

FallsSilent(peer) ==
    /\ process = "running" /\ peer \notin silent
    /\ silent' = silent \cup {peer}
    /\ UNCHANGED <<lifeVars, serve, line, read, due, out, stdout, status>>

\* No signal is handled.
Killed ==
    /\ process = "running"
    /\ process' = "crashed"
    /\ UNCHANGED <<mode, pc, connVars, launchVars, background, asked, ending, serverVars>>

Others ==
    \/ EventArrives \/ BackgroundCalls \/ AttachedExits
    \/ \E g \in Launches : ChromeComesUp(g) \/ ChromeExits(g)

Serve == Ignore \/ Handle \/ CallTool \/ Connecting \/ Connected \/ CannotConnect \/ CallFails

SNext ==
    \/ \E kind \in Kinds, id \in {Null, read + 1} : Read(kind, id)
    \/ \E s \in {0, 1} : ReadEnds(s)
    \/ Serve \/ ChromeAnswers
    \/ ReaderGoes \/ Killed \/ \E peer \in Peers : FallsSilent(peer)
    \/ Others /\ UNCHANGED serverVars

SSpec == SInit /\ [][SNext]_processVars

\* Where a silent Chrome keeps the main goroutine, for no timer covers it: the
\* handshake and the attach discovery run under a context without a deadline
\* (root.go:219, ws.go:78-106, browser.go:311-315), so do calls made on the way to
\* a page (manager.go:281), and the writes of Browser.close and of the close
\* frame have none (client.go:132, ws.go:289-290).  Its exit ends all of them.
ChromeKeeps ==
    /\ "chrome" \in silent
    /\ \/ pc = "dial" /\ (launch > 0 => proc[launch] # "exited")
       \/ conn = "open" /\ (pc \in {"ask", "hangup"} \/ serve = "calling")

\* A client that stays without reading keeps every write to standard output.
ClientKeeps == "client" \in silent /\ stdout /\ serve # "stopped"

Kept == ChromeKeeps \/ ClientKeeps

\* The main goroutine goes on, and Chrome answers, unless it is kept.
SFairSpec == SSpec /\ WF_processVars((Serve \/ ChromeAnswers) /\ ~Kept)

-----------------------------------------------------------------------------
(* Properties *)

STypeOK ==
    /\ LTypeOK
    /\ serve \in {"reading", "handling", "connecting", "calling", "stopped"}
    /\ line \in [kind : Kinds, id : 0..MaxRead]
    /\ read \in 0..MaxRead
    /\ due \in Seq(0..MaxRead) /\ out \in Seq(0..MaxRead)
    /\ stdout \in BOOLEAN /\ silent \subseteq Peers /\ status \in {0, 1}
    /\ pc # "idle" => serve \in {"connecting", "stopped"}
    /\ ending => serve = "stopped"

\* When the next line is read every request so far has one answer, in the order
\* they came, whatever became of its tool or of Chrome, and no notification has
\* one (handle, handleToolsCall).
EachAnsweredOnce == serve \in {"reading", "stopped"} => out = due

\* No request waits for ever, though connecting may fail and Chrome may exit while
\* a tool works, unless for a Chrome or a client that is there and silent; and
\* once that one is gone the request is answered after all (handleToolsCall,
\* ensure).
RequestsAnswered ==
    serve \in {"handling", "connecting", "calling"} ~>
        serve \in {"reading", "stopped"} \/ process # "running" \/ Kept

\* The end of standard input and a line that is too long end the process.  It
\* waits for a Chrome that does not close no longer than its timers, except that a
\* silent one can keep it from asking and from hanging up while it lives (Serve,
\* serve, Shutdown).
StopEnds == serve = "stopped" ~> process # "running" \/ Kept
=============================================================================
