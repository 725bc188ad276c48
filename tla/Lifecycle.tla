------------------------------ MODULE Lifecycle ------------------------------
(***************************************************************************)
(* From the first tool call to the end of the process: connecting to Chrome*)
(* on first use (internal/tools/manager.go, internal/browser/browser.go),  *)
(* trying again after a failure, and Shutdown when standard input ends.    *)
(* Launched Chromes are numbered from 1.  Taking part:                     *)
(*   - the main goroutine, which runs one tool at a time and then Shutdown;*)
(*   - background goroutines the read loop starts for paused requests and  *)
(*     screencast frames, which reach for Manager.client on their own;     *)
(*   - Chrome (external), which may fail to come up, exit at any time, or  *)
(*     not react.                                                          *)
(***************************************************************************)
EXTENDS Naturals

CONSTANTS Modes,       (* ways to get a Chrome: subset of {"temp",          *)
                       (* "persistent", "attach"}                           *)
          MaxLaunches, (* bound: Chromes launched                           *)
          MaxBackground(* bound: background goroutines at one time          *)

ASSUME LifecycleAssumption ==
    /\ Modes \subseteq {"temp", "persistent", "attach"}
    /\ MaxLaunches \in Nat /\ MaxBackground \in Nat

Launches == 1..MaxLaunches

VARIABLES
    mode,       \* the configuration: a temporary profile, a kept one, or attach
    pc,         \* the main goroutine
    client,     \* Manager.client: is it set?
    conn,       \* the connection: "none", "open" or "closed"
    launch,     \* the Chrome being launched or in use, 0 for none yet
    proc,       \* each launched Chrome: "none", "starting", "up", "closing", "exited"
    dir,        \* the temporary profile of each: "none", "made", "removed"
    noPipe,     \* launches that failed for want of a pipe
    background, \* background goroutines that have not read Manager.client yet
    asked,      \* Browser.close was sent
    ending,     \* Shutdown has begun
    process     \* this server: "running", "exited" or "crashed"

connVars == <<client, conn>>
launchVars == <<launch, proc, dir, noPipe>>
lifeVars == <<mode, pc, connVars, launchVars, background, asked, ending, process>>

LInit ==
    /\ mode \in Modes
    /\ pc = "idle" /\ client = FALSE /\ conn = "none"
    /\ launch = 0
    /\ proc = [g \in Launches |-> "none"]
    /\ dir = [g \in Launches |-> "none"]
    /\ noPipe = {}
    /\ background = 0 /\ asked = FALSE /\ ending = FALSE
    /\ process = "running"

At(label) == process = "running" /\ pc = label
Go(label) == pc' = label

-----------------------------------------------------------------------------
(* ensure, productionConnect, Launch *)

\* A tool that finds no client connects first.
BeginConnect ==
    /\ At("idle") /\ ~client /\ ~ending
    /\ \/ mode = "attach" /\ Go("dial")
       \/ mode # "attach" /\ launch < MaxLaunches /\ Go("profile")
    /\ UNCHANGED <<mode, connVars, launchVars, background, asked, ending, process>>

\* No executable, no usable profile: nothing was made yet.
ConnectFails ==
    /\ At("profile") \/ (At("dial") /\ mode = "attach")
    /\ Go("idle")
    /\ UNCHANGED <<mode, connVars, launchVars, background, asked, ending, process>>

MakeProfile ==
    /\ At("profile")
    /\ launch' = launch + 1
    /\ dir' = IF mode = "temp" THEN [dir EXCEPT ![launch'] = "made"] ELSE dir
    /\ Go("pipe")
    /\ UNCHANGED <<mode, connVars, proc, noPipe, background, asked, ending, process>>

\* cmd.StderrPipe fails: the one exit that leaves the temporary profile behind.
PipeFails ==
    /\ At("pipe")
    /\ noPipe' = noPipe \cup {launch}
    /\ Go("idle")
    /\ UNCHANGED <<mode, connVars, launch, proc, dir, background, asked, ending, process>>

RemoveDir(g) == dir' = IF dir[g] = "made" THEN [dir EXCEPT ![g] = "removed"] ELSE dir

StartFails ==
    /\ At("pipe")
    /\ RemoveDir(launch)
    /\ Go("idle")
    /\ UNCHANGED <<mode, connVars, launch, proc, noPipe, background, asked, ending, process>>

StartChrome ==
    /\ At("pipe")
    /\ proc' = [proc EXCEPT ![launch] = "starting"]
    /\ Go("await")
    /\ UNCHANGED <<mode, connVars, launch, dir, noPipe, background, asked, ending, process>>

\* The DevTools endpoint appears on stderr.
EndpointSeen ==
    /\ At("await") /\ proc[launch] = "up"
    /\ Go("dial")
    /\ UNCHANGED <<mode, connVars, launchVars, background, asked, ending, process>>

\* Variant: the process is not killed when its endpoint did not appear.
LetLive(g) == UNCHANGED proc

Kill(g) == proc' = [proc EXCEPT ![g] = "exited"]

\* stderr ends without an endpoint, or launchTimeout passes: kill, wait, remove.
NoEndpoint ==
    /\ At("await")
    /\ Kill(launch)
    /\ RemoveDir(launch)
    /\ Go("idle")
    /\ UNCHANGED <<mode, connVars, launch, noPipe, background, asked, ending, process>>

Dial ==
    /\ At("dial")
    /\ launch > 0 => proc[launch] = "up"
    /\ client' = TRUE /\ conn' = "open"
    /\ Go("idle")
    /\ UNCHANGED <<mode, launchVars, background, asked, ending, process>>

CloseIt == Go("close")

\* ws.Dial fails after a launch: Browser.Close, and the tool with an error.
DialFails ==
    /\ At("dial") /\ mode # "attach"
    /\ CloseIt
    /\ UNCHANGED <<mode, connVars, launchVars, background, asked, ending, process>>

-----------------------------------------------------------------------------
(* Browser.Close *)

After == IF ending THEN "end" ELSE "idle"

\* Variant: the profile goes first.
RemoveUnwaited(g) == TRUE

MayRemove(g) == proc[g] = "exited"

\* Chrome has exited, by itself or killed: its temporary profile is removed.
Exited ==
    /\ At("close") /\ MayRemove(launch)
    /\ RemoveDir(launch)
    /\ Go(After)
    /\ UNCHANGED <<mode, connVars, launch, proc, noPipe, background, asked, ending, process>>

\* closeGrace passes.
GracePasses ==
    /\ At("close") /\ proc[launch] # "exited"
    /\ Kill(launch)
    /\ UNCHANGED <<mode, pc, connVars, launch, dir, noPipe, background, asked, ending, process>>

-----------------------------------------------------------------------------
(* Shutdown *)

\* Standard input ends between two tools; from here Manager.client is nil.
BeginShutdown ==
    /\ At("idle") /\ ~ending
    /\ ending' = TRUE
    /\ client' = FALSE
    /\ Go(IF client THEN "ask" ELSE "end")
    /\ UNCHANGED <<mode, conn, launchVars, background, asked, process>>

Launched == mode # "attach"

\* Browser.close, answered or given up after 3 s; Chrome may not react.
AskToClose ==
    /\ At("ask")
    /\ asked' = Launched
    /\ \/ /\ launch \in Launches /\ proc[launch] = "up"
          /\ proc' = [proc EXCEPT ![launch] = "closing"]
       \/ UNCHANGED proc
    /\ Go("hangup")
    /\ UNCHANGED <<mode, connVars, launch, dir, noPipe, background, ending, process>>

ThenClose == IF mode = "attach" THEN "end" ELSE "close"

HangUp ==
    /\ At("hangup")
    /\ conn' = "closed"
    /\ Go(ThenClose)
    /\ UNCHANGED <<mode, client, launchVars, background, asked, ending, process>>

\* main returns, whatever goroutines are left.
Exit ==
    /\ At("end")
    /\ process' = "exited"
    /\ UNCHANGED <<mode, pc, connVars, launchVars, background, asked, ending>>

-----------------------------------------------------------------------------
(* Background goroutines *)

\* The read loop handles an event of an attached page.
EventArrives ==
    /\ process = "running" /\ conn = "open"
    /\ background < MaxBackground
    /\ background' = background + 1
    /\ UNCHANGED <<mode, pc, connVars, launchVars, asked, ending, process>>

\* The goroutine calls a method of Manager.client, which panics when it is nil.
\* A call on a connection that is gone only fails.
BackgroundCalls ==
    /\ process = "running" /\ background > 0
    /\ background' = background - 1
    /\ process' = IF client THEN "running" ELSE "crashed"
    /\ UNCHANGED <<mode, pc, connVars, launchVars, asked, ending>>

-----------------------------------------------------------------------------
(* Chrome *)

ChromeComesUp(g) ==
    /\ proc[g] = "starting"
    /\ proc' = [proc EXCEPT ![g] = "up"]
    /\ UNCHANGED <<mode, pc, connVars, launch, dir, noPipe, background, asked, ending, process>>

ChromeExits(g) ==
    /\ proc[g] \in {"starting", "up", "closing"}
    /\ proc' = [proc EXCEPT ![g] = "exited"]
    /\ conn' = IF conn = "open" THEN "closed" ELSE conn
    /\ UNCHANGED <<mode, pc, client, launch, dir, noPipe, background, asked, ending, process>>

\* An attached Chrome is not ours, and exits when its user likes.
AttachedExits ==
    /\ mode = "attach" /\ conn = "open"
    /\ conn' = "closed"
    /\ UNCHANGED <<mode, pc, client, launchVars, background, asked, ending, process>>

Main ==
    \/ BeginConnect \/ ConnectFails \/ MakeProfile \/ PipeFails \/ StartFails \/ StartChrome
    \/ EndpointSeen \/ NoEndpoint \/ Dial \/ DialFails \/ Exited \/ GracePasses
    \/ AskToClose \/ HangUp \/ Exit

LNext ==
    \/ Main \/ BeginShutdown
    \/ EventArrives \/ BackgroundCalls \/ AttachedExits
    \/ \E g \in Launches : ChromeComesUp(g) \/ ChromeExits(g)

LSpec == LInit /\ [][LNext]_lifeVars

-----------------------------------------------------------------------------
(* Properties *)

LTypeOK ==
    /\ mode \in Modes
    /\ pc \in {"idle", "profile", "pipe", "await", "dial", "close", "ask", "hangup", "end"}
    /\ client \in BOOLEAN /\ ending \in BOOLEAN /\ asked \in BOOLEAN
    /\ conn \in {"none", "open", "closed"}
    /\ launch \in 0..MaxLaunches
    /\ proc \in [Launches -> {"none", "starting", "up", "closing", "exited"}]
    /\ dir \in [Launches -> {"none", "made", "removed"}]
    /\ noPipe \subseteq Launches
    /\ background \in 0..MaxBackground
    /\ process \in {"running", "exited", "crashed"}
    /\ client => ~ending /\ conn # "none"

Living == {g \in Launches : proc[g] \in {"starting", "up", "closing"}}

\* However often connecting fails and is tried again, there is never a second
\* Chrome: on a persistent profile it would find the profile in use
\* (Launch, productionConnect).
OneChrome == \A g, h \in Living : g = h

\* A temporary profile is removed only after the Chrome that writes it is gone
\* (Browser.Close).
RemovedAfterExit == \A g \in Launches : dir[g] = "removed" => g \notin Living

\* Between tools, what failed attempts to connect made is gone again, Chromes and
\* temporary profiles, but for a launch that found no pipe (Launch).
FailuresCleanUp ==
    process = "running" /\ pc = "idle" /\ ~client =>
        /\ Living = {}
        /\ \A g \in Launches \ noPipe : dir[g] # "made"

\* A process that ends normally takes its Chrome and its temporary profile with
\* it, and never asks a Chrome it only attached to to close (Shutdown).
ExitLeavesNothing ==
    process = "exited" =>
        /\ Living = {}
        /\ \A g \in Launches \ noPipe : dir[g] # "made"
        /\ mode = "attach" => ~asked

\* Whatever fails, on the way to Chrome or out of it, no Chrome and no temporary
\* profile of this process is left or doubled (Launch, productionConnect, Shutdown).
NothingLeft == OneChrome /\ FailuresCleanUp /\ ExitLeavesNothing

\* What manager.go:198-199 says of Shutdown: "a launched Chrome is asked to close
\* gracefully, then killed", so none survives this process.
ChromeGoesWithUs == process # "running" => Living = {}
=============================================================================
