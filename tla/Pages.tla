-------------------------------- MODULE Pages --------------------------------
(***************************************************************************)
(* The manager's page bookkeeping: the page list and the selection, the    *)
(* session each page is driven through, and the snapshot uids, with the    *)
(* tools that read or change them (internal/tools/pages.go, manager.go,    *)
(* debug.go, input.go).  The server runs one tool at a time, and one       *)
(* action here is one CDP call of that tool with what the tool does when   *)
(* the reply arrives; Chrome (external) opens, closes and stalls tabs      *)
(* between any two of them.  Tabs and sessions are numbered as they        *)
(* appear, 0 is none.  Which local files a page may show (the grants) is   *)
(* left out: a refusal is an outcome any use of the selected page can have.*)
(***************************************************************************)
EXTENDS Naturals, FiniteSets, Sequences, SequencesExt

CONSTANTS MaxTargets,   (* bound: tabs ever opened                           *)
          MaxSnapshots, (* bound: snapshots taken                            *)
          MaxHung,      (* bound: tabs whose renderer stops answering        *)
          Viewport,     (* whether the configuration names a viewport        *)
          Tools         (* the tools the client calls                        *)

ASSUME PagesAssumption ==
    /\ MaxTargets \in Nat \ {0} /\ MaxSnapshots \in Nat /\ MaxHung \in Nat
    /\ Viewport \in BOOLEAN
    /\ Tools \subseteq {"list_pages", "select_page", "close_page", "new_page",
                        "take_snapshot", "click", "evaluate_script", "wait_for"}

VARIABLES
    pages,       \* Manager.pages: what is known of each tab, in listing order
    selected,    \* Manager.selected
    pageEnabled, \* Manager.pageEnabled: sessions that are set up
    snapshotSeq, \* Manager.snapshotSeq
    uids,        \* Manager.uids: the uids in force, each with its session
    run,         \* the tool running: where it is, its argument and its page
    listed,      \* the tabs as list_pages reported them, while the client acts on that
    targets,     \* Chrome: the tabs that exist
    opened,      \* Chrome: tabs opened so far
    hung,        \* Chrome: tabs whose renderer does not answer
    sessions     \* Chrome: the tab and the installed set-up of each session

serverVars == <<pages, selected, pageEnabled, snapshotSeq, uids>>
chromeVars == <<targets, opened, hung, sessions>>
vars == <<serverVars, run, listed, chromeVars>>

Targets == 1..MaxTargets
Sessions == DOMAIN sessions

Idle == [tool |-> "none", at |-> "idle", idx |-> 0, uid |-> <<>>, page |-> 0, step |-> 0]

Init ==
    /\ pages = <<>> /\ selected = 0
    /\ pageEnabled = {}
    /\ snapshotSeq = 0 /\ uids = {}
    /\ run = Idle /\ listed = <<>>
    /\ targets = {1} /\ opened = 1 /\ hung = {} /\ sessions = <<>>

Go(at) == run' = [run EXCEPT !.at = at]
GoTo(at, t) == run' = [run EXCEPT !.at = at, !.page = t]
End == run' = Idle

\* A session answers while its tab exists and its renderer is not stalled; calls
\* to a session whose tab is gone fail.
Alive(s) == sessions[s].target \in targets
Answers(s) == Alive(s) /\ sessions[s].target \notin hung

-----------------------------------------------------------------------------
(* refreshPagesLocked *)

Known(ps) == {ps[i].target : i \in DOMAIN ps}

PageOf(t) == CHOOSE i \in DOMAIN pages : pages[i].target = t
SessionOf(t) == pages[PageOf(t)].session

\* Variant: nothing of the old list is kept, sessions included.
Forgotten(t) == [target |-> t, session |-> 0]

\* A tab that was known keeps its session; one that is new has none yet.
PageState(t) == [target |-> t, session |-> IF t \in Known(pages) THEN SessionOf(t) ELSE 0]

\* Tabs that were known stay in their order, and new ones come after them.
Before(a, b) == a \in Known(pages) /\ (b \in Known(pages) => PageOf(a) < PageOf(b))

\* The lists a refresh can end with: Chrome reports its tabs in any order.
Refreshed ==
    LET Orders == {o \in SetToSeqs(targets) : \A i, j \in DOMAIN o : Before(o[i], o[j]) => i < j}
    IN  {[i \in DOMAIN o |-> PageState(o[i])] : o \in Orders}

\* The selection stays on its tab while that tab is listed.
FixSelection(ps) ==
    IF selected \in Known(ps) THEN selected
    ELSE IF ps = <<>> THEN 0 ELSE ps[1].target

-----------------------------------------------------------------------------
(* list_pages, select_page, close_page, new_page *)

Begin(tool, at, i, u) ==
    /\ run = Idle /\ tool \in Tools
    /\ run' = [tool |-> tool, at |-> at, idx |-> i, uid |-> u, page |-> 0, step |-> 0]
    /\ listed' = IF tool = "close_page" THEN listed ELSE <<>>
    /\ UNCHANGED <<serverVars, chromeVars>>

ListPages ==
    /\ run.at = "refresh" /\ run.tool = "list_pages"
    /\ \E ps \in Refreshed :
           /\ pages' = ps
           /\ selected' = FixSelection(ps)
           /\ listed' = [i \in DOMAIN ps |-> ps[i].target]
    /\ End
    /\ UNCHANGED <<pageEnabled, snapshotSeq, uids, chromeVars>>

SelectPage ==
    /\ run.at = "refresh" /\ run.tool = "select_page"
    /\ \E ps \in Refreshed :
           /\ pages' = ps
           /\ selected' = IF run.idx \in DOMAIN ps THEN ps[run.idx].target ELSE FixSelection(ps)
    /\ End
    /\ UNCHANGED <<pageEnabled, snapshotSeq, uids, listed, chromeVars>>

ClosePage ==
    /\ run.at = "refresh" /\ run.tool = "close_page"
    /\ \E ps \in Refreshed :
           /\ pages' = ps
           /\ selected' = FixSelection(ps)
           /\ IF run.idx \in DOMAIN ps
              THEN GoTo("closeTarget", ps[run.idx].target)
              ELSE End
    /\ UNCHANGED <<pageEnabled, snapshotSeq, uids, listed, chromeVars>>

\* Chrome answers before the tab is gone, so the tab may still be listed.
CloseTarget ==
    /\ run.at = "closeTarget" /\ run.page \in targets
    /\ targets' \in {targets, targets \ {run.page}}
    /\ pageEnabled' = pageEnabled \ {SessionOf(run.page)}
    /\ Go("refreshClosed")
    /\ UNCHANGED <<pages, selected, snapshotSeq, uids, listed, opened, hung, sessions>>

CloseDone ==
    /\ run.at = "refreshClosed"
    /\ \E ps \in Refreshed :
           /\ pages' = ps
           /\ selected' = FixSelection(ps)
    /\ End
    /\ UNCHANGED <<pageEnabled, snapshotSeq, uids, listed, chromeVars>>

CreateTarget ==
    /\ run.at = "create" /\ opened < MaxTargets
    /\ opened' = opened + 1
    /\ targets' = targets \cup {opened'}
    /\ GoTo("refresh", opened')
    /\ UNCHANGED <<serverVars, listed, hung, sessions>>

\* The new tab is selected even when it is gone already.
NewPage ==
    /\ run.at = "refresh" /\ run.tool = "new_page"
    /\ \E ps \in Refreshed :
           /\ pages' = ps
           /\ selected' = run.page
           /\ IF run.page \in Known(ps) THEN Go("attach") ELSE End
    /\ UNCHANGED <<pageEnabled, snapshotSeq, uids, listed, chromeVars>>

-----------------------------------------------------------------------------
(* selectedPageFor and attachPageLocked *)

\* The tools that work on the selected page.
OnSelected == {"take_snapshot", "click", "evaluate_script", "wait_for"}

\* The page may be refused because it shows a local file no call opened, which is
\* decided before it is attached.
SelectedPage ==
    /\ run.at = "refresh" /\ run.tool \in OnSelected
    /\ \E ps \in Refreshed, refused \in BOOLEAN :
           /\ pages' = ps
           /\ selected' = FixSelection(ps)
           /\ IF ps = <<>> \/ refused THEN End
              ELSE GoTo("attach", FixSelection(ps))
    /\ UNCHANGED <<pageEnabled, snapshotSeq, uids, listed, chromeVars>>

NeedsAttach(t) == SessionOf(t) = 0

\* Target.attachToTarget, when the page has no session yet.
Attach ==
    /\ run.at = "attach" /\ NeedsAttach(run.page) /\ run.page \in targets
    /\ sessions' = Append(sessions, [target |-> run.page, on |-> {}])
    /\ pages' = [pages EXCEPT ![PageOf(run.page)].session = Len(sessions')]
    /\ UNCHANGED <<selected, pageEnabled, snapshotSeq, uids, run, listed, targets, opened, hung>>

\* The set-up of a session, in the order it is installed.
SetUp == <<"Page", "Runtime", "Network", "Fetch">> \o (IF Viewport THEN <<"Viewport">> ELSE <<>>)

\* What the tool does once its page is ready.
Body == CASE run.tool = "take_snapshot" -> "tree"
          [] run.tool = "click" -> "resolve"
          [] run.tool = "evaluate_script" -> "use"
          [] run.tool = "wait_for" -> "poll"
          [] OTHER -> "ready"

\* Variant: the session counts as set up as soon as the work begins.
MarkFirst(s, step) == step = 1

\* The session counts as set up after the last step.
MarkAfter(s, step) == step = Len(SetUp)

AlreadyEnabled ==
    /\ run.at = "attach" /\ ~NeedsAttach(run.page)
    /\ IF SessionOf(run.page) \in pageEnabled THEN Go(Body)
       ELSE run' = [run EXCEPT !.at = "enable", !.step = 1]
    /\ UNCHANGED <<serverVars, listed, chromeVars>>

Enable ==
    LET s == SessionOf(run.page)
    IN  /\ run.at = "enable" /\ Answers(s)
        /\ sessions' = [sessions EXCEPT ![s].on = @ \cup {SetUp[run.step]}]
        /\ pageEnabled' = IF MarkAfter(s, run.step) THEN pageEnabled \cup {s} ELSE pageEnabled
        /\ run' = IF run.step = Len(SetUp) THEN [run EXCEPT !.at = Body, !.step = 0]
                  ELSE [run EXCEPT !.step = @ + 1]
        /\ UNCHANGED <<pages, selected, snapshotSeq, uids, listed, targets, opened, hung>>

-----------------------------------------------------------------------------
(* take_snapshot, click and evaluate_script *)

\* A snapshot names nodes of two kinds: those of the accessibility tree and
\* those found in the DOM afterwards.
Uid(seq, kind) == <<seq, kind>>

\* Variant: the uids of earlier snapshots stay in force.
KeepOld(us) == uids \cup us

Reseed(us) == us

Tree ==
    LET s == SessionOf(run.page)
    IN  /\ run.at = "tree" /\ Answers(s)
        /\ snapshotSeq < MaxSnapshots
        /\ snapshotSeq' = snapshotSeq + 1
        /\ uids' = Reseed({[uid |-> Uid(snapshotSeq', "tree"), session |-> s]})
        /\ Go("extra")
        /\ UNCHANGED <<pages, selected, pageEnabled, listed, chromeVars>>

\* The supplementary pass may find nothing.
Extra ==
    LET s == SessionOf(run.page)
    IN  /\ run.at = "extra" /\ Answers(s)
        /\ \/ UNCHANGED uids
           \/ uids' = uids \cup {[uid |-> Uid(snapshotSeq, "extra"), session |-> s]}
        /\ End
        /\ UNCHANGED <<pages, selected, pageEnabled, snapshotSeq, listed, chromeVars>>

Resolved == {e \in uids : e.uid = run.uid}

ResolveUID ==
    /\ run.at = "resolve"
    /\ IF Resolved = {} THEN End ELSE Go("center")
    /\ UNCHANGED <<serverVars, listed, chromeVars>>

\* The node is located in the session its snapshot was taken in.
NodeSession == (CHOOSE e \in Resolved : TRUE).session

Center ==
    /\ run.at = "center" /\ Answers(NodeSession)
    /\ Go("dispatch")
    /\ UNCHANGED <<serverVars, listed, chromeVars>>

\* The click goes to the selected page; a snapshot may be asked for with it.
Dispatch ==
    /\ run.at = "dispatch" /\ Answers(SessionOf(run.page))
    /\ End \/ Go("tree")
    /\ UNCHANGED <<serverVars, listed, chromeVars>>

Use ==
    /\ run.at = "use" /\ Answers(SessionOf(run.page))
    /\ End
    /\ UNCHANGED <<serverVars, listed, chromeVars>>

\* wait_for asks until what it waits for is there, or its deadline has passed
\* (step 1): the page may never answer, and may never say yes.
Poll ==
    /\ run.at = "poll" /\ Answers(SessionOf(run.page))
    /\ End \/ (IF run.step = 1 THEN End ELSE Go("pause"))
    /\ UNCHANGED <<serverVars, listed, chromeVars>>

PollAgain ==
    /\ run.at = "pause"
    /\ Go("poll")
    /\ UNCHANGED <<serverVars, listed, chromeVars>>

DeadlinePasses ==
    /\ run.at \in {"poll", "pause"} /\ run.step = 0
    /\ run' = [run EXCEPT !.step = 1]
    /\ UNCHANGED <<serverVars, listed, chromeVars>>

\* new_page has its page; navigating it is another matter.
Ready ==
    /\ run.at = "ready"
    /\ End
    /\ UNCHANGED <<serverVars, listed, chromeVars>>

-----------------------------------------------------------------------------
(* Errors, timeouts and Chrome *)

Browserwide == {"create", "refresh", "refreshClosed", "closeTarget"}
InSession == {"enable", "tree", "extra", "center", "dispatch", "use", "poll"}
CallPoints == Browserwide \cup InSession \cup {"attach"}

\* The session the call in flight is addressed to.
Addressed == IF run.at = "center" THEN NodeSession ELSE SessionOf(run.page)

\* A call comes back with an error and the tool with it; what was done before
\* stays done.
CallFails ==
    /\ run.at \in CallPoints
    /\ run.at \in InSession => (Answers(Addressed) \/ ~Alive(Addressed))
    /\ run.at = "attach" => NeedsAttach(run.page)
    /\ End
    /\ UNCHANGED <<serverVars, listed, chromeVars>>

\* Variant: locating the node has no deadline.
BoundedButCenter == InSession \ {"enable", "center"}

\* Calls issued under a defaultCallTimeout context.
Bounded == InSession \ {"enable"}

TimesOut ==
    /\ run.at \in Bounded
    /\ End
    /\ UNCHANGED <<serverVars, listed, chromeVars>>

OpenTab ==
    /\ opened < MaxTargets
    /\ opened' = opened + 1
    /\ targets' = targets \cup {opened'}
    /\ UNCHANGED <<serverVars, run, listed, hung, sessions>>

CloseTab(t) ==
    /\ t \in targets
    /\ targets' = targets \ {t}
    /\ UNCHANGED <<serverVars, run, listed, opened, hung, sessions>>

HangTab(t) ==
    /\ t \in targets \ hung /\ Cardinality(hung) < MaxHung
    /\ hung' = hung \cup {t}
    /\ UNCHANGED <<serverVars, run, listed, targets, opened, sessions>>

BeginTool ==
    \/ Begin("list_pages", "refresh", 0, <<>>)
    \/ \E i \in Targets : Begin("select_page", "refresh", i, <<>>)
    \/ \E i \in Targets : Begin("close_page", "refresh", i, <<>>)
    \/ Begin("new_page", "create", 0, <<>>)
    \/ Begin("take_snapshot", "refresh", 0, <<>>)
    \/ Begin("evaluate_script", "refresh", 0, <<>>)
    \/ Begin("wait_for", "refresh", 0, <<>>)
    \/ \E n \in 1..snapshotSeq, kind \in {"tree", "extra"} :
           Begin("click", "refresh", 0, Uid(n, kind))

Progress ==
    \/ ListPages \/ SelectPage \/ ClosePage \/ CloseTarget \/ CloseDone
    \/ CreateTarget \/ NewPage \/ SelectedPage \/ Attach \/ AlreadyEnabled \/ Enable
    \/ Tree \/ Extra \/ ResolveUID \/ Center \/ Dispatch \/ Use \/ Ready
    \/ Poll \/ PollAgain
    \/ CallFails

Chrome ==
    \/ OpenTab
    \/ \E t \in Targets : CloseTab(t) \/ HangTab(t)

Next == BeginTool \/ Progress \/ TimesOut \/ DeadlinePasses \/ Chrome

Spec == Init /\ [][Next]_vars

\* The server goes on when it can, Chrome answers when the tab does, and the
\* deadlines of a bounded call and of wait_for pass.
FairSpec == Spec /\ WF_vars(Progress) /\ WF_vars(TimesOut) /\ WF_vars(DeadlinePasses)

-----------------------------------------------------------------------------
(* Properties *)

TypeOK ==
    /\ \A i \in DOMAIN pages : pages[i] \in [target : Targets, session : {0} \cup Sessions]
    /\ selected \in {0} \cup Targets
    /\ pageEnabled \subseteq Sessions
    /\ snapshotSeq \in 0..MaxSnapshots
    /\ \A e \in uids : e.uid \in (1..snapshotSeq) \X {"tree", "extra"} /\ e.session \in Sessions
    /\ run.at \in CallPoints \cup {"idle", "resolve", "ready", "pause"}
    /\ run.at \in InSession \ {"center"} => SessionOf(run.page) \in Sessions
    /\ targets \subseteq 1..opened /\ hung \subseteq 1..opened
    /\ \A s \in Sessions : sessions[s].target \in 1..opened

InUse == {"tree", "extra", "center", "dispatch", "use", "ready", "poll", "pause"}

\* A tool works only on a page whose set-up is complete (the collectors, the
\* request interception and the viewport), whatever calls failed on the way
\* there (attachPageLocked).
UsesReadyPage ==
    run.at \in InUse =>
        /\ SessionOf(run.page) # 0
        /\ sessions[SessionOf(run.page)].on = {SetUp[i] : i \in DOMAIN SetUp}

\* No tab is attached twice: every event of it would be collected twice, and
\* two sessions would answer for one page.  And a tab is listed once, and no
\* two pages share a session (refreshPagesLocked keeps records).
OneSessionPerTab ==
    /\ \A s1, s2 \in Sessions : sessions[s1].target = sessions[s2].target => s1 = s2
    /\ \A i, j \in DOMAIN pages : i # j =>
        /\ pages[i].target # pages[j].target
        /\ pages[i].session # 0 => pages[i].session # pages[j].session

\* A node is looked up only under the uids of the last snapshot, all of which
\* belong to one page (snapshotText).
UidsAreFresh ==
    /\ run.at \in {"center", "dispatch"} => run.uid[1] = snapshotSeq
    /\ \A e1, e2 \in uids : e1.session = e2.session

\* The selection moves only where select_page or new_page put it, or because
\* its tab was found gone (refreshPagesLocked).
SelectionStays ==
    [][selected' # selected =>
          \/ run.tool \in {"select_page", "new_page"}
          \/ selected \notin Known(pages')]_vars

\* Tabs that stay listed keep their order, and new ones come after them, so an
\* index only ever moves down (refreshPagesLocked).
OrderIsStable ==
    [][\A i, j \in DOMAIN pages' :
          LET a == pages'[i].target
              b == pages'[j].target
          IN  /\ {a, b} \subseteq Known(pages) /\ PageOf(a) < PageOf(b) => i < j
              /\ a \in Known(pages) /\ b \notin Known(pages) => i < j]_vars

\* Once its page is ready a tool comes back, whatever the page does: each call
\* from there on has a deadline, and the polling of wait_for one of its own
\* (snapshotText, uidCenter, click, evaluateScript, waitFor).
ReadyToolReturns == run.at \in InUse ~> run.at = "idle"

\* What register.go:61 says of close_page's pageIdx: the "Index of the page from
\* list_pages" names the page closed.
ClosesListedPage ==
    run.at = "closeTarget" /\ run.idx \in DOMAIN listed => run.page = listed[run.idx]

\* What input.go:91 says of uidCenter: the uid is resolved on the selected page,
\* the page the click goes to.
ClicksOnUidPage == run.at = "dispatch" => NodeSession = SessionOf(run.page)

\* What manager.go:49 says: a CDP call issued by a tool is bounded, so a page
\* that does not answer cannot hold a tool, and the server with it, for ever.
ToolReturns == run.at # "idle" ~> run.at = "idle"
=============================================================================
