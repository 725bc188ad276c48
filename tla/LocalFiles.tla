----------------------------- MODULE LocalFiles -----------------------------
(***************************************************************************)
(* Which URLs the selected page may show: Navigate's navigation with the   *)
(* layers around it (internal/tools/localfiles.go, hostfilter.go,          *)
(* fetchguard.go and the parts of manager.go and pages.go that call them). *)
(*   - A tool judges its argument, lists the pages, attaches the selected  *)
(*     one, grants it a work directory, and only then navigates or works.  *)
(*   - One goroutine for each paused load judges it and answers Chrome.    *)
(*   - The places refused to local files are those of the moment of each    *)
(*     judgement: browsers come and go, and files move.                    *)
(*   - Chrome (external) pauses the loads of a guarded page, loads those   *)
(*     of a page that is not yet guarded, and may put off its answers      *)
(*     while a load is paused.  Pages navigate by themselves, are          *)
(*     redirected and open tabs, which load before they are attached.      *)
(***************************************************************************)
EXTENDS Navigate

CONSTANTS Host,    (* web URLs with their hosts.  Hosts and the patterns of  *)
                   (* the lists are sequences of labels                      *)
          Filters, (* configurations: records of the allow and block lists,  *)
                   (* sets of host patterns, and blockLocal                  *)
          Inside,  (* for each work directory, the local files inside it     *)
          Refused, (* files in a place always refused.  A URL that names no  *)
                   (* path, of another machine say, counts as one            *)
          Changing (* files in a place that may come to be refused: the      *)
                   (* profile of a browser, or behind a link others replace  *)

Dirs == DOMAIN Inside
Web == DOMAIN Host
LocalUrls == (UNION {Inside[d] : d \in Dirs}) \cup Refused
\* data: URLs are left out.
Urls == {"blank"} \cup Web \cup LocalUrls

ASSUME LocalFilesAssumption ==
    /\ \A url \in Web : Host[url] \in Seq(STRING)
    /\ \A f \in Filters :
        /\ f.allow \cup f.block \subseteq Seq(STRING) \ {<<>>}
        /\ f.blockLocal \in BOOLEAN
    /\ Changing \subseteq LocalUrls
    /\ "blank" \notin Web \cup LocalUrls /\ Web \cap LocalUrls = {}

VARIABLES
    filter,  \* the configuration
    refused, \* the files in a refused place at this moment
    step,    \* the tool: "free", "list", "attach", "attached", "call", "navigating", "record",
             \* "work", "answer"
    tool,    \* which: "none", "navigate", "new", "record" for one that reads a collected
             \* record by its id, or "use" for every other one
    goal,    \* the URL and the work directory of a navigation, once judged; a record's URL
    locked,  \* is m.mu held?
    guarded, \* is the interception on for the selected tab?
    granted, \* the work directories granted to its session
    shown,   \* Chrome: the URL of the document it shows
    main,    \* Chrome: the load of its next document
    early    \* a load begun unguarded has ended since the pages were listed

rules == <<filter, refused>>
layerVars == <<rules, step, tool, goal, locked>>
tabVars == <<guarded, granted, early>>
pageVars == <<shown, main>>
localVars == <<layerVars, tabVars, pageVars>>
allVars == <<vars, localVars>>

NoLoad == [of |-> "none", url |-> "blank", state |-> "none"]
NoGoal == [url |-> "blank", dirs |-> {}]

LInit ==
    /\ Init
    /\ filter \in Filters /\ refused \in {Refused \cup S : S \in SUBSET Changing}
    /\ step = "free" /\ tool = "none" /\ goal = NoGoal /\ locked = FALSE
    /\ guarded = FALSE /\ granted = {} /\ early = FALSE
    /\ shown \in Urls /\ main = NoLoad

-----------------------------------------------------------------------------
(* The host lists *)

Active == filter.allow # {} \/ filter.block # {} \/ filter.blockLocal

MatchHostPattern(pattern, host) ==
    \/ pattern = <<"*">>
    \/ /\ Head(pattern) = "*" /\ IsSuffix(Tail(pattern), host)
       /\ Len(host) > Len(Tail(pattern))
    \/ host = pattern

HostAllowed(host) ==
    /\ \A pattern \in filter.block : ~MatchHostPattern(pattern, host)
    /\ filter.allow # {} => \E pattern \in filter.allow : MatchHostPattern(pattern, host)

UrlAllowed(url) ==
    /\ url \in LocalUrls => ~filter.blockLocal
    /\ url \in Web => HostAllowed(Host[url])

CheckURL(url) == Active => UrlAllowed(url)

-----------------------------------------------------------------------------
(* Local files *)

\* The places are looked up anew for each judgement.
JudgeLocal(roots, url) ==
    /\ \E d \in roots : url \in Inside[d]
    /\ url \notin refused

CheckLocalURL(url, dir) == url \in LocalUrls => JudgeLocal({dir}, url)

FileRequestAllowed(url) == ~filter.blockLocal /\ JudgeLocal(granted, url)

\* Variant: with no lists there is nothing to judge.
AllowedUnlessListed(url) == Active => UrlAllowed(url)

RequestAllowed(url) ==
    IF url \in LocalUrls THEN FileRequestAllowed(url) ELSE Active => UrlAllowed(url)

\* Variant: the interception is trusted to have kept such files away.
TrustInterception(url) == FALSE

RefuseUngrantedLocal(url) == url \in LocalUrls /\ ~JudgeLocal(granted, url)

-----------------------------------------------------------------------------
(* A tool *)

Free == step' = "free" /\ tool' = "none" /\ goal' = NoGoal /\ locked' = FALSE

\* navigate_page and new_page judge their URL before anything else; a refusal
\* changes nothing.
BeginNavigate(t, url, dir) ==
    /\ step = "free"
    /\ CheckURL(url) /\ CheckLocalURL(url, dir)
    /\ step' = "list" /\ tool' = t /\ locked' = TRUE
    /\ goal' = [url |-> url, dirs |-> IF url \in LocalUrls THEN {dir} ELSE {}]
    /\ UNCHANGED <<vars, rules, tabVars, pageVars>>

BeginUse ==
    /\ step = "free"
    /\ step' = "list" /\ tool' = "use" /\ locked' = TRUE
    /\ UNCHANGED <<vars, rules, goal, tabVars, pageVars>>

\* A record the selected tab's session collected; records of tabs that are gone
\* are left out.
BeginRecord(url) ==
    /\ step = "free" /\ guarded
    /\ step' = "list" /\ tool' = "record" /\ locked' = TRUE
    /\ goal' = [url |-> url, dirs |-> {}]
    /\ UNCHANGED <<vars, rules, tabVars, pageVars>>

\* Another tab: nothing of the old one matters any more.
NewTab(url) ==
    /\ doc' = 1 /\ ready' = "complete" /\ asked' = "none" /\ mine' = 0
    /\ got' = "none" /\ result' = "none" /\ heard' = 0
    /\ wire' = <<>> /\ seen' = {}
    /\ UNCHANGED <<pc, waiter>>
    /\ guarded' = FALSE /\ granted' = {}
    /\ shown' = url /\ main' = NoLoad

Responsive == main.state # "paused"

\* new_page has its empty tab by now, and navigates it as navigate_page does.
ListNew ==
    /\ step = "list" /\ tool = "new" /\ Responsive
    /\ NewTab("blank") /\ early' = FALSE
    /\ step' = "attach" /\ tool' = "navigate"
    /\ UNCHANGED <<rules, goal, locked>>

\* The page list is read.  A page that shows a local file no grant covers may only
\* be navigated away from.
List ==
    /\ step = "list" /\ tool \in {"navigate", "use"} /\ Responsive
    /\ early' = FALSE
    /\ IF tool = "use" /\ RefuseUngrantedLocal(shown) THEN Free
       ELSE step' = "attach" /\ UNCHANGED <<tool, goal, locked>>
    /\ UNCHANGED <<vars, rules, guarded, granted, pageVars>>

\* refuseUngrantedSession: m.mu is held for the list alone.
ListForRecord ==
    /\ step = "list" /\ tool = "record" /\ Responsive
    /\ early' = FALSE
    /\ IF RefuseUngrantedLocal(shown) THEN Free
       ELSE step' = "record" /\ locked' = FALSE /\ UNCHANGED <<tool, goal>>
    /\ UNCHANGED <<vars, rules, guarded, granted, pageVars>>

\* refuseUngrantedLoad: the body of a record is the file it is about.
JudgeRecord ==
    /\ step = "record"
    /\ IF RefuseUngrantedLocal(goal.url) THEN Free
       ELSE step' = "work" /\ UNCHANGED <<tool, goal, locked>>
    /\ UNCHANGED <<vars, rules, tabVars, pageVars>>

\* attachPageLocked, up to Fetch.enable; a page already enabled needs no call.
Guard ==
    /\ step = "attach" /\ ~guarded
    /\ guarded' = TRUE
    /\ UNCHANGED <<vars, layerVars, granted, early, pageVars>>

Attached ==
    /\ step = "attach" /\ guarded /\ Responsive
    /\ step' = IF tool = "use" THEN "work" ELSE "attached"
    /\ locked' = FALSE
    /\ UNCHANGED <<vars, rules, tool, goal, tabVars, pageVars>>

\* A call to Chrome fails.
ListOrAttachFails ==
    /\ step \in {"list", "attach"}
    /\ Free
    /\ UNCHANGED <<vars, rules, tabVars, pageVars>>

\* Variant: the grant is made when the navigation has come back.
GrantLater == granted

GrantNow == granted \cup goal.dirs

Grant ==
    /\ step = "attached"
    /\ granted' = GrantNow
    /\ step' = "call"
    /\ UNCHANGED <<vars, rules, tool, goal, locked, guarded, early, pageVars>>

\* A load: paused, or of a page or an URL that is not looked at.
Load(of, url) ==
    [of |-> of, url |-> url,
     state |-> IF ~guarded THEN "early" ELSE IF Active \/ url \in LocalUrls THEN "paused" ELSE "go"]

CallNavigate ==
    /\ step = "call"
    /\ Call
    /\ main' = Load("tool", goal.url)
    /\ step' = "navigating"
    /\ UNCHANGED <<rules, tool, goal, locked, tabVars, shown>>

\* navigateSession goes on, and comes back.
Navigating ==
    /\ step = "navigating"
    /\ Tool
    /\ step' = IF pc' = "idle" THEN "answer" ELSE step
    /\ UNCHANGED <<rules, tool, goal, locked, tabVars, pageVars>>

\* The caller has the result; what it was based on is of no use any more.
Answered ==
    /\ step = "answer"
    /\ Free
    /\ result' = "none" /\ heard' = 0 /\ mine' = 0
    /\ UNCHANGED <<pc, waiter, got, asked, doc, ready, wire, seen, rules, tabVars, pageVars>>

Work ==
    /\ step = "work"
    /\ Free
    /\ UNCHANGED <<vars, rules, tabVars, pageVars>>

-----------------------------------------------------------------------------
(* The interception *)

\* Variant: the goroutine takes m.mu to judge.
WhenUnlocked == ~locked

Undisturbed == TRUE

\* handleRequestPaused: it judges by the grants of this moment, and answers.
Decide ==
    /\ main.state = "paused" /\ Undisturbed
    /\ main' = [main EXCEPT !.state = IF RequestAllowed(main.url) THEN "go" ELSE "stop"]
    /\ UNCHANGED <<vars, layerVars, tabVars, shown>>

-----------------------------------------------------------------------------
(* Chrome *)

PageLoads(url) ==
    /\ main = NoLoad
    /\ main' = Load("page", url)
    /\ UNCHANGED <<vars, layerVars, tabVars, shown>>

Redirect(url) ==
    /\ main.state \in {"go", "early"} /\ main.url \in Web
    /\ main' = [Load(main.of, url) EXCEPT !.of = IF main.of = "page" THEN "page" ELSE "redirected"]
    /\ UNCHANGED <<vars, layerVars, tabVars, shown>>

\* The document is committed.
Show ==
    /\ main.state \in {"go", "early"}
    /\ IF main.of = "page" THEN PageNavigates ELSE Commit
    /\ shown' = main.url /\ main' = NoLoad
    /\ early' = (early \/ main.state = "early")
    /\ UNCHANGED <<layerVars, guarded, granted>>

WithinDocument ==
    /\ main.of = "tool" /\ main.url = shown
    /\ SameDocument
    /\ main' = NoLoad
    /\ UNCHANGED <<layerVars, tabVars, shown>>

LoadFails ==
    /\ main.state \notin {"none", "paused"}
    /\ IF main.of = "page" THEN UNCHANGED vars ELSE NavigationFails
    /\ main' = NoLoad
    /\ UNCHANGED <<layerVars, tabVars, shown>>

\* The selected tab closes, or another is selected: one a script opened, say.
OtherTab(url) ==
    /\ step = "free"
    /\ NewTab(url)
    /\ UNCHANGED <<layerVars, early>>

\* Of this server or of others: a browser starts or ends, and a throwaway profile
\* comes or goes with it; a directory is replaced by a link.
PlacesChange(S) ==
    /\ refused' = Refused \cup S /\ refused' # refused
    /\ UNCHANGED <<vars, filter, step, tool, goal, locked, tabVars, pageVars>>

Chrome == ReadMessage \/ Interactive \/ Complete

LTool ==
    \/ ListNew \/ List \/ ListForRecord \/ JudgeRecord
    \/ Guard \/ Attached \/ Grant \/ CallNavigate \/ Navigating \/ Answered \/ Work

LNext ==
    \/ \E t \in {"navigate", "new"}, url \in Urls \ {"blank"}, d \in Dirs : BeginNavigate(t, url, d)
    \/ BeginUse
    \/ \E url \in Urls : BeginRecord(url)
    \/ LTool \/ ListOrAttachFails
    \/ Decide
    \/ \E url \in Urls : PageLoads(url)
    \/ \E url \in Web : Redirect(url)
    \/ Show \/ WithinDocument \/ LoadFails
    \/ \E url \in Urls : OtherTab(url)
    \/ \E S \in SUBSET Changing : PlacesChange(S)
    \/ Chrome /\ UNCHANGED localVars

LSpec == LInit /\ [][LNext]_allVars

\* Tools and goroutines go on: what a tool waits for is answered, though perhaps
\* not while a load is paused, or has a timer.
LFairSpec == LSpec /\ WF_allVars(LTool) /\ WF_allVars(Decide)

-----------------------------------------------------------------------------
(* Properties *)

LTypeOK ==
    /\ TypeOK
    /\ filter \in Filters
    /\ Refused \subseteq refused /\ refused \subseteq Refused \cup Changing
    /\ step \in {"free", "list", "attach", "attached", "call", "navigating", "record",
                "work", "answer"}
    /\ tool \in {"none", "navigate", "new", "record", "use"}
    /\ goal \in [url : Urls, dirs : SUBSET Dirs]
    /\ locked \in BOOLEAN /\ (locked <=> step \in {"list", "attach"})
    /\ guarded \in BOOLEAN /\ early \in BOOLEAN
    /\ granted \subseteq Dirs
    /\ shown \in Urls
    /\ main \in [of : {"none", "tool", "redirected", "page"}, url : Urls,
                 state : {"none", "early", "paused", "go", "stop"}]
    /\ (pc # "idle" <=> step = "navigating")

\* What the operator and the callers have opened, said without the order in which
\* the code asks: the hosts each list names, and the files of the granted directories.
Above(host) == {SubSeq(host, n + 1, Len(host)) : n \in 1..Len(host)}

Named(patterns) ==
    {url \in Web : patterns \cap ({<<"*">>, Host[url]} \cup {<<"*">> \o d : d \in Above(Host[url])}) # {}}

Opened(url, closed) ==
    /\ url \in Web => url \notin Named(filter.block)
    /\ url \in Web /\ filter.allow # {} => url \in Named(filter.allow)
    /\ url \in LocalUrls =>
           ~filter.blockLocal /\ url \in (UNION {Inside[d] : d \in granted}) \ closed

\* Whatever a tool, the page itself or a redirection asks for, whatever is granted
\* meanwhile and wherever the refused places move, the interception lets go what is
\* opened at that moment, and a guarded page comes to show nothing else, though
\* grants and places change again before it does (handleRequestPaused, requestAllowed).
ShowsOnlyOpened ==
    [][/\ main.state = "paused" /\ main' = [main EXCEPT !.state = "go"] => Opened(main.url, refused)
       /\ shown' # shown /\ guarded /\ guarded' /\ main.state # "early" =>
              Opened(shown', Refused)]_allVars

\* A navigation a tool has accepted is failed by the interception, which judges its
\* load on another goroutine, only when its file has come to lie in a refused place
\* since, with the browser the call itself has launched, say (navigatePage judges,
\* launches, and grants before it navigates).
BlockedOnlyByPlace ==
    [][main.of = "tool" /\ main.state # "stop" /\ main'.state = "stop" => main.url \in refused]_allVars

\* No tool works on a page that shows a local file nobody opened, nor reads a
\* record of one, though tabs load before they are attached: unless the page was
\* still loading when the pages were listed and not yet guarded (selectedPageFor,
\* refuseUngrantedSession, refuseUngrantedLoad).
WorksOnOpened ==
    step = "work" =>
        ({goal.url : t \in {tool} \cap {"record"}} \cup (IF early THEN {} ELSE {shown})) \cap LocalUrls
            \subseteq (UNION {Inside[d] : d \in granted}) \ Refused

\* Every paused load is judged, though a tool may hold m.mu meanwhile and wait
\* for a Chrome that answers nothing until it is (handleRequestPaused: the
\* judgement takes no lock the tools hold over their calls).
LoadsAreJudged == main.state = "paused" ~> main.state # "paused"
=============================================================================
