----------------------------- MODULE Pages_proofs -----------------------------
(***************************************************************************)
(* Proofs about Pages, for any number of tabs, snapshots and stalled tabs, *)
(* with any tools and with or without a viewport: no tab has two sessions, *)
(* a tool works on a page only when all of its set-up is installed, and a  *)
(* uid that is followed is one of the last snapshot, all from one page.    *)
(***************************************************************************)
EXTENDS Pages, FiniteSetTheorems, TLAPS

Full == {SetUp[i] : i \in DOMAIN SetUp}
Places == CallPoints \cup {"idle", "resolve", "ready", "pause"}

\* Where a tool is busy with one page.
OnPage == {"closeTarget", "attach", "enable", "resolve"} \cup InUse

PageRecords == [target : Nat, session : Nat]
SessionRecords == [target : Nat, on : SUBSET Full]
Runs == [tool : Tools \cup {"none"}, at : Places, idx : Nat,
         uid : {<<>>} \cup (Nat \X {"tree", "extra"}), page : {0} \cup Targets, step : Nat]

Types ==
    /\ opened \in 1..MaxTargets /\ targets \subseteq 1..opened /\ hung \subseteq 1..opened
    /\ selected \in {0} \cup Targets
    /\ pages \in Seq(PageRecords) /\ sessions \in Seq(SessionRecords)
    /\ snapshotSeq \in 0..MaxSnapshots
    /\ run \in Runs

\* A tab is listed once, and with a session of its own.
Listed ==
    /\ \A i, j \in DOMAIN pages : pages[i].target = pages[j].target => i = j
    /\ \A i \in DOMAIN pages :
        /\ pages[i].target \in 1..opened
        /\ pages[i].session # 0 =>
            /\ pages[i].session \in Sessions
            /\ sessions[pages[i].session].target = pages[i].target

\* While a tab lives its session is the one listed: this is what keeps it from
\* being attached again.
Remembered ==
    \A s \in Sessions :
        /\ sessions[s].target \in 1..opened
        /\ sessions[s].target \in targets =>
            \E i \in DOMAIN pages : pages[i].target = sessions[s].target /\ pages[i].session = s

OneSession == \A s1, s2 \in Sessions : sessions[s1].target = sessions[s2].target => s1 = s2

\* What counts as set up is.
Enabled == \A s \in pageEnabled : s \in Sessions /\ sessions[s].on = Full

\* The uids in force are those of the last snapshot, which one page gave.
LastSnapshot ==
    /\ \A e \in uids : e.uid \in (1..snapshotSeq) \X {"tree", "extra"} /\ e.session \in Sessions
    /\ \A e \in uids : e.uid[1] = snapshotSeq
    /\ \A e1, e2 \in uids : e1.session = e2.session

\* How far the tool has brought its page, and the uid it follows.
Brought ==
    /\ run.at \in OnPage => run.page \in Known(pages)
    /\ run.at = "enable" =>
        /\ SessionOf(run.page) # 0
        /\ run.step \in DOMAIN SetUp
        /\ \A i \in 1..(run.step - 1) : SetUp[i] \in sessions[SessionOf(run.page)].on
    /\ run.at \in InUse \cup {"resolve"} => SessionOf(run.page) \in pageEnabled
    /\ run.at = "extra" => snapshotSeq > 0 /\ \A e \in uids : e.session = SessionOf(run.page)
    /\ run.at \in {"center", "dispatch"} => run.uid[1] = snapshotSeq

IInv ==
    /\ Types
    /\ Listed
    /\ Remembered
    /\ OneSession
    /\ Enabled
    /\ LastSnapshot
    /\ Brought

-----------------------------------------------------------------------------
(* Lemmas about the operators of the specification *)

LEMMA SeqElement ==
  ASSUME NEW S, NEW s \in Seq(S), NEW i \in DOMAIN s
  PROVE  s[i] \in S
OBVIOUS

LEMMA FunctionIsSeq ==
  ASSUME NEW S, NEW n \in Nat, NEW f \in [1..n -> S]
  PROVE  f \in Seq(S) /\ DOMAIN f = 1..n
OBVIOUS

LEMMA SetUpFacts == Len(SetUp) \in Nat \ {0} /\ DOMAIN SetUp = 1..Len(SetUp)
BY DEF SetUp

\* The page of a listed tab.
LEMMA PageOfListed ==
  ASSUME Listed, NEW i \in DOMAIN pages
  PROVE  PageOf(pages[i].target) = i /\ SessionOf(pages[i].target) = pages[i].session
<1>1. PageOf(pages[i].target) = i
  BY DEF Listed, PageOf
<1> QED
  BY <1>1 DEF SessionOf

\* A refresh lists every tab once, the known ones with the session they had.
LEMMA RefreshedFacts ==
  ASSUME opened \in Nat, targets \subseteq 1..opened, pages \in Seq(PageRecords),
         Listed, NEW ps \in Refreshed
  PROVE  /\ ps \in Seq(PageRecords)
         /\ \A i, j \in DOMAIN ps : ps[i].target = ps[j].target => i = j
         /\ Known(ps) = targets
         /\ \A i \in DOMAIN ps :
              ps[i].session = IF ps[i].target \in Known(pages) THEN SessionOf(ps[i].target) ELSE 0
<1> DEFINE n == Cardinality(targets)
<1>1. IsFiniteSet(targets) /\ n \in Nat
  <2>1. IsFiniteSet(1..opened)
    BY FS_Interval
  <2> QED
    BY <2>1, FS_Subset, FS_CardinalityType
<1>2. PICK o \in [1..n -> targets] :
        /\ \A i, j \in 1..n : i # j => o[i] # o[j]
        /\ ps = [i \in 1..n |-> PageState(o[i])]
  BY DEF Refreshed, SetToSeqs
<1> HIDE DEF n
<1>3. {o[i] : i \in 1..n} = targets
  <2>1. o \in Injection(1..n, targets)
    BY <1>2 DEF Injection, IsInjective
  <2>2. Cardinality(1..n) = n
    BY <1>1, FS_Interval
  <2>3. o \in Surjection(1..n, targets)
    BY <1>1, <2>1, <2>2, FS_Injection DEF n
  <2> QED
    BY <2>3 DEF Surjection
<1>4. ASSUME NEW t \in targets
      PROVE  /\ PageState(t) \in PageRecords
             /\ PageState(t).target = t
             /\ PageState(t).session = IF t \in Known(pages) THEN SessionOf(t) ELSE 0
  <2>1. t \in Nat
    OBVIOUS
  <2>2. ASSUME t \in Known(pages) PROVE SessionOf(t) \in Nat
    <3>1. PICK i \in DOMAIN pages : pages[i].target = t
      BY <2>2 DEF Known
    <3>2. pages[i] \in PageRecords
      BY SeqElement
    <3> QED
      BY <3>1, <3>2, PageOfListed DEF PageRecords
  <2> QED
    BY <2>1, <2>2 DEF PageState, PageRecords
<1>5. ps \in [1..n -> PageRecords]
  BY <1>2, <1>4
<1>6. ps \in Seq(PageRecords) /\ DOMAIN ps = 1..n
  BY <1>1, <1>5, FunctionIsSeq
<1>7. \A i \in 1..n : ps[i].target = o[i]
  BY <1>2, <1>4
<1>8. Known(ps) = targets
  BY <1>3, <1>6, <1>7 DEF Known
<1>9. \A i \in 1..n : ps[i].session = IF o[i] \in Known(pages) THEN SessionOf(o[i]) ELSE 0
  BY <1>2, <1>4
<1> QED
  BY <1>2, <1>6, <1>7, <1>8, <1>9

LEMMA SeqExcept ==
  ASSUME NEW S, NEW s \in Seq(S), NEW i \in DOMAIN s, NEW x \in S
  PROVE  LET r == [s EXCEPT ![i] = x]
         IN  /\ r \in Seq(S) /\ DOMAIN r = DOMAIN s
             /\ \A j \in DOMAIN s : r[j] = IF j = i THEN x ELSE s[j]
OBVIOUS

LEMMA IdleIsRun == Idle \in Runs
BY DEF Idle, Runs, Places

LEMMA ListIs ==
  ASSUME IInv, NEW ps \in Refreshed
  PROVE  /\ ps \in Seq(PageRecords)
         /\ \A i, j \in DOMAIN ps : ps[i].target = ps[j].target => i = j
         /\ Known(ps) = targets
         /\ \A i \in DOMAIN ps :
              /\ ps[i].target \in targets
              /\ ps[i].session = IF ps[i].target \in Known(pages) THEN SessionOf(ps[i].target) ELSE 0
<1>1. opened \in Nat /\ targets \subseteq 1..opened /\ pages \in Seq(PageRecords) /\ Listed
  BY PagesAssumption DEF IInv, Types
<1>2. /\ ps \in Seq(PageRecords)
      /\ \A i, j \in DOMAIN ps : ps[i].target = ps[j].target => i = j
      /\ Known(ps) = targets
      /\ \A i \in DOMAIN ps :
           ps[i].session = IF ps[i].target \in Known(pages) THEN SessionOf(ps[i].target) ELSE 0
  BY <1>1, RefreshedFacts
<1>3. \A i \in DOMAIN ps : ps[i].target \in targets
  BY <1>2 DEF Known
<1> QED
  BY <1>2, <1>3

LEMMA FixSelectionFacts ==
  ASSUME IInv, NEW ps \in Refreshed
  PROVE  /\ FixSelection(ps) \in {0} \cup Targets
         /\ ps # <<>> => FixSelection(ps) \in Known(ps)
         /\ Known(ps) \subseteq Targets
<1>1. ps \in Seq(PageRecords) /\ Known(ps) = targets
  BY ListIs
<1>2. targets \subseteq Targets
  BY PagesAssumption DEF IInv, Types, Targets
<1>3. ps # <<>> => 1 \in DOMAIN ps
  BY <1>1
<1>4. ps # <<>> => ps[1].target \in Known(ps)
  BY <1>3 DEF Known
<1> QED
  BY <1>1, <1>2, <1>4 DEF FixSelection

LEMMA PagesStay ==
  ASSUME pages' = pages
  PROVE  (\A t : SessionOf(t)' = SessionOf(t)) /\ Known(pages') = Known(pages)
BY DEF SessionOf, PageOf

\* What a tool's step does to where it is.
LEMMA EndIs ==
  ASSUME End
  PROVE  run' \in Runs /\ run'.at = "idle"
BY DEF End, Idle, Runs, Places

LEMMA GoIs ==
  ASSUME run \in Runs, NEW at \in Places, Go(at)
  PROVE  /\ run' \in Runs /\ run'.at = at
         /\ run'.page = run.page /\ run'.step = run.step /\ run'.uid = run.uid
BY DEF Go, Runs

LEMMA GoToIs ==
  ASSUME run \in Runs, NEW at \in Places, NEW t \in {0} \cup Targets, GoTo(at, t)
  PROVE  run' \in Runs /\ run'.at = at /\ run'.page = t
BY DEF GoTo, Runs

\* A step that ends with a new list, and the tool at rest or about to use a page
\* of that list.
LEMMA KeepsRefresh ==
  ASSUME IInv, NEW ps \in Refreshed, pages' = ps, selected' \in {0} \cup Targets,
         UNCHANGED <<pageEnabled, snapshotSeq, uids, chromeVars>>,
         run' \in Runs, run'.at \in {"idle", "closeTarget", "attach"},
         run'.at # "idle" => run'.page \in Known(ps)
  PROVE  IInv'
<1>1. /\ ps \in Seq(PageRecords)
      /\ \A i, j \in DOMAIN ps : ps[i].target = ps[j].target => i = j
      /\ Known(ps) = targets
      /\ \A i \in DOMAIN ps :
           /\ ps[i].target \in targets
           /\ ps[i].session = IF ps[i].target \in Known(pages) THEN SessionOf(ps[i].target) ELSE 0
  BY ListIs
<1>2. /\ UNCHANGED <<targets, opened, hung, sessions, pageEnabled, snapshotSeq, uids>>
      /\ Sessions' = Sessions
  BY DEF chromeVars, Sessions
<1>3. Types'
  BY <1>1, <1>2 DEF IInv, Types, Targets
<1>4. ASSUME NEW i \in DOMAIN ps
      PROVE  /\ ps[i].target \in 1..opened
             /\ ps[i].session # 0 =>
                 /\ ps[i].session \in Sessions
                 /\ sessions[ps[i].session].target = ps[i].target
  <2>1. ps[i].target \in 1..opened
    BY <1>1 DEF IInv, Types
  <2>2. ASSUME ps[i].session # 0 PROVE /\ ps[i].session \in Sessions
                                       /\ sessions[ps[i].session].target = ps[i].target
    <3>1. ps[i].target \in Known(pages) /\ ps[i].session = SessionOf(ps[i].target)
      BY <1>1, <2>2
    <3>2. PICK j \in DOMAIN pages : pages[j].target = ps[i].target
      BY <3>1 DEF Known
    <3>3. ps[i].session = pages[j].session
      BY <3>1, <3>2, PageOfListed DEF IInv
    <3> QED
      BY <2>2, <3>2, <3>3 DEF IInv, Listed
  <2> QED
    BY <2>1, <2>2
<1>5. Listed'
  BY <1>1, <1>2, <1>4 DEF Listed
<1>6. ASSUME NEW s \in Sessions, sessions[s].target \in targets
      PROVE  \E i \in DOMAIN ps : ps[i].target = sessions[s].target /\ ps[i].session = s
  <2>1. PICK j \in DOMAIN pages : pages[j].target = sessions[s].target /\ pages[j].session = s
    BY <1>6 DEF IInv, Remembered
  <2>2. PICK i \in DOMAIN ps : ps[i].target = sessions[s].target
    BY <1>1, <1>6 DEF Known
  <2>3. ps[i].target \in Known(pages)
    BY <2>1, <2>2 DEF Known
  <2>4. SessionOf(pages[j].target) = pages[j].session
    BY PageOfListed DEF IInv
  <2> QED
    BY <1>1, <2>1, <2>2, <2>3, <2>4
<1>7. Remembered'
  BY <1>2, <1>6 DEF IInv, Remembered
<1>8. OneSession' /\ Enabled' /\ LastSnapshot'
  BY <1>2 DEF IInv, OneSession, Enabled, LastSnapshot
<1>9. Brought'
  BY DEF Brought, InUse, OnPage
<1> QED
  BY <1>3, <1>5, <1>7, <1>8, <1>9 DEF IInv

LEMMA RefreshingKeeps ==
  ASSUME IInv, ListPages \/ SelectPage \/ ClosePage \/ CloseDone \/ NewPage \/ SelectedPage
  PROVE  IInv'
<1>1. /\ run \in Runs /\ run.page \in {0} \cup Targets /\ Targets \subseteq Nat
      /\ \A ps \in Refreshed : \A i \in DOMAIN ps :
            ps[i].target \in Known(ps) /\ ps[i].target \in {0} \cup Targets
  <2>1. run \in Runs /\ Targets \subseteq Nat
    BY DEF IInv, Types, Targets
  <2>2. ASSUME NEW ps \in Refreshed, NEW i \in DOMAIN ps
        PROVE  ps[i].target \in Known(ps) /\ ps[i].target \in {0} \cup Targets
    <3>1. ps[i].target \in Known(ps)
      BY DEF Known
    <3> QED
      BY <3>1, FixSelectionFacts
  <2>3. run.page \in {0} \cup Targets
    BY <2>1 DEF Runs
  <2> QED
    BY <2>1, <2>2, <2>3
<1>2. CASE ListPages
  BY <1>2, EndIs, FixSelectionFacts, KeepsRefresh DEF ListPages
<1>3. CASE SelectPage
  BY <1>1, <1>3, EndIs, FixSelectionFacts, KeepsRefresh DEF SelectPage
<1>4. CASE ClosePage
  <2>1. PICK ps \in Refreshed :
          /\ pages' = ps /\ selected' = FixSelection(ps)
          /\ IF run.idx \in DOMAIN ps
             THEN GoTo("closeTarget", ps[run.idx].target)
             ELSE End
    BY <1>4 DEF ClosePage
  <2>2. ASSUME run.idx \in DOMAIN ps
        PROVE  run' \in Runs /\ run'.at = "closeTarget" /\ run'.page \in Known(ps)
    BY <1>1, <2>1, <2>2, GoToIs DEF Places, CallPoints, Browserwide, Known
  <2>3. UNCHANGED <<pageEnabled, snapshotSeq, uids, chromeVars>>
    BY <1>4 DEF ClosePage
  <2> QED
    BY <2>1, <2>2, <2>3, EndIs, FixSelectionFacts, KeepsRefresh
<1>5. CASE CloseDone
  BY <1>5, EndIs, FixSelectionFacts, KeepsRefresh DEF CloseDone
<1>6. CASE NewPage
  BY <1>1, <1>6, EndIs, GoIs, FixSelectionFacts, KeepsRefresh DEF NewPage, Places, CallPoints
<1>7. CASE SelectedPage
  <2>1. PICK ps \in Refreshed, refused \in BOOLEAN :
          /\ pages' = ps /\ selected' = FixSelection(ps)
          /\ IF ps = <<>> \/ refused THEN End
             ELSE GoTo("attach", FixSelection(ps))
    BY <1>7 DEF SelectedPage
  <2>2. ASSUME ps # <<>>, ~refused
        PROVE  run' \in Runs /\ run'.at = "attach" /\ run'.page \in Known(ps)
    BY <1>1, <2>1, <2>2, FixSelectionFacts, GoToIs DEF Places, CallPoints
  <2>3. UNCHANGED <<pageEnabled, snapshotSeq, uids, chromeVars>>
    BY <1>7 DEF SelectedPage
  <2> QED
    BY <2>1, <2>2, <2>3, EndIs, FixSelectionFacts, KeepsRefresh
<1> QED
  BY <1>2, <1>3, <1>4, <1>5, <1>6, <1>7

\* A step of a tool that only moves on.
LEMMA KeepsRun ==
  ASSUME IInv, UNCHANGED <<serverVars, chromeVars>>, run' \in Runs, Brought'
  PROVE  IInv'
<1>1. UNCHANGED <<pages, selected, pageEnabled, snapshotSeq, uids, targets, opened, hung, sessions>>
  BY DEF serverVars, chromeVars
<1>2. Types' /\ Listed' /\ Remembered' /\ OneSession' /\ Enabled' /\ LastSnapshot'
  BY <1>1 DEF IInv, Types, Targets, Listed, Remembered, OneSession, Enabled, LastSnapshot, Sessions
<1> QED
  BY <1>2 DEF IInv

LEMMA MovingKeeps ==
  ASSUME IInv,
         \/ BeginTool \/ AlreadyEnabled \/ ResolveUID \/ Center \/ Dispatch \/ Use \/ Ready
         \/ Poll \/ PollAgain \/ CallFails \/ TimesOut \/ DeadlinePasses
  PROVE  IInv'
<1> USE EndIs, GoIs, KeepsRun
<1>1. run \in Runs /\ Brought
  BY DEF IInv, Types
<1>2. ASSUME UNCHANGED <<serverVars, chromeVars>>
      PROVE  /\ Known(pages') = Known(pages) /\ \A t : SessionOf(t)' = SessionOf(t)
             /\ UNCHANGED <<pageEnabled, snapshotSeq, uids, sessions>>
  BY <1>2, PagesStay DEF serverVars, chromeVars
<1> DEFINE Rest == UNCHANGED <<serverVars, chromeVars>>
<1>3. ASSUME Rest, run'.at \notin OnPage, run' \in Runs
      PROVE  IInv'
  <2>1. Brought'
    BY <1>3 DEF Brought, OnPage, InUse
  <2> QED
    BY <1>3, <2>1
<1>4. ASSUME Rest, End
      PROVE  IInv'
  BY <1>3, <1>4 DEF OnPage, InUse
<1>5. ASSUME NEW at \in {"center", "dispatch", "tree", "poll", "pause"}, Rest, Go(at),
             run.at \in InUse \cup {"resolve"},
             at \in {"center", "dispatch"} => run.uid[1] = snapshotSeq
      PROVE  IInv'
  <2>1. /\ run' \in Runs /\ run'.at = at /\ run'.page = run.page /\ run'.uid = run.uid
    BY <1>1, <1>5 DEF Places, CallPoints, InSession
  <2>2. Brought'
    BY <1>1, <1>2, <1>5, <2>1 DEF Brought, OnPage, InUse
  <2> QED
    BY <1>5, <2>1, <2>2
<1>6. CASE BeginTool
  <2>1. PICK tool \in Tools, at \in {"refresh", "create"}, i \in Nat,
             u \in {<<>>} \cup (Nat \X {"tree", "extra"}) : Begin(tool, at, i, u)
    BY <1>6 DEF BeginTool, Begin, Targets, Uid
  <2>2. run' \in Runs /\ run'.at \notin OnPage
    BY <2>1 DEF Begin, Runs, Places, CallPoints, Browserwide, OnPage, InUse
  <2>3. Rest
    BY <2>1 DEF Begin
  <2> QED
    BY <1>3, <2>2, <2>3
<1>7. CASE AlreadyEnabled
  <2>1. Rest /\ run.at = "attach" /\ SessionOf(run.page) # 0
    BY <1>7 DEF AlreadyEnabled, NeedsAttach
  <2>2. CASE SessionOf(run.page) \in pageEnabled
    <3>1. Body \in {"tree", "resolve", "use", "poll", "ready"} /\ Go(Body)
      BY <1>7, <2>2 DEF AlreadyEnabled, Body
    <3>2. run' \in Runs /\ run'.at = Body /\ run'.page = run.page
      BY <1>1, <3>1 DEF Places, CallPoints, InSession
    <3>3. Brought'
      BY <1>1, <1>2, <2>1, <2>2, <3>1, <3>2 DEF Brought, OnPage, InUse
    <3> QED
      BY <2>1, <3>2, <3>3
  <2>3. CASE SessionOf(run.page) \notin pageEnabled
    <3>1. run' = [run EXCEPT !.at = "enable", !.step = 1]
      BY <1>7, <2>3 DEF AlreadyEnabled
    <3>2. run' \in Runs /\ run'.at = "enable" /\ run'.page = run.page /\ run'.step = 1
      BY <1>1, <3>1 DEF Runs, Places, CallPoints, InSession
    <3>3. Brought'
      BY <1>1, <1>2, <2>1, <3>2, SetUpFacts DEF Brought, OnPage, InUse
    <3> QED
      BY <2>1, <3>2, <3>3
  <2> QED
    BY <2>2, <2>3
<1>8. CASE ResolveUID
  <2>1. Rest /\ run.at = "resolve"
    BY <1>8 DEF ResolveUID
  <2>2. ASSUME Resolved # {}
        PROVE  run.uid[1] = snapshotSeq
    BY <2>2 DEF Resolved, IInv, LastSnapshot
  <2>3. CASE Resolved # {}
    BY <1>5, <1>8, <2>1, <2>2, <2>3 DEF ResolveUID
  <2> QED
    BY <1>4, <1>8, <2>1, <2>3 DEF ResolveUID
<1>9. CASE Center
  BY <1>1, <1>5, <1>9 DEF Center, Brought, InUse
<1>10. CASE Dispatch
  BY <1>4, <1>5, <1>10 DEF Dispatch, InUse
<1>11. CASE Use
  BY <1>4, <1>11 DEF Use
<1>12. CASE Ready
  BY <1>4, <1>12 DEF Ready
<1>13. CASE Poll
  BY <1>4, <1>5, <1>13 DEF Poll, InUse
<1>14. CASE PollAgain
  BY <1>5, <1>14 DEF PollAgain, InUse
<1>15. CASE CallFails
  BY <1>4, <1>15 DEF CallFails
<1>16. CASE TimesOut
  BY <1>4, <1>16 DEF TimesOut
<1>17. CASE DeadlinePasses
  <2>1. Rest /\ run.at \in {"poll", "pause"} /\ run' = [run EXCEPT !.step = 1]
    BY <1>17 DEF DeadlinePasses
  <2>2. run' \in Runs /\ run'.at = run.at /\ run'.page = run.page
    BY <1>1, <2>1 DEF Runs
  <2>3. Brought'
    BY <1>1, <1>2, <2>1, <2>2 DEF Brought, OnPage, InUse
  <2> QED
    BY <2>1, <2>2, <2>3
<1> QED
  BY <1>6, <1>7, <1>8, <1>9, <1>10, <1>11, <1>12, <1>13, <1>14, <1>15, <1>16, <1>17

\* What Chrome does to its tabs, and a tool to the tab it names.
LEMMA TabsKeep ==
  ASSUME IInv, OpenTab \/ (\E t \in Targets : CloseTab(t) \/ HangTab(t)) \/ CreateTarget
  PROVE  IInv'
<1> USE PagesAssumption DEF serverVars
<1>1. /\ UNCHANGED <<pages, selected, pageEnabled, snapshotSeq, uids, sessions>>
      /\ Sessions' = Sessions /\ Known(pages') = Known(pages) /\ \A t : SessionOf(t)' = SessionOf(t)
  BY PagesStay DEF OpenTab, CloseTab, HangTab, CreateTarget, Sessions
<1>2. /\ opened \in 1..MaxTargets /\ targets \subseteq 1..opened /\ hung \subseteq 1..opened
      /\ run \in Runs
  BY DEF IInv, Types
<1>3. /\ opened' \in {opened, opened + 1} /\ opened' \in 1..MaxTargets
      /\ targets' \subseteq targets \cup {opened'} /\ (opened' = opened => targets' \subseteq targets)
      /\ hung' \subseteq hung \cup targets
      /\ 1..opened \subseteq 1..opened'
  BY <1>2 DEF OpenTab, CloseTab, HangTab, CreateTarget
<1>4. run' \in Runs /\ (run' = run \/ run'.at = "refresh")
  <2>1. CASE CreateTarget
    BY <1>2, <1>3, <2>1, GoToIs DEF CreateTarget, Places, CallPoints, Browserwide, Targets
  <2> QED
    BY <1>2, <2>1 DEF OpenTab, CloseTab, HangTab
<1>5. Types'
  BY <1>1, <1>2, <1>3, <1>4 DEF IInv, Types, Targets
<1>6. Listed' /\ OneSession' /\ Enabled' /\ LastSnapshot'
  BY <1>1, <1>3 DEF IInv, Listed, OneSession, Enabled, LastSnapshot
<1>7. Remembered'
  BY <1>1, <1>2, <1>3 DEF IInv, Remembered
<1>8. Brought'
  BY <1>1, <1>4 DEF IInv, Brought, OnPage, InUse
<1> QED
  BY <1>5, <1>6, <1>7, <1>8 DEF IInv

LEMMA CloseTargetKeeps ==
  ASSUME IInv, CloseTarget
  PROVE  IInv'
<1>1. /\ targets' \subseteq targets /\ pageEnabled' \subseteq pageEnabled
      /\ UNCHANGED <<pages, selected, snapshotSeq, uids, opened, hung, sessions>>
      /\ Sessions' = Sessions
  BY DEF CloseTarget, Sessions
<1>2. run' \in Runs /\ run'.at = "refreshClosed"
  BY GoIs DEF CloseTarget, IInv, Types, Places, CallPoints, Browserwide
<1>3. Types'
  BY <1>1, <1>2 DEF IInv, Types, Targets
<1>4. Listed' /\ Remembered' /\ OneSession' /\ Enabled' /\ LastSnapshot'
  BY <1>1 DEF IInv, Listed, Remembered, OneSession, Enabled, LastSnapshot
<1>5. Brought'
  BY <1>2 DEF Brought, OnPage, InUse
<1> QED
  BY <1>3, <1>4, <1>5 DEF IInv

LEMMA SnapshotsKeep ==
  ASSUME IInv, Tree \/ Extra
  PROVE  IInv'
<1> DEFINE s == SessionOf(run.page)
<1>1. /\ UNCHANGED <<pages, selected, pageEnabled, targets, opened, hung, sessions>>
      /\ Sessions' = Sessions
  BY DEF Tree, Extra, chromeVars, Sessions
<1>2. Known(pages') = Known(pages) /\ \A t : SessionOf(t)' = SessionOf(t)
  BY <1>1, PagesStay
<1>3. s \in pageEnabled /\ s \in Sessions
  BY DEF Tree, Extra, IInv, Brought, Enabled, InUse
<1>4. run \in Runs /\ run.page \in Known(pages) /\ snapshotSeq \in 0..MaxSnapshots
  BY DEF Tree, Extra, IInv, Types, Brought, OnPage, InUse
<1> HIDE DEF s
<1>5. CASE Tree
  <2>1. /\ snapshotSeq' = snapshotSeq + 1 /\ snapshotSeq' \in 1..MaxSnapshots
        /\ uids' = {[uid |-> <<snapshotSeq', "tree">>, session |-> s]}
    BY <1>4, <1>5, PagesAssumption DEF Tree, Reseed, Uid, s
  <2>2. run' \in Runs /\ run'.at = "extra" /\ run'.page = run.page
    BY <1>4, <1>5, GoIs DEF Tree, Places, CallPoints, InSession
  <2>3. Types'
    BY <1>1, <2>1, <2>2 DEF IInv, Types, Targets
  <2>4. LastSnapshot'
    BY <1>1, <1>3, <2>1 DEF LastSnapshot
  <2>5. Brought'
    BY <1>1, <1>2, <1>3, <1>4, <2>1, <2>2 DEF Brought, OnPage, InUse, s
  <2> QED
    BY <1>1, <2>3, <2>4, <2>5 DEF IInv, Listed, Remembered, OneSession, Enabled
<1>6. CASE Extra
  <2>1. /\ snapshotSeq' = snapshotSeq /\ snapshotSeq > 0 /\ \A e \in uids : e.session = s
        /\ \/ uids' = uids
           \/ uids' = uids \cup {[uid |-> <<snapshotSeq, "extra">>, session |-> s]}
    BY <1>6 DEF Extra, Uid, s, IInv, Brought
  <2>2. run' \in Runs /\ run'.at = "idle"
    BY <1>6, EndIs DEF Extra
  <2>3. Types'
    BY <1>1, <2>1, <2>2 DEF IInv, Types, Targets
  <2>4. LastSnapshot'
    BY <1>1, <1>3, <1>4, <2>1 DEF IInv, LastSnapshot
  <2>5. Brought'
    BY <2>2 DEF Brought, OnPage, InUse
  <2> QED
    BY <1>1, <2>3, <2>4, <2>5 DEF IInv, Listed, Remembered, OneSession, Enabled
<1> QED
  BY <1>5, <1>6

\* A page that has no session gets a new one, which no other tab has.
LEMMA AttachKeeps ==
  ASSUME IInv, Attach
  PROVE  IInv'
<1> DEFINE t == run.page
           p == PageOf(t)
           n == Len(sessions) + 1
<1>1. /\ pages \in Seq(PageRecords) /\ sessions \in Seq(SessionRecords)
      /\ Listed /\ Remembered /\ OneSession /\ Enabled /\ LastSnapshot /\ Brought /\ Types
  BY DEF IInv, Types
<1>2. PICK i \in DOMAIN pages : pages[i].target = t
  BY <1>1 DEF Attach, Brought, OnPage, Known
<1>3. p = i /\ pages[i].session = 0
  BY <1>1, <1>2, PageOfListed DEF Attach, NeedsAttach
<1>4. /\ t \in targets /\ t \in Nat /\ run.at = "attach"
      /\ sessions' = Append(sessions, [target |-> t, on |-> {}])
      /\ UNCHANGED <<selected, pageEnabled, snapshotSeq, uids, run, targets, opened, hung>>
  BY <1>1 DEF Attach, Types
<1>5. sessions' \in Seq(SessionRecords)
  <2>1. [target |-> t, on |-> {}] \in SessionRecords
    BY <1>4 DEF SessionRecords
  <2> QED
    BY <1>1, <1>4, <2>1
<1>6. /\ Sessions = 1..(n - 1) /\ Sessions' = 1..n /\ n \in Nat \ {0}
      /\ Len(sessions') = n
      /\ \A s \in Sessions : sessions'[s] = sessions[s]
      /\ sessions'[n].target = t
  BY <1>1, <1>4 DEF Sessions
<1>7. /\ pages' \in Seq(PageRecords) /\ DOMAIN pages' = DOMAIN pages
      /\ \A j \in DOMAIN pages : /\ pages'[j].target = pages[j].target
                                 /\ pages'[j].session = IF j = i THEN n ELSE pages[j].session
  <2>1. pages' = [pages EXCEPT ![i].session = n]
    BY <1>3, <1>6 DEF Attach
  <2>2. \A j \in DOMAIN pages : pages[j] \in PageRecords
    BY <1>1, SeqElement
  <2> QED
    BY <1>1, <1>6, <2>1, <2>2 DEF PageRecords
<1> HIDE DEF t, p, n
<1>8. \A s \in Sessions : sessions[s].target # t
  BY <1>1, <1>2, <1>3, <1>4, <1>6 DEF Remembered, Listed
<1>9. Types'
  BY <1>1, <1>4, <1>5, <1>7 DEF Types, Targets
<1>10. Listed'
  <2>1. ASSUME NEW j \in DOMAIN pages, pages'[j].session # 0
        PROVE  pages'[j].session \in 1..n /\ sessions'[pages'[j].session].target = pages[j].target
    <3>1. CASE j = i
      BY <1>2, <1>6, <1>7, <3>1
    <3>2. CASE j # i
      BY <1>1, <1>6, <1>7, <2>1, <3>2 DEF Listed
    <3> QED
      BY <3>1, <3>2
  <2> QED
    BY <1>1, <1>4, <1>6, <1>7, <2>1 DEF Listed
<1>11. Remembered'
  <2>1. ASSUME NEW s \in 1..n
        PROVE  /\ sessions'[s].target \in 1..opened
               /\ sessions'[s].target \in targets =>
                    \E j \in DOMAIN pages : pages'[j].target = sessions'[s].target /\ pages'[j].session = s
    <3>1. CASE s = n
      BY <1>1, <1>2, <1>6, <1>7, <3>1 DEF Listed
    <3>2. CASE s # n
      <4>1. s \in Sessions /\ sessions'[s] = sessions[s] /\ s # 0
        BY <1>6, <3>2
      <4>2. sessions[s].target \in targets =>
              \E j \in DOMAIN pages :
                 j # i /\ pages[j].target = sessions[s].target /\ pages[j].session = s
        BY <1>1, <1>3, <4>1 DEF Remembered
      <4> QED
        BY <1>1, <1>7, <4>1, <4>2 DEF Remembered
    <3> QED
      BY <3>1, <3>2
  <2> QED
    BY <1>4, <1>6, <1>7, <2>1 DEF Remembered
<1>12. OneSession'
  BY <1>1, <1>6, <1>8 DEF OneSession
<1>13. Enabled' /\ LastSnapshot'
  BY <1>1, <1>4, <1>6 DEF Enabled, LastSnapshot
<1>14. Brought'
  BY <1>1, <1>2, <1>4, <1>7 DEF Brought, OnPage, InUse, Known, t
<1> QED
  BY <1>9, <1>10, <1>11, <1>12, <1>13, <1>14 DEF IInv

\* The session counts as set up only with the last step.
LEMMA EnableKeeps ==
  ASSUME IInv, Enable
  PROVE  IInv'
<1> DEFINE s == SessionOf(run.page)
           N == Len(SetUp)
<1>1. /\ sessions \in Seq(SessionRecords) /\ pages \in Seq(PageRecords) /\ run \in Runs
      /\ Listed /\ Remembered /\ OneSession /\ Enabled /\ LastSnapshot /\ Brought /\ Types
  BY DEF IInv, Types
<1>2. /\ N \in Nat \ {0} /\ DOMAIN SetUp = 1..N
      /\ run.at = "enable" /\ run.page \in Known(pages) /\ s # 0 /\ run.step \in 1..N
      /\ \A i \in 1..(run.step - 1) : SetUp[i] \in sessions[s].on
  BY <1>1, SetUpFacts DEF Enable, Brought, OnPage
<1>3. s \in Sessions
  BY <1>1, <1>2, PageOfListed DEF Listed, Known
<1>4. /\ UNCHANGED <<pages, selected, snapshotSeq, uids, targets, opened, hung>>
      /\ sessions' = [sessions EXCEPT ![s].on = @ \cup {SetUp[run.step]}]
      /\ pageEnabled' = IF run.step = N THEN pageEnabled \cup {s} ELSE pageEnabled
  BY DEF Enable, MarkAfter
<1>5. Known(pages') = Known(pages) /\ \A t : SessionOf(t)' = SessionOf(t)
  BY <1>4, PagesStay
<1>6. \A r \in Sessions : sessions[r] \in SessionRecords
  BY <1>1, SeqElement DEF Sessions
<1>7. /\ sessions' \in Seq(SessionRecords) /\ Sessions' = Sessions
      /\ \A r \in Sessions :
           /\ sessions'[r].target = sessions[r].target
           /\ sessions'[r].on = IF r = s THEN sessions[r].on \cup {SetUp[run.step]} ELSE sessions[r].on
  <2>1. SetUp[run.step] \in Full
    BY <1>2 DEF Full
  <2> DEFINE new == [sessions[s] EXCEPT !.on = @ \cup {SetUp[run.step]}]
  <2>2. sessions' = [sessions EXCEPT ![s] = new]
    BY <1>4
  <2>3. /\ new \in SessionRecords /\ new.target = sessions[s].target
        /\ new.on = sessions[s].on \cup {SetUp[run.step]}
    BY <1>3, <1>6, <2>1 DEF SessionRecords
  <2> HIDE DEF new
  <2>4. /\ sessions' \in Seq(SessionRecords) /\ Sessions' = Sessions
        /\ \A r \in Sessions : sessions'[r] = IF r = s THEN new ELSE sessions[r]
    BY <1>1, <1>3, <2>2, <2>3, SeqExcept DEF Sessions
  <2> QED
    BY <2>3, <2>4
<1>8. run.step = N => sessions'[s].on = Full
  <2>1. sessions[s].on \subseteq Full /\ SetUp[run.step] \in Full
    BY <1>2, <1>3, <1>6 DEF SessionRecords, Full
  <2>2. ASSUME run.step = N, NEW i \in 1..N
        PROVE  SetUp[i] \in sessions[s].on \cup {SetUp[run.step]}
    <3>1. i = run.step \/ i \in 1..(run.step - 1)
      BY <1>2, <2>2
    <3> QED
      BY <1>2, <3>1
  <2>3. run.step = N => Full \subseteq sessions[s].on \cup {SetUp[run.step]}
    BY <1>2, <2>2 DEF Full
  <2> QED
    BY <1>3, <1>7, <2>1, <2>3
<1>9. /\ run' \in Runs /\ run'.page = run.page
      /\ IF run.step = N THEN run'.at = Body ELSE run'.at = "enable" /\ run'.step = run.step + 1
  <2>1. run' = IF run.step = N THEN [run EXCEPT !.at = Body, !.step = 0]
               ELSE [run EXCEPT !.step = @ + 1]
    BY DEF Enable
  <2>2. Body \in Places
    BY DEF Body, Places, CallPoints, InSession
  <2>3. CASE run.step = N
    BY <1>1, <2>1, <2>2, <2>3 DEF Runs
  <2>4. CASE run.step # N
    BY <1>1, <1>2, <2>1, <2>4 DEF Runs
  <2> QED
    BY <2>3, <2>4
<1> HIDE DEF s, N
<1>10. Types'
  BY <1>1, <1>4, <1>7, <1>9 DEF Types, Targets
<1>11. Listed' /\ Remembered' /\ OneSession' /\ LastSnapshot'
  BY <1>1, <1>4, <1>7 DEF Listed, Remembered, OneSession, LastSnapshot
<1>12. Enabled'
  BY <1>1, <1>2, <1>3, <1>4, <1>7, <1>8 DEF Enabled, Full
<1>13. Brought'
  <2>1. SessionOf(run.page)' = s /\ run'.page \in Known(pages')
    BY <1>2, <1>5, <1>9 DEF s
  <2>2. CASE run.step = N
    <3>1. s \in pageEnabled' /\ Body \in {"tree", "resolve", "use", "poll", "ready"}
      BY <1>4, <2>2 DEF Body
    <3> QED
      BY <1>9, <2>1, <2>2, <3>1 DEF Brought, OnPage, InUse
  <2>3. CASE run.step # N
    <3>1. run'.at = "enable" /\ run'.step = run.step + 1
      BY <1>9, <2>3
    <3>2. run'.step \in DOMAIN SetUp
      BY <1>2, <2>3, <3>1
    <3>3. \A i \in 1..(run'.step - 1) : SetUp[i] \in sessions'[s].on
      <4>1. ASSUME NEW i \in 1..run.step PROVE i = run.step \/ i \in 1..(run.step - 1)
        BY <1>2
      <4>2. sessions'[s].on = sessions[s].on \cup {SetUp[run.step]}
        BY <1>3, <1>7
      <4>3. 1..(run'.step - 1) = 1..run.step
        BY <1>2, <3>1
      <4> QED
        BY <1>2, <4>1, <4>2, <4>3
    <3> QED
      BY <1>2, <2>1, <3>1, <3>2, <3>3 DEF Brought, OnPage, InUse
  <2> QED
    BY <2>2, <2>3
<1> QED
  BY <1>10, <1>11, <1>12, <1>13 DEF IInv

-----------------------------------------------------------------------------
(* The theorems *)

LEMMA InitHolds == Init => IInv
<1> SUFFICES ASSUME Init PROVE IInv
  OBVIOUS
<1>1. Types
  BY PagesAssumption, IdleIsRun DEF Init, Types, Targets
<1>2. Listed /\ Remembered /\ OneSession /\ Enabled /\ LastSnapshot
  BY DEF Init, Listed, Remembered, OneSession, Enabled, LastSnapshot, Sessions
<1>3. Brought
  BY DEF Init, Idle, Brought, OnPage, InUse
<1> QED
  BY <1>1, <1>2, <1>3 DEF IInv

LEMMA NextKeeps == IInv /\ [Next]_vars => IInv'
<1> SUFFICES ASSUME IInv, [Next]_vars PROVE IInv'
  OBVIOUS
<1>1. CASE Next
  BY <1>1, RefreshingKeeps, MovingKeeps, TabsKeep, CloseTargetKeeps, SnapshotsKeep, AttachKeeps,
     EnableKeeps DEF Next, Progress, Chrome
<1>2. CASE UNCHANGED vars
  BY <1>2, KeepsRun, PagesStay DEF vars, serverVars, chromeVars, IInv, Types, Brought
<1> QED
  BY <1>1, <1>2

\* The inductive invariant holds throughout.
THEOREM InductiveHolds == Spec => []IInv
  BY InitHolds, NextKeeps, PTL DEF Spec

\* Every variable keeps its type.
THEOREM TypesHold == Spec => []TypeOK
<1>1. IInv => TypeOK
  <2> SUFFICES ASSUME IInv PROVE TypeOK
    OBVIOUS
  <2> USE PagesAssumption
  <2>1. \A i \in DOMAIN pages : pages[i] \in [target : Targets, session : {0} \cup Sessions]
    <3> SUFFICES ASSUME NEW i \in DOMAIN pages
                 PROVE  pages[i] \in [target : Targets, session : {0} \cup Sessions]
      OBVIOUS
    <3>1. pages[i] \in PageRecords
      BY SeqElement DEF IInv, Types
    <3>2. pages[i].target \in Targets /\ pages[i].session \in {0} \cup Sessions
      BY DEF IInv, Types, Listed, Targets
    <3> QED
      BY <3>1, <3>2 DEF PageRecords
  <2>2. run.at \in InSession \ {"center"} => SessionOf(run.page) \in Sessions
    <3>1. run.at = "enable" => SessionOf(run.page) \in Sessions
      BY PageOfListed DEF IInv, Brought, OnPage, Known, Listed
    <3> QED
      BY <3>1 DEF IInv, Brought, Enabled, InSession, InUse
  <2>3. run.at \in Places
    BY DEF IInv, Types, Runs
  <2> QED
    BY <2>1, <2>2, <2>3 DEF TypeOK, IInv, Types, Enabled, LastSnapshot, Remembered, Places
<1> QED
  BY <1>1, InductiveHolds, PTL

\* No tab is attached twice and no two pages share a session.
THEOREM OneSessionEach == Spec => []OneSessionPerTab
<1>1. IInv => OneSessionPerTab
  BY DEF IInv, OneSession, Listed, OneSessionPerTab
<1> QED
  BY <1>1, InductiveHolds, PTL

\* A tool works only on a page whose set-up is complete.
THEOREM ReadyPageUsed == Spec => []UsesReadyPage
<1>1. IInv => UsesReadyPage
  <2> SUFFICES ASSUME IInv, run.at \in InUse
               PROVE  /\ SessionOf(run.page) # 0
                      /\ sessions[SessionOf(run.page)].on = Full
    BY DEF UsesReadyPage, Full
  <2>1. SessionOf(run.page) \in pageEnabled
    BY DEF IInv, Brought
  <2> QED
    BY <2>1 DEF IInv, Types, Enabled, Sessions
<1> QED
  BY <1>1, InductiveHolds, PTL

\* A uid that is followed is one of the last snapshot, and that is of one page.
THEOREM FreshUids == Spec => []UidsAreFresh
<1>1. IInv => UidsAreFresh
  BY DEF IInv, LastSnapshot, Brought, UidsAreFresh
<1> QED
  BY <1>1, InductiveHolds, PTL

\* The selection moves only by the tools that select, or off a tab that is gone.
THEOREM SelectionKept == Spec => SelectionStays
<1>1. ASSUME [Next]_vars
      PROVE  [selected' # selected =>
                 \/ run.tool \in {"select_page", "new_page"}
                 \/ selected \notin Known(pages')]_vars
  <2>1. ASSUME NEW ps \in Refreshed, pages' = ps, selected' = FixSelection(ps), selected' # selected
        PROVE  selected \notin Known(pages')
    BY <2>1 DEF FixSelection
  <2>2. CASE ListPages \/ ClosePage \/ CloseDone \/ SelectedPage
    BY <2>1, <2>2 DEF ListPages, ClosePage, CloseDone, SelectedPage
  <2>3. CASE SelectPage \/ NewPage
    BY <2>3 DEF SelectPage, NewPage
  <2>4. CASE BeginTool
    BY <2>4 DEF BeginTool, Begin, serverVars
  <2>5. CASE Chrome \/ CreateTarget \/ CloseTarget
    BY <2>5 DEF Chrome, OpenTab, CloseTab, HangTab, CreateTarget, CloseTarget, serverVars
  <2>6. CASE Attach \/ AlreadyEnabled \/ Enable \/ Tree \/ Extra
    BY <2>6 DEF Attach, AlreadyEnabled, Enable, Tree, Extra, serverVars
  <2>7. CASE ResolveUID \/ Center \/ Dispatch \/ Use \/ Ready \/ Poll \/ PollAgain
    BY <2>7 DEF ResolveUID, Center, Dispatch, Use, Ready, Poll, PollAgain, serverVars
  <2>8. CASE CallFails \/ TimesOut \/ DeadlinePasses
    BY <2>8 DEF CallFails, TimesOut, DeadlinePasses, serverVars
  <2> QED
    BY <1>1, <2>2, <2>3, <2>4, <2>5, <2>6, <2>7, <2>8 DEF Next, Progress
<1> QED
  BY <1>1, PTL DEF Spec, SelectionStays

\* What the order of a list owes that of the list before it.
KeepsOrder(ps) ==
    \A i, j \in DOMAIN ps :
        LET a == ps[i].target
            b == ps[j].target
        IN  /\ {a, b} \subseteq Known(pages) /\ PageOf(a) < PageOf(b) => i < j
            /\ a \in Known(pages) /\ b \notin Known(pages) => i < j

\* A refresh keeps the order, whatever order Chrome reports its tabs in.
LEMMA RefreshKeepsOrder ==
  ASSUME NEW ps \in Refreshed
  PROVE  KeepsOrder(ps)
<1>1. PICK o \in SetToSeqs(targets) :
        /\ \A i, j \in DOMAIN o : Before(o[i], o[j]) => i < j
        /\ ps = [i \in DOMAIN o |-> PageState(o[i])]
  BY DEF Refreshed
<1>2. DOMAIN ps = DOMAIN o /\ \A i \in DOMAIN ps : ps[i].target = o[i]
  BY <1>1 DEF PageState
<1> QED
  BY <1>1, <1>2 DEF KeepsOrder, Before

\* A list of the same tabs in the same places keeps the order.
LEMMA SameTabsKeepOrder ==
  ASSUME Listed, NEW ps, DOMAIN ps = DOMAIN pages,
         \A i \in DOMAIN pages : ps[i].target = pages[i].target
  PROVE  KeepsOrder(ps)
<1> SUFFICES ASSUME NEW i \in DOMAIN pages, NEW j \in DOMAIN pages
             PROVE  LET a == pages[i].target
                        b == pages[j].target
                    IN  /\ {a, b} \subseteq Known(pages) /\ PageOf(a) < PageOf(b) => i < j
                        /\ a \in Known(pages) /\ b \notin Known(pages) => i < j
  BY DEF KeepsOrder
<1>1. PageOf(pages[i].target) = i /\ PageOf(pages[j].target) = j
  BY PageOfListed
<1>2. pages[j].target \in Known(pages)
  BY DEF Known
<1> QED
  BY <1>1, <1>2

\* An index read from a list only ever moves down (OrderIsStable).
THEOREM OrderKept == Spec => OrderIsStable
<1>1. ASSUME IInv, Next
      PROVE  KeepsOrder(pages')
  <2>1. ASSUME pages' = pages PROVE KeepsOrder(pages')
    BY <1>1, <2>1, SameTabsKeepOrder DEF IInv
  <2>2. CASE ListPages \/ ClosePage \/ CloseDone \/ SelectedPage \/ SelectPage \/ NewPage
    <3>1. pages' \in Refreshed \/ pages' = pages
      BY <2>2 DEF ListPages, ClosePage, CloseDone, SelectedPage, SelectPage, NewPage
    <3> QED
      BY <2>1, <3>1, RefreshKeepsOrder
  <2>3. CASE BeginTool \/ Chrome \/ CreateTarget \/ CloseTarget
    BY <2>1, <2>3 DEF BeginTool, Begin, Chrome, OpenTab, CloseTab, HangTab, CreateTarget, CloseTarget, serverVars
  <2>4. CASE Attach
    <3>1. \/ pages' = pages
          \/ pages' = [pages EXCEPT ![PageOf(run.page)].session = Len(sessions')]
      BY <2>4 DEF Attach
    <3>2. CASE pages' = [pages EXCEPT ![PageOf(run.page)].session = Len(sessions')]
      <4>1. DOMAIN pages' = DOMAIN pages /\ \A i \in DOMAIN pages : pages'[i].target = pages[i].target
        BY <3>2
      <4> QED
        BY <1>1, <4>1, SameTabsKeepOrder DEF IInv
    <3> QED
      BY <2>1, <3>1, <3>2
  <2>5. CASE AlreadyEnabled \/ Enable \/ Tree \/ Extra
    BY <2>1, <2>5 DEF AlreadyEnabled, Enable, Tree, Extra, serverVars
  <2>6. CASE ResolveUID \/ Center \/ Dispatch \/ Use \/ Ready \/ Poll \/ PollAgain
    BY <2>1, <2>6 DEF ResolveUID, Center, Dispatch, Use, Ready, Poll, PollAgain, serverVars
  <2>7. CASE CallFails \/ TimesOut \/ DeadlinePasses
    BY <2>1, <2>7 DEF CallFails, TimesOut, DeadlinePasses, serverVars
  <2> QED
    BY <1>1, <2>2, <2>3, <2>4, <2>5, <2>6, <2>7 DEF Next, Progress
<1>2. ASSUME IInv, [Next]_vars
      PROVE  [KeepsOrder(pages')]_vars
  BY <1>1, <1>2
<1>3. OrderIsStable <=> [][KeepsOrder(pages')]_vars
  BY DEF OrderIsStable, KeepsOrder
<1> QED
  BY <1>2, <1>3, InductiveHolds, PTL DEF Spec

================================================================================
