--------------------------- MODULE LocalFiles_proofs ---------------------------
(***************************************************************************)
(* Proofs about files: what pages show of them and what tools write.  Of   *)
(* LocalFiles and the Navigate it extends, for any hosts and patterns, any *)
(* configurations, any local files and work directories, and any number of *)
(* documents, wherever the refused places move: a guarded page comes to    *)
(* show only what was opened, what a tool accepted is blocked by such a    *)
(* move alone, no tool works on a file nobody opened, no load event slips  *)
(* past a navigation, and a document found loaded is no timeout.  Of       *)
(* OutputFile, for any number of changes other programs make: what is      *)
(* written stays in the directory the root was opened on, the final name   *)
(* shows the old file or the whole new one, no temporary file is left, and *)
(* the answer says where the file is.                                      *)
(***************************************************************************)
EXTENDS LocalFiles, OutputFile, SequenceTheorems, TLAPS

\* Messages when n documents have loaded: a load event is that of one of them, so
\* that a new document cannot have been heard of.
Messages(n) ==
    {m \in [kind : {"load", "ok", "error"}, doc : Nat] : IsEvent(m) => m.doc \in 1..n}

\* The documents whose load event has been sent: those up to this one.
Done == IF ready = "complete" THEN doc ELSE doc - 1

NInv ==
    /\ TypeOK
    /\ wire \in Seq(Messages(Done)) /\ seen \subseteq 1..Done
    /\ LoadIsNotMissed

\* What the lists allow and the directories open, whatever is refused at the moment.
Covered(roots, url) ==
    /\ CheckURL(url)
    /\ url \in LocalUrls => \E d \in roots : url \in Inside[d]

\* A local file in a granted directory, and in no place that is always refused.
Inward(url) ==
    url \in LocalUrls => url \notin Refused /\ \E d \in granted : url \in Inside[d]

\* A navigation a tool is bringing on its way is covered by directories that are
\* granted before it is asked for.
Accepted ==
    /\ step = "list" => tool # "none"
    /\ step = "attach" => tool \in {"navigate", "use"}
    /\ step \in {"attached", "call"} => tool = "navigate"
    /\ step \in {"list", "attach", "attached", "call"} /\ tool \in {"navigate", "new"} =>
        Covered(goal.dirs, goal.url)
    /\ step = "call" => goal.dirs \subseteq granted

\* So is what a tool's load shows, and what the interception has let go.
Allowed ==
    /\ main.of = "tool" => Covered(granted, main.url)
    /\ main.state = "go" => CheckURL(main.url) /\ Inward(main.url)

\* What a tool is to work on was judged when the pages were listed, and what the
\* tab came to show since then went through the interception or is noted.
Judged ==
    /\ step \in {"record", "work"} \/ (step = "attach" /\ tool = "use") =>
        early \/ Inward(shown)
    /\ step = "work" /\ tool = "record" => Inward(goal.url)

IInv == NInv /\ LTypeOK /\ Accepted /\ Allowed /\ Judged

-----------------------------------------------------------------------------
(* Navigate *)

LEMMA LargerSeq ==
  ASSUME NEW S, NEW T, S \subseteq T, NEW s \in Seq(S)
  PROVE  s \in Seq(T)
OBVIOUS

LEMMA OneTakenAway ==
  ASSUME NEW S, NEW s \in Seq(S), NEW k \in 1..Len(s)
  PROVE  RemoveAt(s, k) \in Seq(S)
<1>1. SubSeq(s, 1, k - 1) \in Seq(S)
  BY SubSeqProperties
<1>2. SubSeq(s, k + 1, Len(s)) \in Seq(S)
  BY SubSeqProperties
<1> QED
  BY <1>1, <1>2, ConcatProperties DEF RemoveAt

LEMMA MessageFacts ==
  ASSUME NEW n \in Nat
  PROVE  /\ \A m \in Messages(n) : m.kind \in {"load", "ok", "error"} /\ (IsEvent(m) => m.doc \in 1..n)
         /\ \A k \in {"ok", "error"} : [kind |-> k, doc |-> 0] \in Messages(n)
         /\ \A d \in 1..n : [kind |-> "load", doc |-> d] \in Messages(n)
         /\ \A m \in Nat : n <= m => Messages(n) \subseteq Messages(m)
BY DEF Messages, IsEvent

LEMMA AnswerOnWire ==
  ASSUME NEW n \in Nat, wire \in Seq(Messages(n)), NEW m \in {"ok", "error"}, Answer(m)
  PROVE  wire' \in Seq(Messages(n))
BY MessageFacts, AppendProperties DEF Answer, Message

LEMMA UnansweredOnWire ==
  ASSUME NEW n \in Nat, wire \in Seq(Messages(n))
  PROVE  Unanswered \in Seq(Messages(n))
<1>1. Replies # {} => (CHOOSE i \in Replies : TRUE) \in 1..Len(wire)
  BY DEF Replies
<1> QED
  BY <1>1, OneTakenAway DEF Unanswered

LEMMA ReadKeepsN ==
  ASSUME NInv, ReadMessage
  PROVE  NInv'
<1> DEFINE msg == Head(wire)
<1>1. /\ doc \in 1..MaxDocs /\ MaxDocs \in Nat /\ Done \in Nat /\ Done <= doc /\ seen \subseteq 1..Done
      /\ waiter \in {None, Empty} \cup 1..MaxDocs /\ (pc = "idle" <=> waiter = None)
      /\ wire # <<>> /\ wire \in Seq(Messages(Done))
  BY NavigateAssumption DEF NInv, TypeOK, ReadMessage, Done
<1>2. /\ wire' = Tail(wire) /\ UNCHANGED <<pc, result, heard, mine, asked, doc, ready, Done>>
      /\ \/ /\ IsEvent(msg)
            /\ waiter' = IF waiter = Empty THEN msg.doc ELSE waiter
            /\ seen' = seen \cup {msg.doc}
            /\ UNCHANGED got
         \/ ~IsEvent(msg) /\ got' = msg.kind /\ UNCHANGED <<waiter, seen>>
  BY DEF ReadMessage, chromeVars, Done
<1>3. /\ msg \in Messages(Done) /\ wire' \in Seq(Messages(Done))
  BY <1>1, <1>2, HeadTailProperties
<1>4. /\ msg.kind \in {"load", "ok", "error"} /\ (IsEvent(msg) => msg.doc \in 1..Done)
      /\ IsEvent(msg) <=> msg.kind = "load"
  <2> HIDE DEF msg
  <2> QED
    BY <1>1, <1>3, MessageFacts DEF IsEvent
<1> HIDE DEF msg
<1>5. CASE ~IsEvent(msg)
  BY <1>2, <1>3, <1>4, <1>5 DEF NInv, TypeOK, LoadIsNotMissed
<1>6. CASE IsEvent(msg)
  <2>1. /\ waiter' \in {None, Empty} \cup 1..MaxDocs /\ (waiter' = None <=> waiter = None)
        /\ waiter' # Empty /\ (waiter # Empty => waiter' = waiter)
        /\ seen' \subseteq 1..Done /\ seen' \subseteq 1..doc
    <3>1. msg.doc \in 1..MaxDocs /\ waiter' = (IF waiter = Empty THEN msg.doc ELSE waiter)
          /\ seen' = seen \cup {msg.doc} /\ msg.doc \in 1..Done
      BY <1>1, <1>2, <1>4, <1>6
    <3>5. 1..Done \subseteq 1..doc
      BY <1>1
    <3>2. seen' \subseteq 1..Done /\ seen' \subseteq 1..doc
      BY <1>1, <3>1, <3>5
    <3>3. CASE waiter = Empty
      BY <3>1, <3>2, <3>3 DEF None, Empty
    <3>4. CASE waiter # Empty
      BY <1>1, <3>1, <3>2, <3>4
    <3> QED
      BY <3>3, <3>4
  <2> QED
    BY <1>1, <1>2, <1>3, <1>6, <2>1 DEF NInv, TypeOK, LoadIsNotMissed
<1> QED
  BY <1>5, <1>6

LEMMA DoneIs ==
  ASSUME TypeOK
  PROVE  /\ Done \in Nat /\ Done \in doc-1..doc
         /\ UNCHANGED <<doc, ready>> => Done' = Done
BY NavigateAssumption DEF TypeOK, Done

\* A navigation goes on, and so does the page.
LEMMA NextKeepsN ==
  ASSUME NInv, Next
  PROVE  NInv'
<1> USE NavigateAssumption DEF NInv, TypeOK, LoadIsNotMissed, None, Empty, toolVars, chromeVars
<1>0. /\ Done \in Nat /\ Done \in doc-1..doc
      /\ UNCHANGED <<doc, ready>> => Done' = Done
  BY DoneIs
<1>1. CASE Call
  BY <1>0, <1>1 DEF Call, WaitFirst
<1>2. CASE CallReturns
  BY <1>0, <1>2 DEF CallReturns, End
<1>3. CASE CallTimesOut
  BY <1>0, <1>3, UnansweredOnWire DEF CallTimesOut, End
<1>4. CASE Loaded
  BY <1>0, <1>4 DEF Loaded, End
<1>5. CASE TimerFires
  BY <1>0, <1>5 DEF TimerFires
<1>6. CASE CheckReadyState \/ CheckFails
  BY <1>0, <1>6 DEF CheckReadyState, CheckFails, End
<1>7. CASE ReadMessage
  BY <1>7, ReadKeepsN
<1>8. CASE Commit
  <2>1. Done' = doc /\ Done \in Nat /\ doc \in Nat /\ Done \in doc-1..doc
    BY <1>0, <1>8 DEF Commit, Done
  <2>5. Done <= Done' /\ Done' \in Nat /\ Done \in Nat
    BY <2>1
  <2>6. Messages(Done) \subseteq Messages(Done') /\ 1..Done \subseteq 1..Done'
    BY <2>5, MessageFacts
  <2>2. wire \in Seq(Messages(Done')) /\ seen \subseteq 1..Done'
    BY <2>6, LargerSeq
  <2>3. wire' \in Seq(Messages(Done'))
    BY <1>8, <2>1, <2>2, AnswerOnWire DEF Commit
  <2> QED
    BY <1>8, <2>1, <2>2, <2>3 DEF Commit
<1>9. CASE SameDocument \/ NavigationFails
  <2>1. wire' \in Seq(Messages(Done))
    BY <1>0, <1>9, AnswerOnWire DEF SameDocument, NavigationFails
  <2> QED
    BY <1>0, <1>9, <2>1 DEF SameDocument, NavigationFails
<1>10. CASE PageNavigates
  <2>1. Done' = doc /\ Done \in Nat /\ doc \in Nat /\ Done \in doc-1..doc
    BY <1>0, <1>10 DEF PageNavigates, Done
  <2>5. Done <= Done' /\ Done' \in Nat /\ Done \in Nat
    BY <2>1
  <2>6. Messages(Done) \subseteq Messages(Done') /\ 1..Done \subseteq 1..Done'
    BY <2>5, MessageFacts
  <2>2. wire \in Seq(Messages(Done')) /\ seen \subseteq 1..Done'
    BY <2>6, LargerSeq
  <2> QED
    BY <1>10, <2>1, <2>2 DEF PageNavigates
<1>11. CASE Interactive
  <2>1. Done' = Done
    BY <1>11 DEF Interactive, Done
  <2> QED
    BY <1>11, <2>1 DEF Interactive
<1>12. CASE Complete
  <2>1. Done' = doc /\ Done \in Nat /\ doc \in Nat /\ Done = doc - 1
    BY <1>12 DEF Complete, Done
  <2>5. Done <= Done' /\ Done' \in Nat /\ Done \in Nat
    BY <2>1
  <2>6. Messages(Done) \subseteq Messages(Done') /\ 1..Done \subseteq 1..Done'
    BY <2>5, MessageFacts
  <2>2. wire \in Seq(Messages(Done')) /\ seen \subseteq 1..Done'
    BY <2>6, LargerSeq
  <2>3. [kind |-> "load", doc |-> doc] \in Messages(Done')
    BY <2>1, MessageFacts
  <2>4. wire' \in Seq(Messages(Done'))
    BY <1>12, <2>2, <2>3, AppendProperties DEF Complete, Message
  <2> QED
    BY <1>12, <2>2, <2>4 DEF Complete
<1> QED
  BY <1>1, <1>2, <1>3, <1>4, <1>5, <1>6, <1>7, <1>8, <1>9, <1>10, <1>11, <1>12 DEF Next, Tool

LEMMA StaysN ==
  ASSUME NInv, UNCHANGED vars
  PROVE  NInv'
<1>1. Done' = Done
  BY DEF Done, vars, chromeVars
<1> QED
  BY <1>1 DEF NInv, TypeOK, LoadIsNotMissed, vars, toolVars, chromeVars, None, Empty

LEMMA NewTabKeepsN ==
  ASSUME NInv, NEW url, NewTab(url)
  PROVE  NInv'
<1>1. <<>> \in Seq(Messages(Done'))
  OBVIOUS
<1> QED
  BY <1>1, NavigateAssumption DEF NewTab, NInv, TypeOK, LoadIsNotMissed, None, Empty

LEMMA LNextKeepsN ==
  ASSUME NInv, LNext
  PROVE  NInv'
<1>1. CASE ListNew
  BY <1>1, NewTabKeepsN DEF ListNew
<1>2. CASE \E url \in Urls : OtherTab(url)
  BY <1>2, NewTabKeepsN DEF OtherTab
<1>3. CASE Answered
  <2>1. Done' = Done
    BY <1>3, DoneIs DEF Answered, NInv
  <2> QED
    BY <1>3, <2>1, NavigateAssumption DEF Answered, NInv, TypeOK, LoadIsNotMissed, None, Empty
<1>4. CASE CallNavigate \/ Navigating \/ Show \/ WithinDocument \/ LoadFails \/ Chrome
  <2>1. Next \/ UNCHANGED vars
    BY <1>4 DEF CallNavigate, Navigating, Show, WithinDocument, LoadFails, Chrome, Next, Tool
  <2> QED
    BY <2>1, NextKeepsN, StaysN
<1>5. CASE UNCHANGED vars
  BY <1>5, StaysN
<1> QED
  BY <1>1, <1>2, <1>3, <1>4, <1>5
    DEF LNext, LTool, BeginNavigate, BeginUse, BeginRecord, List, ListForRecord, JudgeRecord, Guard,
        Attached, Grant, Work, ListOrAttachFails, Decide, PageLoads, Redirect, PlacesChange

-----------------------------------------------------------------------------
(* The host lists *)

\* A pattern matches a host exactly when the host is one it names.
Wild(d) == <<"*">> \o d

LEMMA MatchesNamed ==
  ASSUME NEW S, "*" \in S, NEW host \in Seq(S), NEW p \in Seq(S), p # <<>>
  PROVE  MatchHostPattern(p, host) <=>
            p \in {<<"*">>, host} \cup {<<"*">> \o d : d \in Above(host)}
<1> DEFINE m == Len(p) - 1
           n == Len(host)
<1>1. /\ m \in Nat /\ n \in Nat /\ Head(p) = p[1]
      /\ Tail(p) \in Seq(S) /\ Len(Tail(p)) = m
      /\ \A i \in 1..m : Tail(p)[i] = p[i + 1]
  BY HeadTailProperties
<1>2. (IsSuffix(Tail(p), host) /\ n > m) <=> (n > m /\ Tail(p) = SubSeq(host, n - m + 1, n))
  <2> SUFFICES ASSUME n > m
               PROVE  IsSuffix(Tail(p), host) <=> Tail(p) = SubSeq(host, n - m + 1, n)
    OBVIOUS
  <2> DEFINE t == Tail(p)
             e == SubSeq(host, n - m + 1, n)
             rt == Reverse(t)
             rh == Reverse(host)
  <2>1. e \in Seq(S) /\ Len(e) = m /\ \A i \in 1..m : e[i] = host[n - m + i]
    BY <1>1, SubSeqProperties
  <2>2. rt \in Seq(S) /\ Len(rt) = m /\ \A i \in 1..m : rt[i] = t[m - i + 1]
    BY <1>1 DEF Reverse
  <2>3. rh \in Seq(S) /\ Len(rh) = n /\ \A i \in 1..m : rh[i] = host[n - i + 1]
    BY <1>1 DEF Reverse
  <2> HIDE DEF t, e, rt, rh, m, n
  <2>4. /\ SubSeq(rt, 1, m) \in Seq(S) /\ Len(SubSeq(rt, 1, m)) = m
        /\ \A i \in 1..m : SubSeq(rt, 1, m)[i] = rt[i]
    BY <1>1, <2>2, SubSeqProperties
  <2>5. /\ SubSeq(rh, 1, m) \in Seq(S) /\ Len(SubSeq(rh, 1, m)) = m
        /\ \A i \in 1..m : SubSeq(rh, 1, m)[i] = rh[i]
    BY <1>1, <2>3, SubSeqProperties
  <2>6. IsSuffix(t, host) <=> SubSeq(rt, 1, m) = SubSeq(rh, 1, m)
    BY <1>1, <2>2, <2>3 DEF IsSuffix, IsPrefix, rt, rh
  <2>7. SubSeq(rt, 1, m) = SubSeq(rh, 1, m) <=> \A i \in 1..m : rt[i] = rh[i]
    BY <2>4, <2>5, SeqEqual
  <2>8. (\A i \in 1..m : rt[i] = rh[i]) <=> \A i \in 1..m : t[i] = e[i]
    <3>1. \A i \in 1..m : m - i + 1 \in 1..m /\ m - (m - i + 1) + 1 = i /\ n - m + (m - i + 1) = n - i + 1
      BY <1>1
    <3>2. \A i \in 1..m : rt[i] = t[m - i + 1] /\ rh[i] = e[m - i + 1]
      <4> SUFFICES ASSUME NEW i \in 1..m
                 PROVE  rt[i] = t[m - i + 1] /\ rh[i] = e[m - i + 1]
      OBVIOUS
    <4> DEFINE j == m - i + 1
    <4>1. j \in 1..m /\ n - m + j = n - i + 1
      BY <3>1
    <4> HIDE DEF j
    <4>2. e[j] = host[n - m + j]
      BY <2>1, <4>1
    <4>3. e[j] = rh[i]
      BY <2>3, <4>1, <4>2
    <4> QED
      BY <2>2, <4>3 DEF j
    <3> QED
      BY <3>1, <3>2
  <2>9. (\A i \in 1..m : t[i] = e[i]) <=> t = e
    BY <1>1, <2>1, SeqEqual DEF t
  <2> QED
    BY <2>6, <2>7, <2>8, <2>9 DEF t, e
<1>3. (Head(p) = "*" /\ n > m /\ Tail(p) = SubSeq(host, n - m + 1, n)) <=>
         \E d \in Above(host) : p = Wild(d)
  <2>1. ASSUME NEW d \in Seq(S)
        PROVE  p = Wild(d) <=> p[1] = "*" /\ Tail(p) = d
    <3> DEFINE q == Wild(d)
    <3>0. <<"*">> \in Seq(S) /\ Len(<<"*">>) = 1 /\ <<"*">>[1] = "*"
      OBVIOUS
    <3>1. q \in Seq(S) /\ Len(q) = Len(d) + 1 /\ q[1] = "*" /\ \A i \in 1..Len(d) : q[i + 1] = d[i]
      BY <3>0, ConcatProperties DEF Wild
    <3> HIDE DEF q
    <3>2. ASSUME p = q PROVE p[1] = "*" /\ Tail(p) = d
      BY <1>1, <3>1, <3>2, SeqEqual
    <3>3. ASSUME p[1] = "*", Tail(p) = d PROVE p = q
      <4>1. ASSUME NEW i \in 1..Len(p) PROVE p[i] = q[i]
        <5>1. CASE i = 1
          BY <3>1, <3>3, <5>1
        <5>2. CASE i > 1
          <6>1. i - 1 \in 1..m /\ i = (i - 1) + 1
            BY <5>2
          <6> QED
            BY <1>1, <3>1, <3>3, <6>1
        <5> QED
          BY <5>1, <5>2
      <4> QED
        BY <1>1, <3>1, <3>3, <4>1, SeqEqual
    <3> QED
      BY <3>2, <3>3 DEF q
  <2>2. \A k \in 1..n : /\ SubSeq(host, k + 1, n) \in Seq(S)
                        /\ Len(SubSeq(host, k + 1, n)) = n - k
    BY <1>1, SubSeqProperties
  <2>3. ASSUME Head(p) = "*", n > m, Tail(p) = SubSeq(host, n - m + 1, n)
        PROVE  \E d \in Above(host) : p = Wild(d)
    <3>1. n - m \in 1..n
      BY <1>1, <2>3
    <3>2. Tail(p) \in Above(host)
      BY <2>3, <3>1 DEF Above
    <3>3. p = Wild(Tail(p))
      BY <1>1, <2>1, <2>3
    <3> QED
      BY <3>2, <3>3
  <2>4. ASSUME NEW k \in 1..n, p = Wild(SubSeq(host, k + 1, n))
        PROVE  Head(p) = "*" /\ n > m /\ Tail(p) = SubSeq(host, n - m + 1, n)
    <3>1. p[1] = "*" /\ Tail(p) = SubSeq(host, k + 1, n)
      BY <2>1, <2>2, <2>4
    <3>2. m = n - k
      BY <1>1, <2>2, <3>1
    <3>3. n - m + 1 = k + 1 /\ n > m
      BY <1>1, <3>2
    <3> HIDE DEF m, n
    <3> QED
      BY <1>1, <3>1, <3>3
  <2> QED
    BY <2>3, <2>4 DEF Above
<1>4. MatchHostPattern(p, host) <=>
        \/ p = <<"*">> \/ host = p
        \/ Head(p) = "*" /\ n > m /\ Tail(p) = SubSeq(host, n - m + 1, n)
  BY <1>1, <1>2 DEF MatchHostPattern
<1> QED
  BY <1>3, <1>4 DEF Wild

LEMMA AllowedIsOpened ==
  ASSUME filter \in Filters, NEW url \in Urls, CheckURL(url), NEW closed,
         url \in LocalUrls => url \notin closed /\ \E d \in granted : url \in Inside[d]
  PROVE  Opened(url, closed)
<1> USE LocalFilesAssumption
<1>1. CASE url \in LocalUrls
  <2>1. ~filter.blockLocal
    BY <1>1 DEF CheckURL, UrlAllowed, Active
  <2>2. url \in (UNION {Inside[d] : d \in granted}) \ closed
    <3>1. PICK d \in granted : url \in Inside[d]
      BY <1>1
    <3>2. Inside[d] \in {Inside[r] : r \in granted}
      OBVIOUS
    <3> DEFINE open == UNION {Inside[r] : r \in granted}
    <3>3. url \in open /\ url \notin closed
      BY <1>1, <3>1, <3>2
    <3> HIDE DEF open
    <3>4. url \in open \ closed
      BY <3>3
    <3> QED
      BY <3>4 DEF open
  <2> QED
    BY <1>1, <2>1, <2>2 DEF Opened
<1>2. CASE url \in Web
  <2>1. filter.block \cup filter.allow \subseteq Seq(STRING) \ {<<>>} /\ Host[url] \in Seq(STRING)
    BY <1>2
  <2>2. \A p \in filter.block \cup filter.allow :
          MatchHostPattern(p, Host[url]) <=>
            p \in {<<"*">>, Host[url]} \cup {<<"*">> \o d : d \in Above(Host[url])}
    <3> DEFINE S == STRING \cup {"*"}
    <3>1. "*" \in S /\ STRING \subseteq S
      OBVIOUS
    <3> HIDE DEF S
    <3>2. Host[url] \in Seq(S) /\ \A p \in filter.block \cup filter.allow : p \in Seq(S) /\ p # <<>>
      BY <2>1, <3>1, LargerSeq
    <3> QED
      BY <3>1, <3>2, MatchesNamed
  <2>3. \A ps \in {filter.block, filter.allow} :
          url \in Named(ps) <=> \E p \in ps : MatchHostPattern(p, Host[url])
    BY <1>2, <2>2 DEF Named
  <2>4. Active => HostAllowed(Host[url])
    BY <1>2 DEF CheckURL, UrlAllowed
  <2>5. url \notin Named(filter.block) /\ (filter.allow # {} => url \in Named(filter.allow))
    BY <2>3, <2>4 DEF Active, HostAllowed
  <2> QED
    BY <1>2, <2>5 DEF Opened
<1>3. CASE url \notin LocalUrls \cup Web
  BY <1>3 DEF Opened
<1> QED
  BY <1>1, <1>2, <1>3

\* What the interception lets go is what is covered and in no refused place.
LEMMA AllowedIs ==
  ASSUME filter \in Filters, NEW url
  PROVE  RequestAllowed(url) <=> Covered(granted, url) /\ (url \in LocalUrls => url \notin refused)
BY LocalFilesAssumption
   DEF CheckURL, RequestAllowed, FileRequestAllowed, Active, UrlAllowed, JudgeLocal, Covered

\* What is not refused on a page, or let go, is inward.
LEMMA JudgedIsInward ==
  ASSUME Refused \subseteq refused, NEW url
  PROVE  ~RefuseUngrantedLocal(url) => Inward(url)
BY DEF RefuseUngrantedLocal, JudgeLocal, Inward

-----------------------------------------------------------------------------
(* The layers around a navigation *)

LEMMA AllowedStays ==
  ASSUME granted \subseteq granted', UNCHANGED filter
  PROVE  \A url : /\ CheckURL(url) => CheckURL(url)'
                  /\ Covered(granted, url) => Covered(granted, url)'
                  /\ Inward(url) => Inward(url)'
<1> SUFFICES ASSUME NEW url
             PROVE  /\ CheckURL(url) => CheckURL(url)'
                    /\ Covered(granted, url) => Covered(granted, url)'
                    /\ Inward(url) => Inward(url)'
  OBVIOUS
<1>1. (Active <=> Active') /\ (UrlAllowed(url) <=> UrlAllowed(url)')
  BY DEF Active, UrlAllowed, HostAllowed
<1>2. CheckURL(url) => CheckURL(url)'
  BY <1>1 DEF CheckURL
<1>3. Inward(url) => Inward(url)'
  BY DEF Inward
<1>4. Covered(granted, url) => Covered(granted, url)'
  BY <1>2 DEF Covered
<1> QED
  BY <1>2, <1>3, <1>4

\* A navigation keeps what it was accepted for.
LEMMA CoveredStays ==
  ASSUME UNCHANGED <<filter, goal>>
  PROVE  Covered(goal.dirs, goal.url) => Covered(goal.dirs, goal.url)'
<1>1. CheckURL(goal.url) => CheckURL(goal.url)'
  BY DEF CheckURL, Active, UrlAllowed, HostAllowed
<1> QED
  BY <1>1 DEF Covered

LEMMA LoadIs ==
  ASSUME NEW of \in {"tool", "page"}, NEW url \in Urls
  PROVE  /\ Load(of, url) \in [of : {"none", "tool", "redirected", "page"}, url : Urls,
                               state : {"none", "early", "paused", "go", "stop"}]
         /\ Load(of, url).of = of /\ Load(of, url).url = url
         /\ Load(of, url).state \in {"early", "paused", "go"}
         /\ Load(of, url).state = "go" => CheckURL(url) /\ url \notin LocalUrls
BY DEF Load, CheckURL

\* A tab that is another one: nothing was granted to it or asked of it.
LEMMA NewTabIs ==
  ASSUME NEW url \in Urls, NewTab(url)
  PROVE  /\ guarded' = FALSE /\ granted' = {} /\ shown' = url
         /\ main'.of = "none" /\ main'.state = "none" /\ main'.url \in Urls
         /\ main' \in [of : {"none", "tool", "redirected", "page"}, url : Urls,
                       state : {"none", "early", "paused", "go", "stop"}]
         /\ Allowed' /\ pc' = pc
BY DEF NewTab, NoLoad, Urls, Allowed

LEMMA UrlsHaveBlank == "blank" \in Urls /\ NoGoal \in [url : Urls, dirs : SUBSET Dirs]
BY DEF Urls, NoGoal

\* A tool begins with what it was asked for.
LEMMA BeginKeeps ==
  ASSUME IInv,
         \/ \E t \in {"navigate", "new"}, url \in Urls \ {"blank"}, d \in Dirs : BeginNavigate(t, url, d)
         \/ BeginUse \/ \E url \in Urls : BeginRecord(url)
  PROVE  LTypeOK' /\ Accepted' /\ Allowed' /\ Judged'
<1> USE DEF IInv, LTypeOK, Accepted, Judged
<1>1. UNCHANGED <<filter, refused, guarded, granted, early, shown, main, vars>>
  BY DEF BeginNavigate, BeginUse, BeginRecord, rules, tabVars, pageVars
<1>2. TypeOK' /\ Allowed' /\ UNCHANGED pc
  BY <1>1, StaysN, AllowedStays DEF NInv, Allowed, vars, toolVars
<1>3. ASSUME NEW t \in {"navigate", "new"}, NEW url \in Urls, NEW d \in Dirs, BeginNavigate(t, url, d)
      PROVE  LTypeOK' /\ Accepted' /\ Judged'
  <2>1. /\ step = "free" /\ step' = "list" /\ tool' = t /\ locked' = TRUE
        /\ goal'.url = url /\ goal' \in [url : Urls, dirs : SUBSET Dirs]
        /\ CheckURL(url) /\ (url \in LocalUrls => goal'.dirs = {d} /\ url \in Inside[d])
    BY <1>3 DEF BeginNavigate, CheckLocalURL, JudgeLocal
  <2>2. CheckURL(url)'
    BY <1>1, <2>1, AllowedStays
  <2>3. Covered(goal.dirs, goal.url)'
    BY <2>1, <2>2 DEF Covered
  <2> QED
    BY <1>1, <1>2, <2>1, <2>3
<1>4. CASE BeginUse
  BY <1>1, <1>2, <1>4 DEF BeginUse
<1>5. ASSUME NEW url \in Urls, BeginRecord(url)
      PROVE  LTypeOK' /\ Accepted' /\ Judged'
  BY <1>1, <1>2, <1>5 DEF BeginRecord
<1> QED
  BY <1>2, <1>3, <1>4, <1>5

\* A tool has ended.
LEMMA FreeKeeps ==
  ASSUME IInv, Free, UNCHANGED <<filter, refused, granted, guarded, shown, main>>, early' \in BOOLEAN,
         TypeOK', pc' = "idle"
  PROVE  LTypeOK' /\ Accepted' /\ Allowed' /\ Judged'
<1>1. step' = "free" /\ tool' = "none" /\ goal' = NoGoal /\ locked' = FALSE
  BY DEF Free
<1>2. LTypeOK'
  <2>1. goal' \in [url : Urls, dirs : SUBSET Dirs]
    BY <1>1, UrlsHaveBlank
  <2>2. locked' \in BOOLEAN /\ (locked' <=> step' \in {"list", "attach"}) /\ (pc' # "idle" <=> step' = "navigating")
    BY <1>1
  <2> QED
    BY <1>1, <2>1, <2>2 DEF IInv, LTypeOK
<1>3. Accepted' /\ Judged'
  BY <1>1 DEF Accepted, Judged
<1>4. Allowed'
  BY AllowedStays DEF IInv, Allowed
<1> QED
  BY <1>2, <1>3, <1>4

\* A tool goes on with its page as it is.
LEMMA GoesOn ==
  ASSUME IInv, UNCHANGED <<filter, refused, tool, goal, granted, shown, main>>, TypeOK',
         guarded' \in BOOLEAN, early' \in BOOLEAN,
         step' \in {"attach", "attached", "call", "record", "work", "navigating", "answer"},
         locked' \in BOOLEAN /\ (locked' <=> step' = "attach"), (pc' # "idle" <=> step' = "navigating"),
         step' = "attach" => tool \in {"navigate", "use"} /\ step \in {"list", "attach"},
         step' = "attached" => tool = "navigate" /\ step = "attach",
         step' # "call",
         step' \in {"record", "work"} \/ (step' = "attach" /\ tool = "use") =>
             early' \/ Inward(shown),
         step' = "work" /\ tool = "record" => Inward(goal.url)
  PROVE  LTypeOK' /\ Accepted' /\ Allowed' /\ Judged'
<1>1. \A url : /\ CheckURL(url) => CheckURL(url)'
               /\ Covered(granted, url) => Covered(granted, url)'
               /\ Inward(url) => Inward(url)'
  BY AllowedStays
<1>2. LTypeOK'
  BY DEF IInv, LTypeOK
<1>3. Accepted'
  BY CoveredStays DEF IInv, Accepted
<1>4. Judged'
  BY <1>1 DEF Judged
<1>5. Allowed'
  BY <1>1 DEF IInv, Allowed
<1> QED
  BY <1>2, <1>3, <1>4, <1>5

\* A step of a tool that leaves the tab and what was accepted as they are.
LEMMA ToolKeeps ==
  ASSUME IInv,
         \/ ListForRecord \/ JudgeRecord \/ Guard \/ Attached \/ Navigating \/ Answered
         \/ Work \/ ListOrAttachFails
  PROVE  LTypeOK' /\ Accepted' /\ Allowed' /\ Judged'
<1>1. /\ TypeOK' /\ Accepted /\ Judged /\ guarded \in BOOLEAN /\ early \in BOOLEAN
      /\ locked \in BOOLEAN /\ (locked <=> step \in {"list", "attach"}) /\ (pc # "idle" <=> step = "navigating")
      /\ tool \in {"none", "navigate", "new", "record", "use"}
  BY LNextKeepsN DEF LNext, LTool, IInv, NInv, LTypeOK
<1>2. UNCHANGED vars => UNCHANGED pc
  BY DEF vars, toolVars
<1>13. \A url : ~RefuseUngrantedLocal(url) => Inward(url)
  BY JudgedIsInward DEF IInv, LTypeOK
<1>3. CASE ListForRecord
  <2>1. CASE RefuseUngrantedLocal(shown)
    BY <1>1, <1>2, <1>3, <2>1, FreeKeeps DEF ListForRecord, rules, pageVars
  <2>2. CASE ~RefuseUngrantedLocal(shown)
    BY <1>1, <1>2, <1>3, <1>13, <2>2, GoesOn DEF ListForRecord, rules, pageVars
  <2> QED
    BY <2>1, <2>2
<1>4. CASE JudgeRecord
  <2>1. CASE RefuseUngrantedLocal(goal.url)
    BY <1>1, <1>2, <1>4, <2>1, FreeKeeps DEF JudgeRecord, rules, tabVars, pageVars
  <2>2. CASE ~RefuseUngrantedLocal(goal.url)
    BY <1>1, <1>2, <1>4, <1>13, <2>2, GoesOn DEF JudgeRecord, rules, tabVars, pageVars, Judged
  <2> QED
    BY <2>1, <2>2
<1>5. CASE Guard
  BY <1>1, <1>2, <1>5, GoesOn DEF Guard, layerVars, rules, pageVars, Accepted, Judged
<1>6. CASE Attached
  <2>1. CASE tool = "use"
    BY <1>1, <1>2, <1>6, <2>1, GoesOn DEF Attached, rules, tabVars, pageVars, Judged
  <2>2. CASE tool # "use"
    BY <1>1, <1>2, <1>6, <2>2, GoesOn DEF Attached, rules, tabVars, pageVars, Accepted
  <2> QED
    BY <2>1, <2>2
<1>7. CASE Navigating
  BY <1>1, <1>7, GoesOn DEF Navigating, rules, tabVars, pageVars
<1>8. CASE Answered
  BY <1>1, <1>8, FreeKeeps DEF Answered, rules, tabVars, pageVars
<1>9. CASE Work
  BY <1>1, <1>2, <1>9, FreeKeeps DEF Work, rules, tabVars, pageVars
<1>10. CASE ListOrAttachFails
  BY <1>1, <1>2, <1>10, FreeKeeps DEF ListOrAttachFails, rules, tabVars, pageVars
<1> QED
  BY <1>3, <1>4, <1>5, <1>6, <1>7, <1>8, <1>9, <1>10

\* Another tab takes the place of the selected one.
LEMMA NewTabKeeps ==
  ASSUME IInv, NEW url \in Urls, NewTab(url), UNCHANGED <<filter, refused, goal>>, TypeOK',
         early' \in BOOLEAN, locked' \in BOOLEAN /\ (locked' <=> step' = "attach"),
         \/ step = "free" /\ step' = "free" /\ tool' = tool
         \/ step = "list" /\ step' = "attach" /\ tool = "new" /\ tool' = "navigate"
  PROVE  LTypeOK' /\ Accepted' /\ Allowed' /\ Judged'
<1>1. LTypeOK' /\ Allowed'
  BY NewTabIs DEF IInv, LTypeOK
<1> QED
  BY <1>1, CoveredStays DEF IInv, Accepted, Judged

LEMMA ListKeeps ==
  ASSUME IInv, ListNew \/ List \/ \E url \in Urls : OtherTab(url)
  PROVE  LTypeOK' /\ Accepted' /\ Allowed' /\ Judged'
<1>1. /\ TypeOK' /\ locked \in BOOLEAN /\ (locked <=> step \in {"list", "attach"}) /\ (pc # "idle" <=> step = "navigating")
      /\ guarded \in BOOLEAN /\ early \in BOOLEAN
      /\ tool \in {"none", "navigate", "new", "record", "use"}
  BY LNextKeepsN DEF LNext, LTool, IInv, NInv, LTypeOK
<1>2. ASSUME NEW url \in Urls, OtherTab(url)
      PROVE  LTypeOK' /\ Accepted' /\ Allowed' /\ Judged'
  <2>1. /\ step = "free" /\ step' = "free" /\ tool' = tool /\ NewTab(url)
        /\ UNCHANGED <<filter, refused, goal>> /\ UNCHANGED locked
        /\ TypeOK' /\ early' \in BOOLEAN
    BY <1>1, <1>2 DEF OtherTab, layerVars, rules
  <2>2. locked' \in BOOLEAN /\ (locked' <=> step' = "attach")
    BY <1>1, <2>1
  <2> HIDE DEF IInv, NewTab
  <2> QED
    BY <2>1, <2>2, NewTabKeeps
<1>3. CASE ListNew
  <2>1. /\ step = "list" /\ step' = "attach" /\ tool = "new" /\ tool' = "navigate" /\ NewTab("blank")
        /\ UNCHANGED <<filter, refused, goal>> /\ UNCHANGED locked
        /\ TypeOK' /\ early' \in BOOLEAN /\ "blank" \in Urls
    BY <1>1, <1>3, UrlsHaveBlank DEF ListNew, rules
  <2>2. locked' \in BOOLEAN /\ (locked' <=> step' = "attach")
    BY <1>1, <2>1
  <2> HIDE DEF IInv, NewTab
  <2> QED
    BY <2>1, <2>2, NewTabKeeps
<1>4. CASE List
  <2>1. UNCHANGED <<guarded, granted, shown, main, filter, refused, pc>>
    BY <1>4 DEF List, rules, pageVars, vars, toolVars
  <2>2. CASE tool = "use" /\ RefuseUngrantedLocal(shown)
    BY <1>1, <1>4, <2>1, <2>2, FreeKeeps DEF List
  <2>3. CASE ~(tool = "use" /\ RefuseUngrantedLocal(shown))
    <3>1. /\ step = "list" /\ step' = "attach" /\ early' = FALSE /\ UNCHANGED <<tool, goal, locked>>
          /\ tool \in {"navigate", "use"}
      BY <1>4, <2>3 DEF List
    <3>2. tool = "use" => Inward(shown)
      BY <2>3, JudgedIsInward DEF IInv, LTypeOK
    <3> QED
      BY <1>1, <1>4, <2>1, <3>1, <3>2, GoesOn
  <2> QED
    BY <2>2, <2>3
<1> QED
  BY <1>2, <1>3, <1>4

\* The grant comes before the navigation it is for.
LEMMA GrantKeeps ==
  ASSUME IInv, Grant
  PROVE  LTypeOK' /\ Accepted' /\ Allowed' /\ Judged'
<1>1. /\ step = "attached" /\ granted' = granted \cup goal.dirs /\ step' = "call"
      /\ UNCHANGED <<vars, pc, filter, refused, tool, goal, locked, guarded, early, shown, main>>
  BY DEF Grant, GrantNow, rules, pageVars, vars, toolVars
<1>2. /\ TypeOK'
      /\ \A url : /\ CheckURL(url) => CheckURL(url)'
                  /\ Covered(granted, url) => Covered(granted, url)'
                  /\ Inward(url) => Inward(url)'
  BY <1>1, StaysN, AllowedStays DEF IInv, NInv
<1>3. goal \in [url : Urls, dirs : SUBSET Dirs] /\ granted' \subseteq Dirs
  BY <1>1 DEF IInv, LTypeOK
<1>4. LTypeOK'
  BY <1>1, <1>2, <1>3 DEF IInv, LTypeOK
<1>5. Accepted'
  BY <1>1, CoveredStays DEF IInv, Accepted
<1>6. Allowed' /\ Judged'
  BY <1>1, <1>2 DEF IInv, Allowed, Judged
<1> QED
  BY <1>4, <1>5, <1>6

\* The load of a navigation is one the interception will let go.
LEMMA CallKeeps ==
  ASSUME IInv, CallNavigate
  PROVE  LTypeOK' /\ Accepted' /\ Allowed' /\ Judged'
<1>1. /\ step = "call" /\ step' = "navigating" /\ main' = Load("tool", goal.url) /\ pc' = "calling"
      /\ UNCHANGED <<filter, refused, tool, goal, locked, guarded, granted, early, shown>>
  BY DEF CallNavigate, Call, rules, tabVars
<1>2. TypeOK'
  BY LNextKeepsN DEF LNext, LTool, IInv, NInv
<1>3. goal.url \in Urls /\ Covered(granted, goal.url)
  BY <1>1 DEF IInv, Accepted, LTypeOK, Covered
<1>4. /\ Covered(granted, goal.url)'
      /\ CheckURL(goal.url) => CheckURL(goal.url)'
  BY <1>1, <1>3, AllowedStays
<1>5. main'.url = goal.url /\ (main'.state = "go" => CheckURL(goal.url) /\ goal.url \notin LocalUrls)
  BY <1>1, <1>3, LoadIs
<1>6. Allowed'
  BY <1>1, <1>4, <1>5 DEF Allowed, Covered, Inward
<1>7. LTypeOK'
  BY <1>1, <1>2, <1>3, LoadIs DEF IInv, LTypeOK
<1> QED
  BY <1>1, <1>6, <1>7 DEF Accepted, Judged

\* Loads are judged, and documents shown.
LEMMA ChromeKeeps ==
  ASSUME IInv,
         \/ Decide \/ (\E url \in Urls : PageLoads(url)) \/ (\E url \in Web : Redirect(url))
         \/ Show \/ WithinDocument \/ LoadFails \/ (Chrome /\ UNCHANGED localVars)
  PROVE  LTypeOK' /\ Accepted' /\ Allowed' /\ Judged'
<1>1. /\ UNCHANGED <<filter, refused, step, tool, goal, locked, guarded, granted>> /\ TypeOK' /\ UNCHANGED pc
      /\ main \in [of : {"none", "tool", "redirected", "page"}, url : Urls,
                   state : {"none", "early", "paused", "go", "stop"}]
  <2>1. TypeOK'
    BY LNextKeepsN DEF LNext, LTool, IInv, NInv
  <2> QED
    BY <2>1 DEF IInv, LTypeOK, Decide, PageLoads, Redirect, Show, WithinDocument, LoadFails, Chrome,
       ReadMessage, Interactive, Complete, Commit, PageNavigates, SameDocument, NavigationFails,
       localVars, layerVars, rules, tabVars, pageVars, vars, toolVars
<1>2. \A url : /\ CheckURL(url) => CheckURL(url)'
               /\ Covered(granted, url) => Covered(granted, url)'
               /\ Inward(url) => Inward(url)'
  BY <1>1, AllowedStays
<1>3. Accepted'
  BY <1>1, CoveredStays DEF IInv, Accepted
<1> DEFINE MainType == [of : {"none", "tool", "redirected", "page"}, url : Urls,
                        state : {"none", "early", "paused", "go", "stop"}]
<1>4. ASSUME shown' \in Urls, early' \in BOOLEAN, main' \in MainType
      PROVE  LTypeOK'
  BY <1>1, <1>4 DEF IInv, LTypeOK
<1>5. ASSUME UNCHANGED <<shown, early>>
      PROVE  Judged'
  BY <1>1, <1>2, <1>5 DEF IInv, Judged
<1>6. CASE Decide
  <2>1. /\ main.state = "paused" /\ UNCHANGED <<shown, early>>
        /\ main' = [main EXCEPT !.state = IF RequestAllowed(main.url) THEN "go" ELSE "stop"]
    BY <1>6 DEF Decide, tabVars
  <2>2. /\ main' \in MainType /\ main'.of = main.of /\ main'.url = main.url
        /\ main'.state = IF RequestAllowed(main.url) THEN "go" ELSE "stop"
    BY <1>1, <2>1
  <2>3. main'.state = "go" => CheckURL(main.url) /\ Inward(main.url)
    BY <2>2, AllowedIs DEF IInv, LTypeOK, Covered, Inward
  <2>4. Allowed'
    BY <1>2, <2>2, <2>3 DEF IInv, Allowed
  <2> QED
    BY <1>3, <1>4, <1>5, <2>1, <2>2, <2>4 DEF IInv, LTypeOK
<1>7. ASSUME NEW url \in Urls, PageLoads(url)
      PROVE  LTypeOK' /\ Allowed' /\ Judged'
  <2>1. UNCHANGED <<shown, early>> /\ main' = Load("page", url)
    BY <1>7 DEF PageLoads, tabVars
  <2>2. Allowed'
    BY <1>2, <2>1, LoadIs DEF Allowed, Inward
  <2> QED
    BY <1>4, <1>5, <2>1, <2>2, LoadIs DEF IInv, LTypeOK
<1>8. ASSUME NEW url \in Web, Redirect(url)
      PROVE  LTypeOK' /\ Allowed' /\ Judged'
  <2>1. /\ UNCHANGED <<shown, early>>
        /\ main' = [Load(main.of, url) EXCEPT !.of = IF main.of = "page" THEN "page" ELSE "redirected"]
    BY <1>8 DEF Redirect, tabVars
  <2>2. /\ main' \in MainType /\ main'.of # "tool" /\ main'.url = url
        /\ main'.state = "go" => CheckURL(url)
    BY <2>1 DEF Load, Urls, CheckURL
  <2>3. url \notin LocalUrls
    BY LocalFilesAssumption
  <2>4. Allowed'
    BY <1>2, <2>2, <2>3 DEF Allowed, Inward
  <2> QED
    BY <1>4, <1>5, <2>1, <2>2, <2>4 DEF IInv, LTypeOK
<1>9. CASE Show
  <2>1. /\ shown' = main.url /\ main' = NoLoad /\ early' = (early \/ main.state = "early")
        /\ main.state \in {"go", "early"}
    BY <1>9 DEF Show
  <2>2. main' \in MainType /\ Allowed'
    BY <2>1 DEF NoLoad, Urls, Allowed
  <2>3. main.state = "go" => Inward(main.url)
    BY DEF IInv, Allowed
  <2>4. Judged'
    BY <1>1, <1>2, <2>1, <2>3 DEF IInv, Judged
  <2> QED
    BY <1>1, <1>3, <1>4, <2>1, <2>2, <2>4 DEF IInv, LTypeOK
<1>10. CASE WithinDocument \/ LoadFails
  <2>1. UNCHANGED <<shown, early>> /\ main' = NoLoad
    BY <1>10 DEF WithinDocument, LoadFails, tabVars
  <2>2. main' \in MainType /\ Allowed'
    BY <2>1 DEF NoLoad, Urls, Allowed
  <2> QED
    BY <1>3, <1>4, <1>5, <2>1, <2>2 DEF IInv, LTypeOK
<1>11. CASE Chrome /\ UNCHANGED localVars
  <2>1. UNCHANGED <<shown, early, main>>
    BY <1>11 DEF localVars, tabVars, pageVars
  <2> QED
    BY <1>1, <1>2, <1>3, <1>4, <1>5, <2>1 DEF IInv, LTypeOK, Allowed
<1> QED
  BY <1>3, <1>6, <1>7, <1>8, <1>9, <1>10, <1>11

\* The refused places move.
LEMMA PlacesKeep ==
  ASSUME IInv, NEW S \in SUBSET Changing, PlacesChange(S)
  PROVE  LTypeOK' /\ Accepted' /\ Allowed' /\ Judged'
<1>1. /\ UNCHANGED <<vars, pc, filter, step, tool, goal, locked, guarded, granted, early, shown, main>>
      /\ refused' = Refused \cup S
  BY DEF PlacesChange, tabVars, pageVars, vars, toolVars
<1>2. TypeOK'
  BY <1>1, StaysN DEF IInv, NInv
<1>3. \A url : /\ CheckURL(url) => CheckURL(url)'
               /\ Covered(granted, url) => Covered(granted, url)'
               /\ Inward(url) => Inward(url)'
  BY <1>1, AllowedStays
<1>4. LTypeOK'
  BY <1>1, <1>2 DEF IInv, LTypeOK
<1>5. Accepted'
  BY <1>1, CoveredStays DEF IInv, Accepted
<1> QED
  BY <1>1, <1>3, <1>4, <1>5 DEF IInv, Allowed, Judged

-----------------------------------------------------------------------------
(* The theorems *)

LEMMA InitHolds == LInit => IInv
<1> SUFFICES ASSUME LInit PROVE IInv
  OBVIOUS
<1>1. NInv
  BY NavigateAssumption DEF LInit, Init, NInv, Done, TypeOK, LoadIsNotMissed, None, Empty
<1>2. LTypeOK
  <2>1. /\ goal \in [url : Urls, dirs : SUBSET Dirs]
        /\ main \in [of : {"none", "tool", "redirected", "page"}, url : Urls,
                     state : {"none", "early", "paused", "go", "stop"}]
    BY UrlsHaveBlank DEF LInit, NoLoad
  <2>2. locked \in BOOLEAN /\ (locked <=> step \in {"list", "attach"}) /\ (pc # "idle" <=> step = "navigating")
    BY DEF LInit, Init
  <2> QED
    BY <1>1, <2>1, <2>2 DEF LInit, NInv, LTypeOK
<1>3. Accepted /\ Allowed /\ Judged
  BY DEF LInit, Accepted, Allowed, Judged, NoLoad
<1> QED
  BY <1>1, <1>2, <1>3 DEF IInv

LEMMA LNextKeeps == IInv /\ [LNext]_allVars => IInv'
<1> SUFFICES ASSUME IInv, [LNext]_allVars PROVE IInv'
  OBVIOUS
<1>1. CASE LNext
  <2>1. NInv'
    BY <1>1, LNextKeepsN DEF IInv
  <2>2. LTypeOK' /\ Accepted' /\ Allowed' /\ Judged'
    BY <1>1, BeginKeeps, ToolKeeps, ListKeeps, GrantKeeps, CallKeeps, ChromeKeeps, PlacesKeep DEF LNext, LTool
  <2> QED
    BY <2>1, <2>2 DEF IInv
<1>2. CASE UNCHANGED allVars
  <2>1. UNCHANGED <<vars, pc, filter, refused, step, tool, goal, locked, guarded, granted, early, shown, main>>
    BY <1>2 DEF allVars, localVars, layerVars, rules, tabVars, pageVars, vars, toolVars
  <2>2. NInv'
    BY <2>1, StaysN DEF IInv
  <2>3. \A url : /\ CheckURL(url) => CheckURL(url)'
                 /\ Covered(granted, url) => Covered(granted, url)'
                 /\ Inward(url) => Inward(url)'
    BY <2>1, AllowedStays
  <2>4. Accepted'
    BY <2>1, CoveredStays DEF IInv, Accepted
  <2> QED
    BY <2>1, <2>2, <2>3, <2>4 DEF IInv, NInv, LTypeOK, Allowed, Judged
<1> QED
  BY <1>1, <1>2

\* The inductive invariant holds throughout.
THEOREM InductiveHolds == LSpec => []IInv
  BY InitHolds, LNextKeeps, PTL DEF LSpec

\* Every variable keeps its type.
THEOREM TypesHold == LSpec => []LTypeOK
<1>1. IInv => LTypeOK
  BY DEF IInv
<1> QED
  BY <1>1, InductiveHolds, PTL

\* The load event of a navigation does not slip past it.
THEOREM LoadIsHeard == LSpec => []LoadIsNotMissed
<1>1. IInv => LoadIsNotMissed
  BY DEF IInv, NInv
<1> QED
  BY <1>1, InductiveHolds, PTL

\* Every step but an answer of the interception leaves a load as it is, ends it or
\* begins another, which nobody has judged.
LEMMA OnlyDecide ==
  ASSUME IInv, LNext, main' # main
  PROVE  \/ Decide
         \/ main'.state \in {"none", "early", "paused"}
         \/ main'.state = "go" /\ CheckURL(main'.url) /\ main'.url \notin LocalUrls
<1>1. ASSUME NEW of, NEW url, Load(of, url).state = "go"
      PROVE  CheckURL(url) /\ url \notin LocalUrls
  BY <1>1 DEF Load, CheckURL
<1>2. CASE CallNavigate
  BY <1>1, <1>2 DEF CallNavigate, Load
<1>3. ASSUME NEW url \in Urls, PageLoads(url)
      PROVE  \/ main'.state \in {"early", "paused"}
             \/ main'.state = "go" /\ CheckURL(main'.url) /\ main'.url \notin LocalUrls
  BY <1>1, <1>3 DEF PageLoads, Load
<1>4. ASSUME NEW url \in Web, Redirect(url)
      PROVE  \/ main'.state \in {"early", "paused"}
             \/ main'.state = "go" /\ CheckURL(main'.url) /\ main'.url \notin LocalUrls
  <2>1. main'.state = Load(main.of, url).state /\ main'.url = url
    BY <1>4 DEF Redirect, Load
  <2>2. Load(main.of, url).state \in {"early", "paused", "go"}
    BY DEF Load
  <2> QED
    BY <1>1, <2>1, <2>2
<1>5. CASE main' = NoLoad
  BY <1>5 DEF NoLoad
<1> QED
  BY <1>2, <1>3, <1>4, <1>5
     DEF LNext, LTool, ListNew, List, OtherTab, BeginNavigate, BeginUse, BeginRecord, ListForRecord,
         JudgeRecord, Guard, Attached, Grant, Navigating, Answered, Work, ListOrAttachFails,
         Show, WithinDocument, LoadFails, NewTab, PlacesChange, localVars, pageVars

\* What a tool has accepted is blocked only when its place has come to be refused.
THEOREM AcceptedGoes == LSpec => BlockedOnlyByPlace
<1>1. ASSUME IInv, [LNext]_allVars
      PROVE  [main.of = "tool" /\ main.state # "stop" /\ main'.state = "stop" => main.url \in refused]_allVars
  <2> SUFFICES ASSUME LNext, main.of = "tool", main.state # "stop", main'.state = "stop"
               PROVE  main.url \in refused
    BY <1>1
  <2>1. Decide
    BY <1>1, OnlyDecide
  <2>2. ~RequestAllowed(main.url)
    BY <1>1, <2>1 DEF Decide, IInv, LTypeOK
  <2>3. Covered(granted, main.url) /\ filter \in Filters
    BY <1>1 DEF IInv, Allowed, LTypeOK
  <2> QED
    BY <2>2, <2>3, AllowedIs
<1> QED
  BY <1>1, InductiveHolds, PTL DEF LSpec, BlockedOnlyByPlace

\* No tool works on a local file nobody opened.
THEOREM OpenedIsWorkedOn == LSpec => []WorksOnOpened
<1> DEFINE Open == (UNION {Inside[d] : d \in granted}) \ Refused
<1>1. ASSUME NEW url \in LocalUrls, Inward(url)
      PROVE  url \in Open
  <2>1. PICK d \in granted : url \in Inside[d] /\ url \notin Refused
    BY <1>1 DEF Inward
  <2>2. Inside[d] \in {Inside[r] : r \in granted}
    OBVIOUS
  <2>3. url \in UNION {Inside[r] : r \in granted}
    BY <2>1, <2>2
  <2> QED
    BY <2>1, <2>3
<1>2. IInv => WorksOnOpened
  <2> HIDE DEF Open
  <2> SUFFICES ASSUME IInv, step = "work",
                      NEW url \in {goal.url : t \in {tool} \cap {"record"}} \cup (IF early THEN {} ELSE {shown}),
                      url \in LocalUrls
               PROVE  url \in Open
    BY DEF WorksOnOpened, Open
  <2>1. Inward(url)
    BY DEF IInv, Judged
  <2> QED
    BY <1>1, <2>1
<1> QED
  BY <1>2, InductiveHolds, PTL

\* The interception lets go only what is opened, and a guarded page comes to show
\* nothing else.
THEOREM OpenedIsShown == LSpec => ShowsOnlyOpened
<1>1. ASSUME IInv, LNext, main.state = "paused", main' = [main EXCEPT !.state = "go"]
      PROVE  Opened(main.url, refused)
  <2>1. main.url \in Urls /\ filter \in Filters /\ main' # main /\ main'.state = "go" /\ main'.url = main.url
    BY <1>1 DEF IInv, LTypeOK
  <2>2. CASE Decide
    <3>1. RequestAllowed(main.url)
      BY <1>1, <2>1, <2>2 DEF Decide, IInv, LTypeOK
    <3>2. /\ CheckURL(main.url)
          /\ main.url \in LocalUrls => main.url \notin refused /\ \E d \in granted : main.url \in Inside[d]
      BY <2>1, <3>1, AllowedIs DEF Covered
    <3> QED
      BY <2>1, <3>2, AllowedIsOpened
  <2>3. CASE CheckURL(main.url) /\ main.url \notin LocalUrls
    BY <2>1, <2>3, AllowedIsOpened
  <2> QED
    BY <1>1, <2>1, <2>2, <2>3, OnlyDecide
<1>2. ASSUME IInv, LNext, shown' # shown, guarded', main.state # "early"
      PROVE  Opened(shown', Refused)
  <2>1. Show
    BY <1>2, NewTabIs DEF LNext, LTool, ListNew, List, OtherTab, BeginNavigate, BeginUse, BeginRecord,
       ListForRecord, JudgeRecord, Guard, Attached, Grant, CallNavigate, Navigating, Answered, Work,
       ListOrAttachFails, Decide, PageLoads, Redirect, WithinDocument, LoadFails, NewTab, PlacesChange,
       localVars, pageVars
  <2>2. /\ shown' = main.url /\ CheckURL(main.url) /\ Inward(main.url)
        /\ main.url \in Urls /\ filter \in Filters
    BY <1>2, <2>1 DEF Show, IInv, Allowed, LTypeOK
  <2>3. Opened(main.url, Refused)
    BY <2>2, AllowedIsOpened DEF Inward
  <2> QED
    BY <2>2, <2>3
<1>3. ASSUME IInv, [LNext]_allVars
      PROVE  [/\ main.state = "paused" /\ main' = [main EXCEPT !.state = "go"] => Opened(main.url, refused)
              /\ shown' # shown /\ guarded /\ guarded' /\ main.state # "early" =>
                     Opened(shown', Refused)]_allVars
  BY <1>1, <1>2, <1>3
<1> QED
  BY <1>3, InductiveHolds, PTL DEF LSpec, ShowsOnlyOpened

\* Once its call is answered, a navigation is timed out only while its page is loading.
THEOREM TimeoutsAreTrue == LSpec => TimeoutsAreReal
<1>1. ASSUME IInv, [LNext]_allVars
      PROVE  [result' = "timeout" /\ result # "timeout" /\ pc # "calling" =>
                  ready = "loading" /\ doc \notin seen]_vars
  <2> SUFFICES ASSUME LNext, result' = "timeout", result # "timeout", pc # "calling"
               PROVE  ready = "loading" /\ doc \notin seen
    BY <1>1 DEF allVars
  <2>1. CheckReadyState
    BY DEF LNext, LTool, ListNew, List, OtherTab, BeginNavigate, BeginUse, BeginRecord, ListForRecord,
       JudgeRecord, Guard, Attached, Grant, CallNavigate, Navigating, Answered, Work, ListOrAttachFails,
       Decide, PageLoads, Redirect, Show, WithinDocument, LoadFails, NewTab, Chrome, PlacesChange, vars,
       toolVars, Call, Tool, CallReturns, CallTimesOut, Loaded, TimerFires, CheckFails, End, ReadMessage,
       Interactive, Complete, Commit, PageNavigates, SameDocument, NavigationFails
  <2>2. ready = "loading"
    BY <1>1, <2>1 DEF CheckReadyState, LoadedEnough, End, IInv, NInv, TypeOK
  <2>3. doc \in Nat /\ seen \subseteq 1..(doc - 1)
    BY <1>1, <2>2, NavigateAssumption DEF IInv, NInv, TypeOK, Done
  <2> QED
    BY <2>2, <2>3
<1> QED
  BY <1>1, InductiveHolds, PTL DEF LSpec, TimeoutsAreReal

-----------------------------------------------------------------------------
(* Files that are written *)

Writing == {"write", "rename", "remove"}
Compared == {"judge", "create", "write", "rename", "remove", "done", "crashed"}

\* Before the root is open nothing is made, and then only inside of it.
MadeInside ==
    /\ filePc \in {"idle", "name", "open"} => Made = {}
    /\ Made \subseteq InsideRoot(root)

\* The one temporary file there can be: whole when it is renamed, and gone at the
\* end, unless its directory is.
OneTmp ==
    /\ filePc # "done" => tries < 4
    /\ filePc \in Writing => tmp \in Places
    /\ \A p \in Places : partial[p] # "none" =>
            p = tmp /\ (filePc \in Writing \cup {"crashed"} \/ (filePc = "done" /\ ~settled))
    /\ filePc = "write" => partial[tmp] = "part"
    /\ filePc = "rename" => partial[tmp] = "whole"

\* What the comparison found holds until something moves.
SettledFacts ==
    settled =>
        /\ filePc \in Compared
        /\ fileResult # "refused" => SameFile
        /\ filePc \in Writing => tmp = ThroughRoot

\* From the comparison on the path names some directory, which past the last
\* judgement is not one of this server's own.
RealIsJudged ==
    /\ fileResult # "none" => filePc = "done"
    /\ filePc \in {"same", "judge", "create"} \cup Writing => real \in Places
    /\ filePc \in {"create"} \cup Writing =>
            real # "server" /\ (settled => ByPath # "server")

FileInv ==
    /\ FileTypeOK
    /\ MadeInside
    /\ OneTmp
    /\ SettledFacts
    /\ RealIsJudged
    /\ TargetIsWhole
    /\ LandsWhereReported

\* Everything but what other programs do.
FileCall ==
    \/ \E k \in {"shot", "cast"} : Begin(k)
    \/ OutputUnder \/ OpenRoot \/ StopCast \/ WriteUnder \/ Crash

-----------------------------------------------------------------------------
(* What the call itself does: one step per action, and under it one per conjunct
   where it takes them apart. *)
LEMMA FileCallKeeps ==
  ASSUME FileInv, FileCall
  PROVE  FileInv'
<1> USE OutputFileAssumption
    DEF FileInv, FileTypeOK, MadeInside, OneTmp, SettledFacts, RealIsJudged, TargetIsWhole,
        LandsWhereReported, Writing, Compared, Made, InsideRoot, Lands, ByPath, ThroughRoot,
        SameFile, StatReal, Protected, Roots, Places, Entries, Nowhere, callVars, diskVars,
        worldVars
<1>1. ASSUME NEW k \in {"shot", "cast"}, Begin(k) PROVE FileInv'
  BY <1>1 DEF Begin
<1>2. CASE OutputUnder
  BY <1>2 DEF OutputUnder, Go, EndWrite, WouldLand, Trusted
<1>3. CASE OpenRoot
  BY <1>3 DEF OpenRoot, EndWrite
<1>4. CASE StopCast
  BY <1>4 DEF StopCast, Go, EndWrite
<1>5. CASE JudgeBefore
  BY <1>5 DEF JudgeBefore, Go, EndWrite, WouldLand, Trusted
<1>6. CASE MkdirAll
  BY <1>6 DEF MkdirAll, Go, EndWrite
<1>7. CASE EvalSymlinks
  BY <1>7 DEF EvalSymlinks, EndWrite
<1>8. CASE Compare
  BY <1>8 DEF Compare, Go, EndWrite
<1>9. CASE JudgeAfter
  <2>1. FileTypeOK'
    BY <1>9 DEF JudgeAfter, Go, EndWrite
  <2>2. MadeInside'
    BY <1>9 DEF JudgeAfter, Go, EndWrite
  <2>3. OneTmp'
    BY <1>9 DEF JudgeAfter, Go, EndWrite
  <2>4. SettledFacts'
    BY <1>9 DEF JudgeAfter, Go, EndWrite
  <2>5. RealIsJudged'
    BY <1>9 DEF JudgeAfter, Go, EndWrite
  <2>6. TargetIsWhole'
    BY <1>9 DEF JudgeAfter, Go, EndWrite
  <2>7. LandsWhereReported'
    BY <1>9 DEF JudgeAfter, Go, EndWrite
  <2> QED
    BY <2>1, <2>2, <2>3, <2>4, <2>5, <2>6, <2>7
<1>10. CASE Taken
  <2>1. FileTypeOK'
    BY <1>10 DEF Taken
  <2>2. MadeInside'
    BY <1>10 DEF Taken
  <2>3. OneTmp'
    BY <1>10 DEF Taken
  <2>4. SettledFacts'
    BY <1>10 DEF Taken
  <2>5. RealIsJudged'
    BY <1>10 DEF Taken
  <2>6. TargetIsWhole'
    BY <1>10 DEF Taken
  <2>7. LandsWhereReported'
    BY <1>10 DEF Taken
  <2> QED
    BY <2>1, <2>2, <2>3, <2>4, <2>5, <2>6, <2>7
<1>11. CASE CreateExclusive
  BY <1>11 DEF CreateExclusive, MadeIn, Exclusive
<1>12. CASE CreateFails
  <2>1. FileTypeOK'
    BY <1>12 DEF CreateFails, EndWrite
  <2>2. MadeInside'
    BY <1>12 DEF CreateFails, EndWrite
  <2>3. OneTmp'
    BY <1>12 DEF CreateFails, EndWrite
  <2>4. SettledFacts'
    BY <1>12 DEF CreateFails, EndWrite
  <2>5. RealIsJudged'
    BY <1>12 DEF CreateFails, EndWrite
  <2>6. TargetIsWhole'
    BY <1>12 DEF CreateFails, EndWrite
  <2>7. LandsWhereReported'
    BY <1>12 DEF CreateFails, EndWrite
  <2> QED
    BY <2>1, <2>2, <2>3, <2>4, <2>5, <2>6, <2>7
<1>13. CASE Write
  <2>1. FileTypeOK'
    BY <1>13 DEF Write, Go
  <2>2. MadeInside'
    BY <1>13 DEF Write, Go
  <2>3. OneTmp'
    BY <1>13 DEF Write, Go
  <2>4. SettledFacts'
    BY <1>13 DEF Write, Go
  <2>5. RealIsJudged'
    BY <1>13 DEF Write, Go
  <2>6. TargetIsWhole'
    BY <1>13 DEF Write, Go
  <2>7. LandsWhereReported'
    BY <1>13 DEF Write, Go
  <2> QED
    BY <2>1, <2>2, <2>3, <2>4, <2>5, <2>6, <2>7
<1>14. ASSUME NEW l \in {"write", "rename"}, Fails(l) PROVE FileInv'
  BY <1>14 DEF Fails, Go
<1>15. CASE Rename
  <2>1. FileTypeOK'
    BY <1>15 DEF Rename, EndWrite
  <2>2. MadeInside'
    BY <1>15 DEF Rename, EndWrite
  <2>3. OneTmp'
    BY <1>15 DEF Rename, EndWrite
  <2>4. SettledFacts'
    BY <1>15 DEF Rename, EndWrite
  <2>5. RealIsJudged'
    BY <1>15 DEF Rename, EndWrite
  <2>6. TargetIsWhole'
    BY <1>15 DEF Rename, EndWrite
  <2>7. LandsWhereReported'
    BY <1>15 DEF Rename, EndWrite
  <2> QED
    BY <2>1, <2>2, <2>3, <2>4, <2>5, <2>6, <2>7
<1>16. CASE RemovePartial
  <2>1. FileTypeOK'
    BY <1>16 DEF RemovePartial, RemoveTmp, EndWrite
  <2>2. MadeInside'
    BY <1>16 DEF RemovePartial, RemoveTmp, EndWrite
  <2>3. OneTmp'
    BY <1>16 DEF RemovePartial, RemoveTmp, EndWrite
  <2>4. SettledFacts'
    BY <1>16 DEF RemovePartial, RemoveTmp, EndWrite
  <2>5. RealIsJudged'
    BY <1>16 DEF RemovePartial, RemoveTmp, EndWrite
  <2>6. TargetIsWhole'
    BY <1>16 DEF RemovePartial, RemoveTmp, EndWrite
  <2>7. LandsWhereReported'
    BY <1>16 DEF RemovePartial, RemoveTmp, EndWrite
  <2> QED
    BY <2>1, <2>2, <2>3, <2>4, <2>5, <2>6, <2>7
<1>17. CASE Crash
  BY <1>17 DEF Crash, Go
<1> HIDE DEF FileInv
<1> QED
  BY <1>1, <1>2, <1>3, <1>4, <1>5, <1>6, <1>7, <1>8, <1>9, <1>10, <1>11, <1>12, <1>13, <1>14,
     <1>15, <1>16, <1>17
     DEF FileCall, WriteUnder

LEMMA OthersKeepFile ==
  ASSUME FileInv, NEW d, NEW e,
         (d \in Roots \cup {Nowhere} /\ Move(d)) \/ (d \in Roots /\ e \in Entries /\ Relink(d, e))
  PROVE  FileInv'
<1>1. changes' \in 0..MaxChanges
  BY OutputFileAssumption DEF FileInv, FileTypeOK, Move, Relink, Change
<1>2. FileTypeOK'
  <2>1. CASE d \in Roots \cup {Nowhere} /\ Move(d)
    <3>1. /\ at' \in Roots \cup {Nowhere} /\ settled' \in BOOLEAN
          /\ UNCHANGED <<callVars, diskVars>>
      BY <2>1 DEF Move, Change
    <3> QED
      BY <1>1, <3>1 DEF FileInv, FileTypeOK, callVars, diskVars
  <2>2. CASE d \in Roots /\ e \in Entries /\ Relink(d, e)
    <3>1. entry' \in [Roots -> Entries]
      BY <2>2 DEF FileInv, FileTypeOK, Relink
    <3> QED
      BY <1>1, <2>2, <3>1 DEF FileInv, FileTypeOK, Relink, Change, callVars
  <2> QED
    BY <2>1, <2>2
<1>3. (MadeInside /\ OneTmp /\ SettledFacts /\ RealIsJudged /\ TargetIsWhole /\ LandsWhereReported)'
  BY DEF Move, Relink, Change, FileInv, FileTypeOK, MadeInside, OneTmp, SettledFacts,
     RealIsJudged,
         TargetIsWhole, LandsWhereReported, Writing, Compared, Made, InsideRoot, callVars,
         diskVars
<1> QED
  BY <1>2, <1>3 DEF FileInv

LEMMA FileInvInitially == FileInit => FileInv
<1> SUFFICES ASSUME FileInit PROVE FileInv
  OBVIOUS
<1>1. FileTypeOK
  <2>1. changes \in 0..MaxChanges /\ tries \in 0..4
    BY OutputFileAssumption DEF FileInit
  <2>2. final \in [Places -> {"none", "old", "linked", "part", "whole"}]
    BY DEF FileInit
  <2>3. partial \in [Places -> {"none", "part", "whole"}] /\ entry \in [Roots -> Entries]
    BY DEF FileInit
  <2> QED
    BY <2>1, <2>2, <2>3 DEF FileInit, FileTypeOK, Roots
<1>2. Made = {}
  BY DEF FileInit, Made, Places
<1>3. OneTmp /\ SettledFacts /\ RealIsJudged /\ TargetIsWhole /\ LandsWhereReported
  BY DEF FileInit, OneTmp, SettledFacts, RealIsJudged, TargetIsWhole, LandsWhereReported,
     Writing
<1> QED
  BY <1>1, <1>2, <1>3 DEF FileInv, MadeInside

LEMMA FileNextKeeps == FileInv /\ [FileNext]_fileVars => FileInv'
<1> SUFFICES ASSUME FileInv, [FileNext]_fileVars PROVE FileInv'
  OBVIOUS
<1>1. CASE FileCall
  BY <1>1, FileCallKeeps
<1>2. CASE \/ \E d \in Roots \cup {Nowhere} : Move(d)
           \/ \E d \in Roots, e \in Entries : Relink(d, e)
  BY <1>2, OthersKeepFile
<1>3. CASE UNCHANGED fileVars
  BY <1>3 DEF fileVars, callVars, diskVars, worldVars, FileInv, FileTypeOK, MadeInside, OneTmp,
     SettledFacts, RealIsJudged, TargetIsWhole, LandsWhereReported, Made, InsideRoot, ByPath,
     Lands,
     ThroughRoot, SameFile, StatReal
<1> QED
  BY <1>1, <1>2, <1>3 DEF FileNext, FileCall

-----------------------------------------------------------------------------
\* The inductive invariant holds in every state.
THEOREM FileInvHolds == FileSpec => []FileInv
BY FileInvInitially, FileNextKeeps, PTL DEF FileSpec

\* However often other programs move directories and put links in the way, what this
\* server writes lies in the directory its root was opened on (writeUnder).
THEOREM RootIsKept == FileSpec => []StaysInRoot
<1>1. FileInv => StaysInRoot
  BY DEF FileInv, MadeInside, StaysInRoot
<1> QED
  BY <1>1, FileInvHolds, PTL

\* The final name never shows a part of a file, and a file linked there is never
\* written through, wherever this server is killed (writeUnder, createExclusive).
THEOREM TargetStaysWhole == FileSpec => []TargetIsWhole
<1>1. FileInv => TargetIsWhole
  BY DEF FileInv
<1> QED
  BY <1>1, FileInvHolds, PTL

\* A call that comes back leaves no temporary file, whichever step failed, unless
\* its directory was taken from under it (writeUnder).
THEOREM TmpIsRemoved == FileSpec => []NothingLeftBehind
<1>1. FileInv => NothingLeftBehind
  BY DEF FileInv, OneTmp, NothingLeftBehind, Writing
<1> QED
  BY <1>1, FileInvHolds, PTL

\* A call that reports a path has put the whole file there, and not among this
\* server's own files (writeUnder compares the directory with its path).
THEOREM ReportIsRight == FileSpec => []LandsWhereReported
<1>1. FileInv => LandsWhereReported
  BY DEF FileInv
<1> QED
  BY <1>1, FileInvHolds, PTL
=============================================================================
