------------------------- MODULE Collectors_proofs -------------------------
(***************************************************************************)
(* Proofs about the collectors.  Of NetworkLog, for any finite set of      *)
(* request ids, any bound on redirections and any size of the buffer: what *)
(* is buffered can be found and nothing else is held on to, and records    *)
(* say of their requests what Chrome said.  Of ConsoleLog, for any pages,  *)
(* types, filters, size of the buffer and number of messages: a polling    *)
(* client is handed each message it asks for once.                         *)
(***************************************************************************)
EXTENDS NetworkLog, ConsoleLog, FiniteSetTheorems, WellFoundedInduction, TLAPS

ChromeState == [hops : Nat, status : BOOLEAN, finished : BOOLEAN, failed : BOOLEAN]

\* What Chrome can be at with a request.
Traffic ==
    /\ chrome \in [Requests -> ChromeState]
    /\ \A r \in Requests :
        /\ chrome[r].hops <= MaxHops
        /\ chrome[r].status \/ chrome[r].finished => chrome[r].hops > 0
        /\ chrome[r].failed => chrome[r].finished

\* The announcements there have been: each made one record.
Announced == {a \in Requests \X (1..MaxHops) : a[2] <= chrome[a[1]].hops}

Counted == netSeq = Cardinality(Announced)

\* The buffer holds the newest records, without a gap.
NewestUpTo(s, n) ==
    /\ s \in Seq(Nat) /\ Len(s) <= MaxNetworkRequests /\ Len(s) <= n
    /\ \A i \in 1..Len(s) : s[i] = n - Len(s) + i

Window == netSeq \in Nat /\ NewestUpTo(netReqs, netSeq)

RecordState ==
    [req : Requests \cup {"none"}, status : BOOLEAN, finished : BOOLEAN, failed : BOOLEAN]

Filed ==
    /\ rec \in [Records -> RecordState]
    /\ \A i \in Records : rec[i].req \in Requests <=> i <= netSeq
    /\ netByID \in [Requests -> Nat]

\* A request that was announced once has one record, and as long as that is
\* buffered the table leads to it.
OneRecord ==
    /\ \A i \in 1..netSeq : chrome[rec[i].req].hops > 0
    /\ \A i, j \in 1..netSeq :
        rec[i].req = rec[j].req /\ chrome[rec[i].req].hops = 1 => i = j
    /\ \A i \in Ring : chrome[rec[i].req].hops = 1 => netByID[rec[i].req] = i

NInv ==
    /\ Traffic /\ Counted /\ Window /\ Filed /\ OneRecord
    /\ TableWithinBuffer /\ UpdatesAreOwn /\ PlainRequestsFollowed

-----------------------------------------------------------------------------
(* Counting *)

LEMMA AnnouncedIsFinite ==
    /\ IsFiniteSet(Requests \X (1..MaxHops))
    /\ Cardinality(Requests \X (1..MaxHops)) = MaxRecords /\ MaxRecords \in Nat
    /\ IsFiniteSet(Announced) /\ Cardinality(Announced) \in Nat
    /\ Cardinality(Announced) <= MaxRecords
<1>1. IsFiniteSet(1..MaxHops) /\ Cardinality(1..MaxHops) = MaxHops
  BY FS_Interval, NetworkAssumption
<1>2. /\ IsFiniteSet(Requests \X (1..MaxHops))
      /\ Cardinality(Requests \X (1..MaxHops)) = MaxRecords
  BY <1>1, FS_Product, NetworkAssumption DEF MaxRecords
<1>3. Announced \in SUBSET (Requests \X (1..MaxHops))
  BY DEF Announced
<1>4. IsFiniteSet(Announced) /\ Cardinality(Announced) <= Cardinality(Requests \X (1..MaxHops))
  BY <1>2, <1>3, FS_Subset
<1>5. Cardinality(Announced) \in Nat /\ Cardinality(Requests \X (1..MaxHops)) \in Nat
  BY <1>2, <1>4, FS_CardinalityType
<1> QED
  BY <1>2, <1>4, <1>5

\* One more announcement, of a request that can have one: there is a record for it.
LEMMA CountOne ==
  ASSUME Traffic, Counted, NEW r \in Requests, chrome[r].hops < MaxHops,
         chrome' = [chrome EXCEPT ![r].hops = @ + 1], netSeq' = netSeq + 1
  PROVE  Counted' /\ netSeq' \in Records /\ Traffic'
<1> DEFINE a == <<r, chrome[r].hops + 1>>
<1>1. chrome[r] \in ChromeState /\ chrome[r].hops \in Nat
  BY DEF Traffic, ChromeState
<1>2. a \in Requests \X (1..MaxHops) /\ a \notin Announced
  BY <1>1, NetworkAssumption DEF Announced
<1>3. /\ chrome' \in [Requests -> ChromeState]
      /\ chrome'[r].hops = chrome[r].hops + 1
      /\ \A q \in Requests : q # r => chrome'[q] = chrome[q]
      /\ chrome'[r].status = chrome[r].status /\ chrome'[r].finished = chrome[r].finished
      /\ chrome'[r].failed = chrome[r].failed
  BY <1>1 DEF Traffic, ChromeState
<1>4. Announced' = Announced \cup {a}
  <2>1. ASSUME NEW b \in Requests \X (1..MaxHops)
        PROVE  b[2] <= chrome'[b[1]].hops <=> b[2] <= chrome[b[1]].hops \/ b = a
    <3>1. b[1] \in Requests /\ b[2] \in Nat /\ b = <<b[1], b[2]>>
      BY NetworkAssumption
    <3>2. CASE b[1] = r
      <4>1. b[2] <= chrome[r].hops + 1 <=> b[2] <= chrome[r].hops \/ b[2] = chrome[r].hops + 1
        BY <1>1, <3>1
      <4>2. b[2] = chrome[r].hops + 1 <=> b = a
        BY <3>1, <3>2
      <4> QED
        BY <1>3, <3>2, <4>1, <4>2
    <3>3. CASE b[1] # r
      BY <1>3, <3>1, <3>3
    <3> QED
      BY <3>2, <3>3
  <2> HIDE DEF a
  <2> QED
    BY <1>2, <2>1 DEF Announced
<1> HIDE DEF a
<1>5. Cardinality(Announced') = Cardinality(Announced) + 1 /\ IsFiniteSet(Announced')
  BY <1>2, <1>4, AnnouncedIsFinite, FS_AddElement
<1>6. Announced' \in SUBSET (Requests \X (1..MaxHops))
  BY <1>2, <1>4 DEF Announced
<1>7. Cardinality(Announced') <= MaxRecords
  BY <1>6, AnnouncedIsFinite, FS_Subset
<1>8. Counted' /\ netSeq' \in Records
  BY <1>5, <1>7, AnnouncedIsFinite DEF Counted, Records
<1>9. Traffic'
  <2>1. chrome'[r].hops <= MaxHops /\ chrome'[r].hops > 0
    BY <1>1, <1>3, NetworkAssumption
  <2> QED
    BY <1>3, <2>1 DEF Traffic
<1> QED
  BY <1>8, <1>9

-----------------------------------------------------------------------------
(* The buffer *)

Elements(s) == {s[i] : i \in DOMAIN s}

LEMMA Lengths ==
  ASSUME NEW s \in Seq(Nat)
  PROVE  Len(s) \in Nat /\ DOMAIN s = 1..Len(s)
OBVIOUS

\* k numbers up to n.
Counts(s, n, k) ==
    /\ k \in Nat /\ k <= n /\ k <= MaxNetworkRequests
    /\ \A i \in 1..k : s[i] = n - k + i
    /\ Elements(s) = (n - k + 1)..n /\ Elements(s) \subseteq 1..n

LEMMA UpToCounts ==
  ASSUME NEW s, NEW n \in Nat, NewestUpTo(s, n)
  PROVE  Counts(s, n, Len(s))
<1>0. s \in Seq(Nat)
  BY Zenon DEF NewestUpTo
<1>1. DOMAIN s = 1..Len(s) /\ Len(s) \in Nat
  BY <1>0, Lengths
<1> DEFINE k == Len(s)
<1>2. k \in Nat /\ k <= n /\ \A i \in 1..k : s[i] = n - k + i
  BY <1>1 DEF NewestUpTo
<1> HIDE DEF k
<1>3. ASSUME NEW x \in (n - k + 1)..n
      PROVE  \E i \in 1..k : x = s[i]
  <2>1. x - (n - k) \in 1..k
    BY <1>2
  <2>2. s[x - (n - k)] = n - k + (x - (n - k))
    BY <1>2, <2>1
  <2>3. n - k + (x - (n - k)) = x
    BY <1>2
  <2> QED
    BY <2>1, <2>2, <2>3
<1>4. {s[i] : i \in 1..k} = (n - k + 1)..n
  BY <1>2, <1>3
<1>5. (n - k + 1)..n \subseteq 1..n
  BY <1>2
<1>6. k <= MaxNetworkRequests
  BY DEF NewestUpTo, k
<1> QED
  BY <1>1, <1>2, <1>4, <1>5, <1>6 DEF k, Elements, Counts

LEMMA Appended ==
  ASSUME NEW s, s \in Seq(Nat), NEW n \in Nat
  PROVE  /\ Append(s, n) \in Seq(Nat) /\ Len(Append(s, n)) = Len(s) + 1
         /\ Append(s, n)[Len(s) + 1] = n
         /\ \A i \in 1..Len(s) : Append(s, n)[i] = s[i]
OBVIOUS

LEMMA WithoutHead ==
  ASSUME NEW s, s \in Seq(Nat), Len(s) > 0
  PROVE  /\ Tail(s) \in Seq(Nat) /\ Len(Tail(s)) = Len(s) - 1 /\ Head(s) = s[1]
         /\ \A i \in 1..(Len(s) - 1) : Tail(s)[i] = s[i + 1]
OBVIOUS

\* A number that is the next is added, if there is room.
LEMMA Grows ==
  ASSUME NEW s, NEW n \in Nat, NewestUpTo(s, n), ~Full(Append(s, n + 1))
  PROVE  /\ NewestUpTo(Append(s, n + 1), n + 1)
         /\ Len(Append(s, n + 1)) = Len(s) + 1
<1> DEFINE k == Len(s)
           t == Append(s, n + 1)
<1>1. k \in Nat /\ k <= n /\ \A i \in 1..k : s[i] = n - k + i
  <2>1. Counts(s, n, k)
    BY UpToCounts
  <2> HIDE DEF k
  <2> QED
    BY <2>1 DEF Counts
<1>2. t \in Seq(Nat) /\ Len(t) = k + 1 /\ t[k + 1] = n + 1 /\ \A i \in 1..k : t[i] = s[i]
  BY Appended DEF NewestUpTo
<1>3. Len(t) <= MaxNetworkRequests
  <2>1. ~(k + 1 > MaxNetworkRequests)
    BY <1>2 DEF Full
  <2> HIDE DEF k, t
  <2> QED
    BY <1>1, <1>2, <2>1, NetworkAssumption
<1> HIDE DEF k, t
<1>4. ASSUME NEW i \in 1..(k + 1)
      PROVE  t[i] = n + 1 - (k + 1) + i
  <2>1. CASE i = k + 1
    BY <1>1, <1>2, <2>1
  <2>2. CASE i # k + 1
    <3>1. i \in 1..k
      BY <1>1, <2>2
    <3>2. t[i] = n - k + i
      BY <1>1, <1>2, <3>1
    <3> QED
      BY <1>1, <3>1, <3>2
  <2> QED
    BY <2>1, <2>2
<1>5. k + 1 <= n + 1
  BY <1>1
<1>6. NewestUpTo(t, n + 1)
  BY <1>2, <1>3, <1>4, <1>5 DEF NewestUpTo
<1> QED
  BY <1>2, <1>6 DEF t, k

\* Without room, the oldest makes way.
LEMMA Slides ==
  ASSUME NEW s, NEW n \in Nat, NewestUpTo(s, n), Full(Append(s, n + 1))
  PROVE  /\ NewestUpTo(Tail(Append(s, n + 1)), n + 1)
         /\ Len(Tail(Append(s, n + 1))) = Len(s) /\ Len(s) >= 1
         /\ Head(Append(s, n + 1)) = n - Len(s) + 1
<1> DEFINE k == Len(s)
           t == Append(s, n + 1)
           u == Tail(t)
<1>1. k \in Nat /\ k <= n /\ k <= MaxNetworkRequests /\ \A i \in 1..k : s[i] = n - k + i
  <2>1. Counts(s, n, k)
    BY UpToCounts
  <2> HIDE DEF k
  <2> QED
    BY <2>1 DEF Counts
<1>2. t \in Seq(Nat) /\ Len(t) = k + 1 /\ t[k + 1] = n + 1 /\ \A i \in 1..k : t[i] = s[i]
  BY Appended DEF NewestUpTo
<1>3. k + 1 > MaxNetworkRequests
  BY <1>2 DEF Full
<1> HIDE DEF k, t
<1>4. k = MaxNetworkRequests /\ k >= 1 /\ 1 \in 1..k /\ k + 1 > 0 /\ k + 1 - 1 = k
  BY <1>1, <1>3, NetworkAssumption
<1>5. u \in Seq(Nat) /\ Len(u) = k /\ Head(t) = t[1] /\ \A i \in 1..k : u[i] = t[i + 1]
  <2>1. Len(t) > 0 /\ Len(t) - 1 = k
    <3> DEFINE l == Len(t)
    <3>1. l = k + 1
      BY <1>2
    <3> HIDE DEF l
    <3>2. l > 0 /\ l - 1 = k
      BY <1>1, <3>1
    <3> QED
      BY <3>2 DEF l
  <2>2. /\ u \in Seq(Nat) /\ Len(u) = Len(t) - 1 /\ Head(t) = t[1]
        /\ \A i \in 1..(Len(t) - 1) : u[i] = t[i + 1]
    BY <1>2, <2>1, WithoutHead DEF u
  <2> HIDE DEF u
  <2> QED
    BY <2>1, <2>2
<1> HIDE DEF u
<1>6. ASSUME NEW i \in 1..k
      PROVE  u[i] = n + 1 - k + i
  <2>1. u[i] = t[i + 1]
    BY <1>5
  <2>2. CASE i = k
    BY <1>1, <1>2, <2>1, <2>2
  <2>3. CASE i # k
    <3>1. i + 1 \in 1..k
      BY <1>1, <2>3
    <3>2. t[i + 1] = n - k + (i + 1)
      BY <1>1, <1>2, <3>1
    <3> QED
      BY <1>1, <2>1, <3>2
  <2> QED
    BY <2>2, <2>3
<1>7. k <= n + 1
  BY <1>1
<1>8. NewestUpTo(u, n + 1)
  BY <1>1, <1>5, <1>6, <1>7 DEF NewestUpTo
<1>9. Head(t) = n - k + 1
  BY <1>1, <1>2, <1>4, <1>5
<1> QED
  BY <1>4, <1>5, <1>8, <1>9 DEF k, t, u

LEMMA WindowGrows ==
  ASSUME Window, ~Full(Append(netReqs, netSeq + 1)),
         netSeq' = netSeq + 1, netReqs' = Append(netReqs, netSeq + 1)
  PROVE  Window' /\ Ring' = Ring \cup {netSeq + 1}
<1> DEFINE k == Len(netReqs)
<1>1. netSeq \in Nat /\ netSeq + 1 \in Nat /\ NewestUpTo(netReqs, netSeq)
  BY DEF Window
<1>2. NewestUpTo(netReqs', netSeq + 1) /\ Len(netReqs') = k + 1
  BY <1>1, Grows
<1>3. k \in Nat /\ k <= netSeq /\ Ring = (netSeq - k + 1)..netSeq
  <2>1. Ring = Elements(netReqs)
    BY DEF Ring, Elements
  <2>2. Counts(netReqs, netSeq, k)
    BY <1>1, UpToCounts
  <2> HIDE DEF k
  <2> QED
    BY <2>1, <2>2 DEF Counts
<1>4. Ring' = (netSeq + 1 - (k + 1) + 1)..(netSeq + 1)
  <2>1. PICK s : s = netReqs'
    OBVIOUS
  <2>2. Ring' = Elements(s)
    BY <2>1 DEF Ring, Elements
  <2>3. Counts(s, netSeq + 1, k + 1)
    BY <1>1, <1>2, <2>1, UpToCounts
  <2> HIDE DEF k
  <2> QED
    BY <1>1, <1>3, <2>2, <2>3 DEF Counts
<1> HIDE DEF k
<1>6. Ring' = Ring \cup {netSeq + 1}
  BY <1>1, <1>3, <1>4
<1> QED
  BY <1>1, <1>2, <1>6 DEF Window

LEMMA WindowSlides ==
  ASSUME Window, Full(Append(netReqs, netSeq + 1)),
         netSeq' = netSeq + 1, netReqs' = Tail(Append(netReqs, netSeq + 1))
  PROVE  /\ Window'
         /\ Head(Append(netReqs, netSeq + 1)) \in Ring
         /\ Ring' = (Ring \cup {netSeq + 1}) \ {Head(Append(netReqs, netSeq + 1))}
<1> DEFINE k == Len(netReqs)
           h == Head(Append(netReqs, netSeq + 1))
<1>1. netSeq \in Nat /\ netSeq + 1 \in Nat /\ NewestUpTo(netReqs, netSeq)
  BY DEF Window
<1>2. NewestUpTo(netReqs', netSeq + 1) /\ Len(netReqs') = k /\ k >= 1 /\ h = netSeq - k + 1
  BY <1>1, Slides
<1>3. k \in Nat /\ k <= netSeq /\ Ring = (netSeq - k + 1)..netSeq
  <2>1. Ring = Elements(netReqs)
    BY DEF Ring, Elements
  <2>2. Counts(netReqs, netSeq, k)
    BY <1>1, UpToCounts
  <2> HIDE DEF k
  <2> QED
    BY <2>1, <2>2 DEF Counts
<1>4. Ring' = (netSeq + 1 - (k) + 1)..(netSeq + 1)
  <2>1. PICK s : s = netReqs'
    OBVIOUS
  <2>2. Ring' = Elements(s)
    BY <2>1 DEF Ring, Elements
  <2>3. Counts(s, netSeq + 1, k)
    BY <1>1, <1>2, <2>1, UpToCounts
  <2> HIDE DEF k
  <2> QED
    BY <1>1, <1>3, <2>2, <2>3 DEF Counts
<1> HIDE DEF k, h
<1>6. h \in Ring /\ Ring' = (Ring \cup {netSeq + 1}) \ {h}
  BY <1>1, <1>2, <1>3, <1>4
<1> QED
  BY <1>1, <1>2, <1>6 DEF Window, h

LEMMA RingIsFiled ==
  ASSUME Window
  PROVE  Ring \subseteq 1..netSeq
<1>1. Ring = Elements(netReqs)
  BY DEF Ring, Elements
<1>2. netSeq \in Nat /\ Counts(netReqs, netSeq, Len(netReqs))
  BY UpToCounts DEF Window
<1> QED
  BY <1>1, <1>2 DEF Counts

-----------------------------------------------------------------------------
(* The steps *)

LEMMA Initially_N ==
  ASSUME Init
  PROVE  NInv
<1>1. Traffic
  BY NetworkAssumption DEF Init, Traffic, ChromeState
<1>2. Counted
  <2>1. Announced = {}
    BY NetworkAssumption DEF Init, Announced
  <2> QED
    BY <2>1, FS_EmptySet DEF Init, Counted
<1>3. Window /\ Ring = {}
  BY NetworkAssumption DEF Init, Window, NewestUpTo, Ring
<1>4. Filed
  <2>1. \A i \in Records : ~(i <= 0)
    BY AnnouncedIsFinite DEF Records
  <2> QED
    BY <2>1, NetworkAssumption DEF Init, Filed, RecordState, NoRecord
<1>5. OneRecord /\ TableWithinBuffer /\ UpdatesAreOwn /\ PlainRequestsFollowed
  BY <1>3 DEF Init, OneRecord, TableWithinBuffer, UpdatesAreOwn, PlainRequestsFollowed
<1> QED
  BY <1>1, <1>2, <1>3, <1>4, <1>5 DEF NInv

\* What the announcement of r does to the table and the records: n is the new one,
\* and what is evicted loses its entry.
Announces(r, n) ==
    /\ n = netSeq + 1 /\ netSeq' = n /\ n \in Records
    /\ rec' = [rec EXCEPT ![n] = [NoRecord EXCEPT !.req = r]]
    /\ \/ /\ Ring' = Ring \cup {n}
          /\ netByID' = [netByID EXCEPT ![r] = n]
       \/ \E h \in Ring :
            /\ Ring' = (Ring \cup {n}) \ {h}
            /\ netByID' = [[netByID EXCEPT ![r] = n] EXCEPT ![rec[h].req] = 0]

LEMMA AnnouncementIs ==
  ASSUME NInv, NEW r \in Requests, RequestWillBeSent(r)
  PROVE  Announces(r, netSeq + 1) /\ Window' /\ Counted' /\ Traffic'
<1>1. /\ chrome[r].hops < MaxHops
      /\ chrome' = [chrome EXCEPT ![r].hops = @ + 1]
      /\ netSeq' = netSeq + 1
      /\ rec' = [rec EXCEPT ![netSeq + 1] = [NoRecord EXCEPT !.req = r]]
  BY DEF RequestWillBeSent, Becomes
<1>2. Traffic /\ Counted /\ Window
  BY DEF NInv
<1>3. Counted' /\ netSeq' \in Records /\ Traffic'
  BY <1>1, <1>2, CountOne
<1>4. CASE Full(Append(netReqs, netSeq + 1))
  <2>1. /\ netReqs' = Tail(Append(netReqs, netSeq + 1))
        /\ netByID' = [[netByID EXCEPT ![r] = netSeq + 1]
                          EXCEPT ![rec[Head(Append(netReqs, netSeq + 1))].req] = 0]
    BY <1>1, <1>4 DEF RequestWillBeSent, DropEntry
  <2>2. /\ Window' /\ Head(Append(netReqs, netSeq + 1)) \in Ring
        /\ Ring' = (Ring \cup {netSeq + 1}) \ {Head(Append(netReqs, netSeq + 1))}
    BY <1>1, <1>2, <1>4, <2>1, WindowSlides
  <2> QED
    BY <1>1, <1>3, <2>1, <2>2 DEF Announces
<1>5. CASE ~Full(Append(netReqs, netSeq + 1))
  <2>1. /\ netReqs' = Append(netReqs, netSeq + 1)
        /\ netByID' = [netByID EXCEPT ![r] = netSeq + 1]
    BY <1>1, <1>5 DEF RequestWillBeSent
  <2>2. Window' /\ Ring' = Ring \cup {netSeq + 1}
    BY <1>1, <1>2, <1>5, <2>1, WindowGrows
  <2> QED
    BY <1>1, <1>3, <2>1, <2>2 DEF Announces
<1> QED
  BY <1>4, <1>5

LEMMA Announcement_N ==
  ASSUME NInv, NEW r \in Requests, RequestWillBeSent(r)
  PROVE  NInv'
<1>1. PICK n : n = netSeq + 1
  OBVIOUS
<1>2. Announces(r, n) /\ Window' /\ Counted' /\ Traffic'
  BY <1>1, AnnouncementIs
<1>3. n \in Records /\ n = netSeq + 1 /\ netSeq' = n /\ netSeq \in Nat
  BY <1>2 DEF Announces, NInv, Window
<1>4. /\ rec'[n].req = r /\ ~rec'[n].status /\ ~rec'[n].finished /\ ~rec'[n].failed
      /\ rec' \in [Records -> RecordState]
      /\ \A i \in Records : i # n => rec'[i] = rec[i]
  BY <1>2 DEF Announces, NInv, Filed, RecordState, NoRecord
<1>5. Ring \subseteq 1..netSeq /\ 1..netSeq \subseteq Records /\ 1..n = 1..netSeq \cup {n}
  <2>1. Ring \subseteq 1..netSeq
    BY RingIsFiled DEF NInv
  <2> QED
    BY <2>1, <1>3, AnnouncedIsFinite DEF Records
<1>6. \A i \in 1..netSeq : i # n /\ rec'[i] = rec[i] /\ rec[i].req \in Requests
  BY <1>3, <1>4, <1>5 DEF NInv, Filed
<1>7. /\ chrome'[r].hops = chrome[r].hops + 1 /\ chrome[r].hops \in Nat
      /\ chrome'[r].status = chrome[r].status /\ chrome'[r].finished = chrome[r].finished
      /\ chrome'[r].failed = chrome[r].failed
      /\ \A q \in Requests : q # r => chrome'[q] = chrome[q]
  BY DEF RequestWillBeSent, NInv, Traffic, ChromeState
<1>8. Filed'
  <2>1. netByID' \in [Requests -> Nat]
    BY <1>2, <1>3 DEF Announces, NInv, Filed
  <2>2. ASSUME NEW i \in Records
        PROVE  rec'[i].req \in Requests <=> i <= netSeq'
    <3>1. CASE i = n
      BY <1>3, <1>4, <3>1
    <3>2. CASE i # n
      <4>1. i \in Nat /\ (i <= netSeq <=> i <= n)
        BY <1>3, <3>2 DEF Records
      <4> QED
        BY <1>3, <1>4, <3>2, <4>1 DEF NInv, Filed
    <3> QED
      BY <3>1, <3>2
  <2> QED
    BY <1>4, <2>1, <2>2 DEF Filed
<1>9. UpdatesAreOwn'
  <2>1. ASSUME NEW i \in 1..n
        PROVE  /\ rec'[i].status => chrome'[rec'[i].req].status
               /\ rec'[i].finished => chrome'[rec'[i].req].finished
               /\ rec'[i].failed => chrome'[rec'[i].req].failed
    <3>1. CASE i = n
      BY <1>4, <3>1
    <3>2. CASE i \in 1..netSeq
      <4>1. /\ chrome'[rec[i].req].status = chrome[rec[i].req].status
            /\ chrome'[rec[i].req].finished = chrome[rec[i].req].finished
            /\ chrome'[rec[i].req].failed = chrome[rec[i].req].failed
        BY <1>6, <1>7, <3>2
      <4> QED
        BY <1>6, <3>2, <4>1 DEF NInv, UpdatesAreOwn
    <3> QED
      BY <1>5, <3>1, <3>2
  <2> QED
    BY <1>3, <2>1 DEF UpdatesAreOwn
\* The table after the announcement.
<1>10. /\ Ring' \subseteq Ring \cup {n}
       /\ \A q \in Requests : q # r => netByID'[q] = netByID[q] \/ netByID'[q] = 0
       /\ netByID'[r] = n \/ netByID'[r] = 0
       /\ netByID \in [Requests -> Nat]
  BY <1>2 DEF Announces, NInv, Filed
<1>11. ASSUME NEW h \in Ring, h \notin Ring'
       PROVE  netByID'[rec[h].req] = 0
  BY <1>2, <1>5, <1>6, <1>11 DEF Announces, NInv, Filed
<1>12. ASSUME NEW q \in Requests, netByID'[q] # 0
       PROVE  netByID'[q] \in Ring' /\ rec'[netByID'[q]].req = q
  <2>1. CASE q = r
    <3>1. netByID'[r] = n
      BY <1>10, <1>12, <2>1
    <3>2. n \in Ring'
      BY <1>2, <1>5, <1>6 DEF Announces
    <3> QED
      BY <1>4, <2>1, <3>1, <3>2
  <2>2. CASE q # r
    <3>1. netByID'[q] = netByID[q] /\ netByID[q] # 0
      BY <1>10, <1>12, <2>2
    <3>2. netByID[q] \in Ring /\ rec[netByID[q]].req = q
      BY <3>1 DEF NInv, TableWithinBuffer
    <3>3. netByID[q] \in Ring'
      BY <1>11, <1>12, <3>2
    <3> QED
      BY <1>5, <1>6, <3>1, <3>2, <3>3
  <2> QED
    BY <2>1, <2>2
<1>13. TableWithinBuffer'
  BY <1>12 DEF TableWithinBuffer
<1>14. \A i \in 1..n : chrome'[rec'[i].req].hops > 0
  <2>1. chrome'[r].hops > 0
    BY <1>7
  <2>2. ASSUME NEW i \in 1..netSeq
        PROVE  chrome'[rec'[i].req].hops > 0
    <3>1. chrome[rec[i].req].hops > 0
      BY DEF NInv, OneRecord
    <3> QED
      BY <1>6, <1>7, <2>1, <3>1
  <2> QED
    BY <1>4, <1>5, <2>1, <2>2
<1>15. ASSUME chrome'[r].hops = 1
       PROVE  \A i \in 1..netSeq : rec[i].req # r
  <2>1. chrome[r].hops = 0
    BY <1>7, <1>15
  <2> QED
    BY <2>1 DEF NInv, OneRecord
<1>16. ASSUME NEW i \in 1..n, NEW j \in 1..n, rec'[i].req = rec'[j].req,
              chrome'[rec'[i].req].hops = 1
       PROVE  i = j
  <2>1. CASE i \in 1..netSeq /\ j \in 1..netSeq
    <3>1. rec[i].req = rec[j].req /\ rec[i].req # r
      BY <1>6, <1>15, <1>16, <2>1
    <3>2. chrome[rec[i].req].hops = 1
      BY <1>6, <1>7, <1>16, <2>1, <3>1
    <3> QED
      BY <2>1, <3>1, <3>2 DEF NInv, OneRecord
  <2>2. CASE i = n /\ j \in 1..netSeq
    BY <1>4, <1>6, <1>15, <1>16, <2>2
  <2>3. CASE j = n /\ i \in 1..netSeq
    BY <1>4, <1>6, <1>15, <1>16, <2>3
  <2> QED
    BY <1>5, <2>1, <2>2, <2>3
\* A request announced once that is still buffered is not the one evicted.
<1>17. ASSUME NEW i \in Ring', chrome'[rec'[i].req].hops = 1
       PROVE  /\ netByID'[rec'[i].req] = i
              /\ i # n => i \in Ring /\ rec'[i] = rec[i] /\ rec[i].req # r
  <2>1. CASE i = n
    <3>1. netByID'[r] = n
      <4>1. ASSUME NEW h \in Ring
            PROVE  rec[h].req # r
        BY <1>4, <1>5, <1>15, <1>17, <2>1
      <4> QED
        BY <1>2, <4>1 DEF Announces, NInv, Filed
    <3> QED
      BY <1>4, <2>1, <3>1
  <2>2. CASE i # n
    <3>1. i \in Ring /\ i \in 1..netSeq /\ rec'[i] = rec[i] /\ rec[i].req \in Requests
      BY <1>5, <1>6, <1>10, <2>2
    <3>2. rec[i].req # r
      BY <1>15, <1>17, <3>1
    <3>3. chrome[rec[i].req].hops = 1
      BY <1>7, <1>17, <3>1, <3>2
    <3>4. netByID[rec[i].req] = i
      BY <3>1, <3>3 DEF NInv, OneRecord
    <3>5. ASSUME NEW h \in Ring, h # i
          PROVE  rec[h].req # rec[i].req
      BY <1>5, <3>1, <3>3, <3>5 DEF NInv, OneRecord
    <3>6. netByID'[rec[i].req] = i
      BY <1>2, <3>1, <3>2, <3>4, <3>5 DEF Announces, NInv, Filed
    <3> QED
      BY <3>1, <3>2, <3>6
  <2> QED
    BY <2>1, <2>2
<1>18. OneRecord'
  BY <1>3, <1>14, <1>16, <1>17 DEF OneRecord
<1>19. PlainRequestsFollowed'
  <2>1. ASSUME NEW i \in Ring', chrome'[rec'[i].req].hops = 1
        PROVE  /\ rec'[i].status = chrome'[rec'[i].req].status
               /\ rec'[i].finished = chrome'[rec'[i].req].finished
               /\ rec'[i].failed = chrome'[rec'[i].req].failed
    <3>1. CASE i = n
      <4>1. ~chrome[r].status /\ ~chrome[r].finished
        BY DEF RequestWillBeSent
      <4>2. ~chrome[r].failed
        BY <4>1 DEF NInv, Traffic
      <4>3. /\ chrome[r] \in ChromeState /\ rec'[n] \in RecordState
        BY <1>3, <1>4 DEF NInv, Traffic
      <4> QED
        BY <1>4, <1>7, <3>1, <4>1, <4>2, <4>3 DEF ChromeState, RecordState
    <3>2. CASE i # n
      <4>1. i \in Ring /\ rec'[i] = rec[i] /\ rec[i].req # r /\ rec[i].req \in Requests
        BY <1>5, <1>6, <1>17, <2>1, <3>2
      <4>2. chrome'[rec[i].req] = chrome[rec[i].req]
        BY <1>7, <4>1
      <4>3. Fields(i) = [status |-> chrome[rec[i].req].status,
                         finished |-> chrome[rec[i].req].finished,
                         failed |-> chrome[rec[i].req].failed]
        BY <2>1, <4>1, <4>2 DEF NInv, PlainRequestsFollowed
      <4> QED
        BY <4>1, <4>2, <4>3 DEF Fields
    <3> QED
      BY <3>1, <3>2
  <2> QED
    BY <2>1 DEF PlainRequestsFollowed, Fields
<1> QED
  BY <1>2, <1>8, <1>9, <1>13, <1>18, <1>19 DEF NInv

\* What Chrome comes to when the fields F of r are so.
Happens(r, F) ==
    /\ chrome' \in [Requests -> ChromeState]
    /\ \A q \in Requests : q # r => chrome'[q] = chrome[q]
    /\ chrome'[r].hops = chrome[r].hops
    /\ chrome'[r].status <=> chrome[r].status \/ "status" \in F
    /\ chrome'[r].finished <=> chrome[r].finished \/ "finished" \in F
    /\ chrome'[r].failed <=> chrome[r].failed \/ "failed" \in F

LEMMA Updated ==
  ASSUME NInv, NEW i \in Records, NEW F, "req" \notin F,
         rec' = [rec EXCEPT ![i] = [f \in DOMAIN NoRecord |-> IF f \in F THEN TRUE ELSE rec[i][f]]]
  PROVE  /\ rec' \in [Records -> RecordState]
         /\ \A j \in Records : j # i => rec'[j] = rec[j]
         /\ rec'[i].req = rec[i].req
         /\ rec'[i].status <=> rec[i].status \/ "status" \in F
         /\ rec'[i].finished <=> rec[i].finished \/ "finished" \in F
         /\ rec'[i].failed <=> rec[i].failed \/ "failed" \in F
<1>1. rec \in [Records -> RecordState] /\ rec[i] \in RecordState
  BY DEF NInv, Filed
<1>2. DOMAIN NoRecord = {"req", "status", "finished", "failed"}
  BY DEF NoRecord
<1> DEFINE new == [f \in DOMAIN NoRecord |-> IF f \in F THEN TRUE ELSE rec[i][f]]
<1>3. /\ DOMAIN new = {"req", "status", "finished", "failed"}
      /\ new.req = rec[i].req
      /\ new.status = (IF "status" \in F THEN TRUE ELSE rec[i].status)
      /\ new.finished = (IF "finished" \in F THEN TRUE ELSE rec[i].finished)
      /\ new.failed = (IF "failed" \in F THEN TRUE ELSE rec[i].failed)
  BY <1>2
<1>5. rec' = [rec EXCEPT ![i] = new]
  OBVIOUS
<1>6. new \in RecordState
  BY <1>1, <1>2 DEF RecordState
<1> HIDE DEF new
<1>7. rec'[i] = new /\ \A j \in Records : j # i => rec'[j] = rec[j]
  BY <1>1, <1>5
<1>8. rec' \in [Records -> RecordState]
  BY <1>1, <1>5, <1>6
<1>9. /\ rec[i].status \in BOOLEAN /\ rec[i].finished \in BOOLEAN /\ rec[i].failed \in BOOLEAN
  BY <1>1 DEF RecordState
<1> QED
  BY <1>3, <1>7, <1>8, <1>9

LEMMA Update_N ==
  ASSUME NInv, NEW r \in Requests, NEW F, "req" \notin F, Update(r, F), Happens(r, F), Traffic'
  PROVE  NInv'
<1>1. UNCHANGED <<netSeq, netReqs, netByID>> /\ Ring' = Ring
  BY DEF Update, Ring
<1>2. Counted' /\ Window'
  <2>1. \A q \in Requests : chrome'[q].hops = chrome[q].hops
    BY DEF Happens
  <2>2. Announced' = Announced
    BY <2>1 DEF Announced
  <2> QED
    BY <1>1, <2>2 DEF NInv, Counted, Window
<1>3. Ring \subseteq 1..netSeq /\ 1..netSeq \subseteq Records
  <2>1. Ring \subseteq 1..netSeq
    BY RingIsFiled DEF NInv
  <2>2. netSeq \in Nat /\ netSeq <= MaxRecords /\ MaxRecords \in Nat
    BY AnnouncedIsFinite DEF NInv, Counted
  <2> QED
    BY <2>1, <2>2 DEF Records
<1>4. /\ \A q \in Requests : chrome[q] \in ChromeState /\ chrome'[q] \in ChromeState
      /\ rec \in [Records -> RecordState]
  BY DEF NInv, Traffic, Happens, Filed
<1>5. CASE netByID[r] = 0
  <2>1. rec' = rec
    BY <1>5 DEF Update, Followed
  <2>2. \A i \in Ring : rec[i].req = r => chrome[r].hops # 1
    BY <1>3, <1>5 DEF NInv, OneRecord
  <2>3. Filed' /\ OneRecord' /\ TableWithinBuffer'
    <3>1. \A i \in 1..netSeq : rec[i].req \in Requests
      BY <1>3 DEF NInv, Filed
    <3>2. \A q \in Requests : chrome'[q].hops = chrome[q].hops
      BY DEF Happens
    <3> QED
      BY <1>1, <1>3, <2>1, <3>1, <3>2 DEF NInv, Filed, OneRecord, TableWithinBuffer
  <2>4. UpdatesAreOwn'
    <3> SUFFICES ASSUME NEW i \in 1..netSeq
                 PROVE  /\ rec[i].status => chrome'[rec[i].req].status
                        /\ rec[i].finished => chrome'[rec[i].req].finished
                        /\ rec[i].failed => chrome'[rec[i].req].failed
      BY <1>1, <2>1 DEF UpdatesAreOwn
    <3>1. rec[i].req \in Requests
      BY <1>3 DEF NInv, Filed
    <3>2. /\ rec[i].status => chrome[rec[i].req].status
          /\ rec[i].finished => chrome[rec[i].req].finished
          /\ rec[i].failed => chrome[rec[i].req].failed
      BY DEF NInv, UpdatesAreOwn
    <3>3. CASE rec[i].req = r
      BY <3>2, <3>3 DEF Happens
    <3>4. CASE rec[i].req # r
      BY <3>1, <3>2, <3>4 DEF Happens
    <3> QED
      BY <3>3, <3>4
  <2>5. PlainRequestsFollowed'
    <3> SUFFICES ASSUME NEW i \in Ring, chrome'[rec[i].req].hops = 1
                 PROVE  Fields(i) = [status |-> chrome'[rec[i].req].status,
                                     finished |-> chrome'[rec[i].req].finished,
                                     failed |-> chrome'[rec[i].req].failed]
      BY <1>1, <2>1 DEF PlainRequestsFollowed, Fields
    <3>1. rec[i].req \in Requests
      BY <1>3 DEF NInv, Filed
    <3>2. rec[i].req # r
      BY <2>2 DEF Happens
    <3>3. chrome'[rec[i].req] = chrome[rec[i].req]
      BY <3>1, <3>2 DEF Happens
    <3> QED
      BY <3>3 DEF NInv, PlainRequestsFollowed
  <2> QED
    BY <1>2, <2>3, <2>4, <2>5 DEF NInv
<1>6. CASE netByID[r] # 0
  <2>1. PICK i : i = netByID[r]
    OBVIOUS
  <2>2. i \in Ring /\ rec[i].req = r /\ i \in 1..netSeq /\ i \in Records
    BY <1>3, <1>6, <2>1 DEF NInv, TableWithinBuffer
  <2>3. rec' = [rec EXCEPT ![i] = [f \in DOMAIN NoRecord |->
                                       IF f \in F THEN TRUE ELSE rec[i][f]]]
    BY <1>6, <2>1 DEF Update, Followed, Becomes
  <2>4. /\ rec' \in [Records -> RecordState]
        /\ \A j \in Records : j # i => rec'[j] = rec[j]
        /\ rec'[i].req = rec[i].req
        /\ rec'[i].status <=> rec[i].status \/ "status" \in F
        /\ rec'[i].finished <=> rec[i].finished \/ "finished" \in F
        /\ rec'[i].failed <=> rec[i].failed \/ "failed" \in F
    BY <2>2, <2>3, Updated
  <2>5. \A j \in Records : rec'[j].req = rec[j].req
    BY <2>4
  <2>6. Filed' /\ OneRecord' /\ TableWithinBuffer'
    <3>1. \A j \in 1..netSeq : rec[j].req \in Requests
      BY <1>3 DEF NInv, Filed
    <3>2. \A q \in Requests : chrome'[q].hops = chrome[q].hops
      BY DEF Happens
    <3>3. Filed'
      BY <1>1, <2>4, <2>5 DEF NInv, Filed
    <3>4. OneRecord'
      BY <1>1, <1>3, <2>5, <3>1, <3>2 DEF NInv, OneRecord
    <3>5. TableWithinBuffer'
      BY <1>1, <1>3, <2>5 DEF NInv, TableWithinBuffer
    <3> QED
      BY <3>3, <3>4, <3>5
  <2>7. UpdatesAreOwn'
    <3> SUFFICES ASSUME NEW j \in 1..netSeq
                 PROVE  /\ rec'[j].status => chrome'[rec'[j].req].status
                        /\ rec'[j].finished => chrome'[rec'[j].req].finished
                        /\ rec'[j].failed => chrome'[rec'[j].req].failed
      BY <1>1 DEF UpdatesAreOwn
    <3>1. rec[j].req \in Requests /\ rec'[j].req = rec[j].req /\ j \in Records
      BY <1>3, <2>5 DEF NInv, Filed
    <3>2. /\ rec[j].status => chrome[rec[j].req].status
          /\ rec[j].finished => chrome[rec[j].req].finished
          /\ rec[j].failed => chrome[rec[j].req].failed
      BY DEF NInv, UpdatesAreOwn
    <3>3. CASE j = i
      BY <2>2, <2>4, <3>2, <3>3 DEF Happens
    <3>4. CASE j # i
      <4>1. rec'[j] = rec[j]
        BY <2>4, <3>1, <3>4
      <4>2. CASE rec[j].req = r
        BY <3>2, <4>1, <4>2 DEF Happens
      <4>3. CASE rec[j].req # r
        BY <3>1, <3>2, <4>1, <4>3 DEF Happens
      <4> QED
        BY <4>2, <4>3
    <3> QED
      BY <3>3, <3>4
  <2>8. PlainRequestsFollowed'
    <3> SUFFICES ASSUME NEW j \in Ring, chrome'[rec'[j].req].hops = 1
                 PROVE  /\ rec'[j].status = chrome'[rec'[j].req].status
                        /\ rec'[j].finished = chrome'[rec'[j].req].finished
                        /\ rec'[j].failed = chrome'[rec'[j].req].failed
      BY <1>1 DEF PlainRequestsFollowed, Fields
    <3>1. rec[j].req \in Requests /\ rec'[j].req = rec[j].req /\ j \in Records
      BY <1>3, <2>5 DEF NInv, Filed
    <3>2. chrome[rec[j].req].hops = 1
      BY <3>1 DEF Happens
    <3>3. Fields(j) = [status |-> chrome[rec[j].req].status,
                       finished |-> chrome[rec[j].req].finished,
                       failed |-> chrome[rec[j].req].failed]
      BY <3>2 DEF NInv, PlainRequestsFollowed
    <3>4. /\ rec[j].status = chrome[rec[j].req].status
          /\ rec[j].finished = chrome[rec[j].req].finished
          /\ rec[j].failed = chrome[rec[j].req].failed
      BY <3>3 DEF Fields
    <3>5. CASE j = i
      <4>1. rec'[i] \in RecordState /\ chrome'[r] \in ChromeState
        BY <1>4, <2>2, <2>4
      <4> QED
        BY <2>2, <2>4, <3>4, <3>5, <4>1 DEF Happens, RecordState, ChromeState
    <3>6. CASE j # i
      <4>1. rec'[j] = rec[j]
        BY <2>4, <3>1, <3>6
      <4>2. netByID[rec[j].req] = j
        BY <3>2 DEF NInv, OneRecord
      <4>3. rec[j].req # r
        BY <2>1, <3>6, <4>2
      <4>4. chrome'[rec[j].req] = chrome[rec[j].req]
        BY <3>1, <4>3 DEF Happens
      <4> QED
        BY <3>4, <4>1, <4>4
    <3> QED
      BY <3>5, <3>6
  <2> QED
    BY <1>2, <2>6, <2>7, <2>8 DEF NInv
<1> QED
  BY <1>5, <1>6

LEMMA Events_N ==
  ASSUME NInv, NEW r \in Requests,
         ResponseReceived(r) \/ LoadingFinished(r) \/ LoadingFailed(r)
  PROVE  NInv'
<1>1. /\ chrome \in [Requests -> ChromeState] /\ chrome[r] \in ChromeState
      /\ chrome[r].status => chrome[r].hops > 0
  BY DEF NInv, Traffic
<1>2. CASE ResponseReceived(r)
  <2>1. chrome' = [chrome EXCEPT ![r].status = TRUE] /\ chrome[r].hops > 0
        /\ Update(r, {"status"})
    BY <1>2 DEF ResponseReceived
  <2>2. Happens(r, {"status"})
    BY <1>1, <2>1 DEF Happens, ChromeState
  <2>3. Traffic'
    BY <1>1, <2>1, <2>2 DEF NInv, Traffic, Happens
  <2> QED
    BY <2>1, <2>2, <2>3, Update_N
<1>3. CASE LoadingFinished(r)
  <2>1. chrome' = [chrome EXCEPT ![r].finished = TRUE] /\ chrome[r].hops > 0
        /\ Update(r, {"finished"})
    BY <1>1, <1>3 DEF LoadingFinished
  <2>2. Happens(r, {"finished"})
    BY <1>1, <2>1 DEF Happens, ChromeState
  <2>3. Traffic'
    BY <1>1, <2>1, <2>2 DEF NInv, Traffic, Happens
  <2> QED
    BY <2>1, <2>2, <2>3, Update_N
<1>4. CASE LoadingFailed(r)
  <2>1. /\ chrome' = [chrome EXCEPT ![r].finished = TRUE, ![r].failed = TRUE]
        /\ chrome[r].hops > 0 /\ Update(r, {"finished", "failed"})
    BY <1>4 DEF LoadingFailed
  <2>2. Happens(r, {"finished", "failed"})
    BY <1>1, <2>1 DEF Happens, ChromeState
  <2>3. Traffic'
    BY <1>1, <2>1, <2>2 DEF NInv, Traffic, Happens
  <2> QED
    BY <2>1, <2>2, <2>3, Update_N
<1> QED
  BY <1>2, <1>3, <1>4

\* What the invariant speaks of stays as it is when a tool reads.
LEMMA Still_N ==
  ASSUME NInv, UNCHANGED <<netSeq, netReqs, netByID, rec, chrome>>
  PROVE  NInv'
<1>1. Traffic' /\ Counted' /\ Window' /\ Filed'
  BY DEF NInv, Traffic, Counted, Announced, Window, Filed
<1>2. Ring' = Ring /\ \A i : Fields(i)' = Fields(i)
  BY DEF Ring, Fields
<1> QED
  BY <1>1, <1>2 DEF NInv, OneRecord, TableWithinBuffer, UpdatesAreOwn, PlainRequestsFollowed

LEMMA Keeps_N ==
  ASSUME NInv, [Next]_vars
  PROVE  NInv'
<1>1. CASE \E r \in Requests : \/ RequestWillBeSent(r) \/ ResponseReceived(r)
                               \/ LoadingFinished(r) \/ LoadingFailed(r)
  BY <1>1, Announcement_N, Events_N
<1>2. ASSUME NEW i \in Records, FindRequest(i)
      PROVE  NInv'
  <2>1. UNCHANGED <<netSeq, netReqs, netByID, rec, chrome>>
    BY <1>2 DEF FindRequest, serverVars
  <2> QED
    BY <2>1, Still_N
<1>3. CASE \/ ListFailed \/ RefuseRequest \/ ReadStatus \/ ReadFinished \/ ReadFailed \/ Report
           \/ UNCHANGED vars
  <2>1. UNCHANGED <<netSeq, netReqs, netByID, rec, chrome>>
    BY <1>3 DEF ListFailed, RefuseRequest, ReadStatus, ReadFinished, ReadFailed, Report, vars,
                serverVars
  <2> QED
    BY <2>1, Still_N
<1> QED
  BY <1>1, <1>2, <1>3 DEF Next

\* The table leads to records that are buffered, and to those of the request alone.
THEOREM TableStaysWithinBuffer == Spec => []TableWithinBuffer
<1>1. Init => NInv
  BY Initially_N
<1>2. NInv /\ [Next]_vars => NInv'
  BY Keeps_N
<1>3. NInv => TableWithinBuffer
  BY DEF NInv
<1> QED
  BY <1>1, <1>2, <1>3, PTL DEF Spec

\* What a record says happened to its request, and of a buffered one that was never
\* redirected all of it is there.
THEOREM RecordsStayTrue == Spec => []RecordsAreTrue
<1>1. Init => NInv
  BY Initially_N
<1>2. NInv /\ [Next]_vars => NInv'
  BY Keeps_N
<1>3. NInv => RecordsAreTrue
  BY DEF NInv, RecordsAreTrue
<1> QED
  BY <1>1, <1>2, <1>3, PTL DEF Spec

-----------------------------------------------------------------------------
(* Types *)

GetState == [at : {"idle", "status", "finished", "failed", "report"}, id : Nat,
             status : BOOLEAN, finished : BOOLEAN, failed : BOOLEAN]

\* What the tools and the client hold.
Holding ==
    /\ get \in GetState /\ get.id <= netSeq
    /\ get.at # "idle" => get.id \in 1..netSeq
    /\ cursor \in 0..netSeq /\ told \subseteq 1..netSeq
    /\ past \in [Records -> SUBSET Flags]

LEMMA FieldsAreFlags ==
  ASSUME NInv, NEW i \in Records
  PROVE  Fields(i) \in Flags
BY DEF NInv, Filed, RecordState, Fields, Flags

LEMMA Keeps_H ==
  ASSUME NInv, Holding, [Next]_vars
  PROVE  Holding'
<1>0. netSeq \in Nat /\ Ring \subseteq 1..netSeq /\ 1..netSeq \subseteq Records
  <2>1. Ring \subseteq 1..netSeq
    BY RingIsFiled DEF NInv
  <2>2. netSeq \in Nat /\ netSeq <= MaxRecords /\ MaxRecords \in Nat
    BY AnnouncedIsFinite DEF NInv, Counted
  <2> QED
    BY <2>1, <2>2 DEF Records
<1>1. ASSUME NEW r \in Requests, RequestWillBeSent(r)
      PROVE  Holding'
  <2>1. netSeq' = netSeq + 1 /\ UNCHANGED <<get, cursor, told>>
    BY <1>1 DEF RequestWillBeSent, clientVars
  <2>2. netSeq + 1 \in Records
    BY <1>1, AnnouncementIs DEF Announces
  <2>3. past' = [past EXCEPT ![netSeq + 1] = @ \cup {Fields(netSeq + 1)}]
    BY <1>1, <2>1 DEF RequestWillBeSent, Becomes
  <2>4. past' \in [Records -> SUBSET Flags]
    BY <2>2, <2>3, FieldsAreFlags DEF Holding
  <2>5. 1..netSeq \subseteq 1..(netSeq + 1) /\ 0..netSeq \subseteq 0..(netSeq + 1)
    BY <1>0
  <2>6. get' \in GetState /\ get'.id <= netSeq + 1
    BY <1>0, <2>1 DEF Holding, GetState
  <2>7. get'.at # "idle" => get'.id \in 1..(netSeq + 1)
    BY <2>1, <2>5 DEF Holding
  <2>8. cursor' \in 0..(netSeq + 1) /\ told' \subseteq 1..(netSeq + 1)
    BY <2>1, <2>5 DEF Holding
  <2> QED
    BY <2>1, <2>4, <2>6, <2>7, <2>8 DEF Holding
<1>2. ASSUME NEW r \in Requests, NEW F, Update(r, F)
      PROVE  Holding'
  <2>1. UNCHANGED <<netSeq, get, cursor, told>>
    BY <1>2 DEF Update, clientVars
  <2>2. past' \in [Records -> SUBSET Flags]
    <3>1. CASE netByID[r] = 0
      BY <1>2, <3>1 DEF Update, Followed, Holding
    <3>2. CASE netByID[r] # 0
      <4>1. netByID[r] \in Records
        BY <1>0, <3>2 DEF NInv, TableWithinBuffer
      <4>2. past' = [past EXCEPT ![netByID[r]] = @ \cup {Fields(netByID[r])}]
        BY <1>2, <3>2 DEF Update, Followed, Becomes
      <4> QED
        BY <4>1, <4>2, FieldsAreFlags DEF Holding
    <3> QED
      BY <3>1, <3>2
  <2> QED
    BY <2>1, <2>2 DEF Holding
<1>3. CASE \E r \in Requests : ResponseReceived(r) \/ LoadingFinished(r) \/ LoadingFailed(r)
  BY <1>2, <1>3 DEF ResponseReceived, LoadingFinished, LoadingFailed
<1>4. CASE ListFailed
  <2>1. UNCHANGED <<netSeq, get, past>>
    BY <1>4 DEF ListFailed, serverVars
  <2>2. told' \subseteq 1..netSeq
    BY <1>0, <1>4 DEF ListFailed, Holding
  <2>3. cursor' \in 0..netSeq
    <3>1. CASE netReqs = <<>>
      BY <1>0, <1>4, <3>1 DEF ListFailed
    <3>2. CASE netReqs # <<>>
      <4>1. Len(netReqs) \in DOMAIN netReqs
        BY <3>2 DEF NInv, Window, NewestUpTo
      <4>2. netReqs[Len(netReqs)] \in Ring
        BY <4>1 DEF Ring
      <4>3. cursor' = netReqs[Len(netReqs)]
        BY <1>4, <3>2 DEF ListFailed
      <4>4. 1..netSeq \subseteq 0..netSeq
        BY <1>0
      <4> QED
        BY <1>0, <4>2, <4>3, <4>4
    <3> QED
      BY <3>1, <3>2
  <2> QED
    BY <2>1, <2>2, <2>3 DEF Holding
<1>5. ASSUME NEW i \in Records, FindRequest(i)
      PROVE  Holding'
  <2>1. UNCHANGED <<netSeq, cursor, told, past>> /\ i \in 1..netSeq
    BY <1>0, <1>5 DEF FindRequest, serverVars
  <2>2. get' \in GetState /\ get'.id = i
    <3>1. get' = [at |-> "status", id |-> i, status |-> FALSE, finished |-> FALSE,
                  failed |-> FALSE]
      BY <1>5 DEF FindRequest, NoGet
    <3>2. i \in Nat
      BY <1>0, <2>1
    <3> QED
      BY <3>1, <3>2 DEF GetState
  <2> QED
    BY <1>0, <2>1, <2>2 DEF Holding
<1>6. CASE RefuseRequest \/ Report
  <2>1. UNCHANGED <<netSeq, cursor, told, past>> /\ get' = NoGet
    BY <1>6 DEF RefuseRequest, Report, serverVars
  <2> QED
    BY <1>0, <2>1 DEF Holding, NoGet, GetState
<1>7. CASE ReadStatus \/ ReadFinished \/ ReadFailed
  <2>1. UNCHANGED <<netSeq, cursor, told, past>> /\ get.at # "idle"
    BY <1>7 DEF ReadStatus, ReadFinished, ReadFailed, serverVars
  <2>2. get.id \in 1..netSeq /\ get \in GetState
    BY <2>1 DEF Holding
  <2>3. rec[get.id] \in RecordState
    BY <1>0, <2>2 DEF NInv, Filed
  <2>4. get' \in GetState /\ get'.id = get.id
    BY <1>7, <2>2, <2>3 DEF ReadStatus, ReadFinished, ReadFailed, GetState, RecordState
  <2> QED
    BY <1>0, <2>1, <2>2, <2>4 DEF Holding
<1>8. CASE UNCHANGED vars
  BY <1>8 DEF vars, serverVars, clientVars, Holding
<1> QED
  BY <1>1, <1>3, <1>4, <1>5, <1>6, <1>7, <1>8 DEF Next

\* The sequence number, the buffer, the table and what clients hold of them keep
\* their ranges.
THEOREM TypesHold == Spec => []TypeOK
<1>1. Init => NInv /\ Holding
  <2>1. Init => Holding
    BY DEF Init, Holding, NoGet, GetState
  <2> QED
    BY <2>1, Initially_N
<1>2. NInv /\ Holding /\ [Next]_vars => (NInv /\ Holding)'
  BY Keeps_N, Keeps_H
<1>3. NInv /\ Holding => TypeOK
  <2> SUFFICES ASSUME NInv, Holding
               PROVE  TypeOK
    OBVIOUS
  <2>1. netSeq \in 0..MaxRecords
    BY AnnouncedIsFinite DEF NInv, Counted
  <2>2. \A i \in DOMAIN netReqs : netReqs[i] \in 1..netSeq
    BY RingIsFiled DEF NInv, Ring
  <2>3. Len(netReqs) <= MaxNetworkRequests
    BY DEF NInv, Window, NewestUpTo
  <2>4. netByID \in [Requests -> 0..netSeq]
    <3>1. ASSUME NEW r \in Requests
          PROVE  netByID[r] \in 0..netSeq
      <4>1. Ring \subseteq 1..netSeq /\ netSeq \in Nat
        BY RingIsFiled DEF NInv, Window
      <4>2. 1..netSeq \subseteq 0..netSeq /\ 0 \in 0..netSeq
        BY <4>1
      <4>3. CASE netByID[r] = 0
        BY <4>2, <4>3
      <4>4. CASE netByID[r] # 0
        BY <4>1, <4>2, <4>4 DEF NInv, TableWithinBuffer
      <4> QED
        BY <4>3, <4>4
    <3> QED
      BY <3>1 DEF NInv, Filed
  <2> QED
    BY <2>1, <2>2, <2>3, <2>4 DEF NInv, Filed, Holding, TypeOK, GetState
<1> QED
  BY <1>1, <1>2, <1>3, PTL DEF Spec

-----------------------------------------------------------------------------
(* The console *)

Message == [id : Nat, type : Types, page : Pages]

\* What the variables hold.
LogHolds ==
    /\ consoleSeq \in Nat /\ consoleMsgs \in Seq(Message)
    /\ msgCursor \in [Pages -> Nat] /\ times \in [1..MaxLogged -> Nat]

\* The buffer holds the newest messages, without a gap.
NewestMessages ==
    /\ consoleSeq <= MaxLogged /\ Len(consoleMsgs) <= consoleSeq
    /\ \A i \in 1..Len(consoleMsgs) :
           consoleMsgs[i].id = consoleSeq - Len(consoleMsgs) + i

\* No message is handed over twice, and none before it was logged.
AtMostOnce == \A i \in 1..MaxLogged : times[i] <= 1 /\ (i > consoleSeq => times[i] = 0)

\* Cursors are ids of messages that were logged.
CursorsBehind == \A p \in Pages : msgCursor[p] <= consoleSeq

\* n is how often the client holds m, once its cursor of m's page is at c: once
\* if the cursor has passed m and m is of its types, else not.
Due(m, n, c) == n = IF m.id <= c /\ TypeOf(m) THEN 1 ELSE 0

\* The client holds what is due of the buffered messages, and nothing else.
HandedIfPassed ==
    \A i \in 1..Len(consoleMsgs) :
        Due(consoleMsgs[i], times[consoleMsgs[i].id], msgCursor[consoleMsgs[i].page])

CInv == LogHolds /\ NewestMessages /\ AtMostOnce /\ CursorsBehind /\ HandedIfPassed

-----------------------------------------------------------------------------
(* The buffer *)

LEMMA MessagesAre ==
  ASSUME LogHolds
  PROVE  /\ Len(consoleMsgs) \in Nat /\ DOMAIN consoleMsgs = 1..Len(consoleMsgs)
         /\ \A i \in 1..Len(consoleMsgs) :
                /\ consoleMsgs[i] \in Message /\ consoleMsgs[i].id \in Nat
                /\ consoleMsgs[i].type \in Types /\ consoleMsgs[i].page \in Pages
<1>1. consoleMsgs \in Seq(Message)
  BY DEF LogHolds
<1>2. ASSUME NEW m \in Message PROVE m.id \in Nat /\ m.type \in Types /\ m.page \in Pages
  BY DEF Message
<1> QED
  BY <1>1, <1>2

\* Ids tell the buffered messages apart, and were given.
LEMMA IdsAre ==
  ASSUME LogHolds, NewestMessages
  PROVE  /\ \A i \in 1..Len(consoleMsgs) :
                /\ consoleMsgs[i].id \in 1..MaxLogged /\ consoleMsgs[i].id <= consoleSeq
         /\ \A i, j \in 1..Len(consoleMsgs) : consoleMsgs[i].id = consoleMsgs[j].id => i = j
<1> DEFINE k == Len(consoleMsgs)
<1>1. k \in Nat /\ k <= consoleSeq /\ consoleSeq \in Nat /\ consoleSeq <= MaxLogged
  BY MessagesAre DEF LogHolds, NewestMessages
<1>2. \A i \in 1..k : consoleMsgs[i].id = consoleSeq - k + i
  BY DEF NewestMessages
<1> HIDE DEF k
<1>3. MaxLogged \in Nat
  BY ConsoleAssumption
<1>4. ASSUME NEW i \in 1..k
      PROVE  consoleSeq - k + i \in 1..MaxLogged /\ consoleSeq - k + i <= consoleSeq
  BY <1>1, <1>3
<1>5. ASSUME NEW i \in 1..k, NEW j \in 1..k, consoleSeq - k + i = consoleSeq - k + j
      PROVE  i = j
  BY <1>1, <1>5
<1>6. \A i \in 1..k : consoleMsgs[i].id \in 1..MaxLogged /\ consoleMsgs[i].id <= consoleSeq
  BY <1>2, <1>4, Zenon
<1>7. \A i, j \in 1..k : consoleMsgs[i].id = consoleMsgs[j].id => i = j
  BY <1>2, <1>5, Zenon
<1> QED
  BY <1>6, <1>7 DEF k

LEMMA InMessagesOf ==
  ASSUME LogHolds, NEW p, NEW m
  PROVE  m \in MessagesOf(p) <=>
            \E i \in 1..Len(consoleMsgs) : m = consoleMsgs[i] /\ consoleMsgs[i].page = p
BY MessagesAre, Zenon DEF MessagesOf

\* Messages of a page that is there, one by one.
LEMMA MessageOfPage ==
  ASSUME LogHolds, NEW p, NEW m \in MessagesOf(p)
  PROVE  \E i \in 1..Len(consoleMsgs) : m = consoleMsgs[i] /\ consoleMsgs[i].page = p
BY InMessagesOf

\* Numbers below a bound have a greatest one.
LEMMA GreatestOf ==
  ASSUME NEW n \in Nat, NEW s \in SUBSET (0..n), s # {}
  PROVE  \E i \in s : \A j \in s : j <= i
<1> DEFINE R == {ss \in Nat \X Nat : ss[1] < ss[2]}
           T == {k \in Nat : \E i \in s : k = n - i}
<1>1. IsWellFoundedOn(R, Nat)
  BY NatLessThanWellFounded DEF OpToRel
<1>2. T \subseteq Nat /\ T # {}
  <2>1. PICK i \in s : i \in 0..n
    OBVIOUS
  <2>2. n - i \in T
    BY <2>1
  <2> QED
    BY <2>2
<1>3. \A k \in T : \E i \in s : k = n - i
  OBVIOUS
<1>4. \A i \in s : n - i \in T
  OBVIOUS
<1> HIDE DEF R, T
<1>5. PICK x \in T : \A y \in T : <<y, x>> \notin R
  BY <1>1, <1>2, WFMin
<1>6. PICK i \in s : x = n - i
  BY <1>3
<1>7. ASSUME NEW j \in s PROVE j <= i
  <2>1. n - j \in Nat /\ x \in Nat /\ <<n - j, x>> \notin R
    BY <1>2, <1>4, <1>5
  <2>2. ~ (n - j < x)
    BY <2>1 DEF R
  <2>3. i \in 0..n /\ j \in 0..n
    OBVIOUS
  <2> QED
    BY <1>6, <2>2, <2>3
<1> QED
  BY <1>7

\* lastMsgId: no message of the page is newer.
LEMMA LastIDIs ==
  ASSUME LogHolds, NewestMessages, NEW p, NEW since
  PROVE  /\ LastID(p, since) \in Nat /\ LastID(p, since) <= consoleSeq
         /\ \A i \in 1..Len(consoleMsgs) :
                consoleMsgs[i].page = p => consoleMsgs[i].id <= LastID(p, since)
<1> DEFINE ids == {m.id : m \in MessagesOf(p)}
<1>1. consoleSeq \in Nat
  BY DEF LogHolds
<1>2. \A j \in ids : j \in 0..consoleSeq
  <2>1. SUFFICES ASSUME NEW m \in MessagesOf(p) PROVE m.id \in 0..consoleSeq
    OBVIOUS
  <2>2. PICK i \in 1..Len(consoleMsgs) : m = consoleMsgs[i]
    BY MessageOfPage
  <2>3. consoleMsgs[i].id \in Nat /\ consoleMsgs[i].id <= consoleSeq
    BY MessagesAre, IdsAre
  <2> QED
    BY <1>1, <2>2, <2>3
<1>3. ASSUME NEW i \in 1..Len(consoleMsgs), consoleMsgs[i].page = p
      PROVE  consoleMsgs[i].id \in ids
  BY <1>3, InMessagesOf
<1>4. LastID(p, since) = IF ids = {} THEN 0 ELSE CHOOSE i \in ids : \A j \in ids : j <= i
  BY DEF LastID
<1> HIDE DEF ids
<1>5. CASE ids = {}
  BY <1>1, <1>3, <1>4, <1>5
<1>6. CASE ids # {}
  <2>1. \E i \in ids : \A j \in ids : j <= i
    BY <1>1, <1>2, <1>6, GreatestOf
  <2>2. LastID(p, since) \in ids /\ \A j \in ids : j <= LastID(p, since)
    BY <1>4, <1>6, <2>1, Zenon
  <2>3. LastID(p, since) \in 0..consoleSeq
    BY <1>2, <2>2
  <2> QED
    BY <1>1, <1>3, <2>2, <2>3
<1> QED
  BY <1>5, <1>6

-----------------------------------------------------------------------------
(* The steps *)

LEMMA Initially_C == ConsoleInit => CInv
<1> SUFFICES ASSUME ConsoleInit PROVE CInv
  OBVIOUS
<1>1. /\ consoleSeq = 0 /\ consoleMsgs = <<>>
      /\ msgCursor = [p \in Pages |-> 0] /\ times = [i \in 1..MaxLogged |-> 0]
  BY DEF ConsoleInit
<1>2. LogHolds
  BY <1>1 DEF LogHolds
<1>3. Len(consoleMsgs) = 0 /\ MaxLogged \in Nat
  BY <1>1, ConsoleAssumption
<1>4. NewestMessages /\ HandedIfPassed
  BY <1>1, <1>3 DEF NewestMessages, HandedIfPassed
<1>5. AtMostOnce /\ CursorsBehind
  BY <1>1 DEF AtMostOnce, CursorsBehind
<1> QED
  BY <1>2, <1>4, <1>5 DEF CInv

\* The buffer t holds m behind the messages of s, the oldest perhaps dropped.
Extends(t, s, m, d) ==
    /\ t \in Seq(Message) /\ Len(t) = Len(s) + 1 - d /\ d <= Len(s)
    /\ \A i \in 1..Len(t) : t[i] = IF i = Len(t) THEN m ELSE s[i + d]

LEMMA Logged ==
  ASSUME NEW s \in Seq(Message), NEW m \in Message
  PROVE  \E d \in {0, 1} : Extends(DropOldest(Append(s, m)), s, m, d)
<1>0. PICK t : t = DropOldest(Append(s, m))
  OBVIOUS
<1> DEFINE a == Append(s, m)
<1>1. a \in Seq(Message) /\ Len(a) = Len(s) + 1 /\ Len(s) \in Nat
  OBVIOUS
<1>2. \A i \in 1..Len(a) : a[i] = IF i = Len(a) THEN m ELSE s[i]
  OBVIOUS
<1>3. t = IF Len(a) > MaxConsoleMessages THEN Tail(a) ELSE a
  BY <1>0 DEF DropOldest
<1> HIDE DEF a
<1>4. MaxConsoleMessages \in Nat /\ MaxConsoleMessages >= 1
  BY ConsoleAssumption
<1>5. CASE ~ Len(a) > MaxConsoleMessages
  <2>1. t = a
    BY <1>3, <1>5
  <2>2. Len(t) = Len(s) + 1 - 0 /\ 0 <= Len(s)
    BY <1>1, <2>1
  <2>3. \A i \in 1..Len(t) : t[i] = IF i = Len(t) THEN m ELSE s[i + 0]
    BY <1>1, <1>2, <2>1
  <2>4. Extends(t, s, m, 0)
    BY <1>1, <2>1, <2>2, <2>3 DEF Extends
  <2> QED
    BY <1>0, <2>4
<1>6. CASE Len(a) > MaxConsoleMessages
  <2>1. t = Tail(a)
    BY <1>3, <1>6
  <2>2. a # <<>> /\ 1 <= Len(s)
    BY <1>1, <1>4, <1>6
  <2>3. t \in Seq(Message) /\ Len(t) = Len(a) - 1 /\ \A i \in 1..Len(t) : t[i] = a[i + 1]
    BY <1>1, <2>1, <2>2
  <2>4. Len(t) = Len(s) /\ Len(s) = Len(s) + 1 - 1
    BY <1>1, <2>3
  <2>5. ASSUME NEW i \in 1..Len(t)
        PROVE  t[i] = IF i = Len(t) THEN m ELSE s[i + 1]
    <3>1. i + 1 \in 1..Len(a) /\ (i = Len(t) <=> i + 1 = Len(a))
      BY <1>1, <2>3, <2>4
    <3> QED
      BY <1>2, <2>3, <3>1
  <2>6. Extends(t, s, m, 1)
    BY <2>2, <2>3, <2>4, <2>5 DEF Extends
  <2> QED
    BY <1>0, <2>6
<1> QED
  BY <1>5, <1>6

LEMMA Add_C ==
  ASSUME CInv, NEW p \in Pages, NEW type \in Types, AddConsoleMsg(p, type)
  PROVE  CInv'
<1> DEFINE new == [id |-> consoleSeq + 1, type |-> type, page |-> p]
<1>1. /\ LogHolds /\ NewestMessages /\ AtMostOnce /\ CursorsBehind /\ HandedIfPassed
  BY DEF CInv
<1>2. /\ consoleSeq < MaxLogged /\ consoleSeq' = consoleSeq + 1
      /\ consoleMsgs' = DropOldest(Append(consoleMsgs, new))
      /\ msgCursor' = msgCursor /\ times' = times
  BY DEF AddConsoleMsg
<1>3. /\ consoleSeq \in Nat /\ consoleMsgs \in Seq(Message) /\ MaxLogged \in Nat
      /\ msgCursor \in [Pages -> Nat] /\ times \in [1..MaxLogged -> Nat]
  BY <1>1, ConsoleAssumption DEF LogHolds
<1>4. new \in Message /\ new.id = consoleSeq + 1 /\ new.page = p
  BY <1>3 DEF Message
<1> HIDE DEF new
<1>5. PICK t : t = consoleMsgs'
  OBVIOUS
<1>6. PICK d \in {0, 1} : Extends(t, consoleMsgs, new, d)
  BY <1>2, <1>3, <1>4, <1>5, Logged, Zenon
<1>6a. /\ t \in Seq(Message) /\ Len(t) = Len(consoleMsgs) + 1 - d /\ d <= Len(consoleMsgs)
       /\ \A i \in 1..Len(t) : t[i] = IF i = Len(t) THEN new ELSE consoleMsgs[i + d]
  BY <1>6, Zenon DEF Extends
<1>7. PICK k \in Nat : k = Len(consoleMsgs)
  <2>1. Len(consoleMsgs) \in Nat
    BY <1>3
  <2> QED
    BY <2>1, Zenon
<1>8. PICK l \in Nat : l = Len(t)
  BY <1>6a
<1>9. l = k + 1 - d /\ d <= k /\ k <= consoleSeq
  BY <1>1, <1>6a, <1>7, <1>8 DEF NewestMessages
<1>10. t[l] = new
  <2>1. l \in 1..l
    BY <1>7, <1>8, <1>9
  <2>2. \A i \in 1..l : t[i] = IF i = l THEN new ELSE consoleMsgs[i + d]
    BY <1>6a, <1>8, Zenon
  <2> QED
    BY <2>1, <2>2, Zenon
<1>11. ASSUME NEW i \in 1..l, i # l
       PROVE  i + d \in 1..k /\ t[i] = consoleMsgs[i + d]
  BY <1>6a, <1>8, <1>9, <1>11
<1>12. LogHolds'
  BY <1>2, <1>3, <1>5, <1>6a DEF LogHolds
<1>13. consoleSeq + 1 <= MaxLogged /\ l <= consoleSeq + 1
  BY <1>2, <1>3, <1>9
<1>14. \A i \in 1..l : t[i].id = (consoleSeq + 1) - l + i
  <2> SUFFICES ASSUME NEW i \in 1..l PROVE t[i].id = (consoleSeq + 1) - l + i
    OBVIOUS
  <2>1. CASE i = l
    BY <1>3, <1>4, <1>10, <2>1
  <2>2. CASE i # l
    <3>1. consoleMsgs[i + d].id = consoleSeq - k + (i + d)
      BY <1>1, <1>7, <1>11, <2>2 DEF NewestMessages
    <3>2. consoleSeq - k + (i + d) = (consoleSeq + 1) - l + i
      BY <1>3, <1>9
    <3> QED
      BY <1>11, <2>2, <3>1, <3>2
  <2> QED
    BY <2>1, <2>2
<1>15. NewestMessages'
  <2>1. \A i \in 1..Len(t) : t[i].id = (consoleSeq + 1) - Len(t) + i
    BY <1>8, <1>14, Zenon
  <2>2. consoleSeq + 1 <= MaxLogged /\ Len(t) <= consoleSeq + 1
    BY <1>8, <1>13, Zenon
  <2>3. consoleSeq' = consoleSeq + 1 /\ consoleMsgs' = t
    BY <1>2, <1>5
  <2> QED
    BY <2>1, <2>2, <2>3, Zenon DEF NewestMessages
<1>16. AtMostOnce'
  <2> SUFFICES ASSUME NEW i \in 1..MaxLogged
               PROVE  times[i] <= 1 /\ (i > consoleSeq + 1 => times[i] = 0)
    BY <1>2 DEF AtMostOnce
  <2>1. times[i] <= 1 /\ (i > consoleSeq => times[i] = 0)
    BY <1>1 DEF AtMostOnce
  <2> QED
    BY <1>3, <2>1
<1>17. CursorsBehind'
  <2> SUFFICES ASSUME NEW q \in Pages PROVE msgCursor[q] <= consoleSeq + 1
    BY <1>2 DEF CursorsBehind
  <2>1. msgCursor[q] \in Nat /\ msgCursor[q] <= consoleSeq
    BY <1>1, <1>3 DEF CursorsBehind
  <2> QED
    BY <1>3, <2>1
<1>18. \A i \in 1..Len(t) : Due(t[i], times[t[i].id], msgCursor[t[i].page])
  <2> SUFFICES ASSUME NEW i \in 1..l PROVE Due(t[i], times[t[i].id], msgCursor[t[i].page])
    BY <1>8
  <2>1. CASE i = l
    <3>1. msgCursor[p] \in Nat /\ msgCursor[p] <= consoleSeq
      BY <1>1, <1>3 DEF CursorsBehind
    <3>2. times[consoleSeq + 1] = 0
      BY <1>1, <1>3, <1>13 DEF AtMostOnce
    <3>3. ~ consoleSeq + 1 <= msgCursor[p]
      BY <1>3, <3>1
    <3>4. Due(new, times[new.id], msgCursor[new.page])
      BY <1>4, <3>2, <3>3 DEF Due
    <3> QED
      BY <1>10, <2>1, <3>4, Zenon
  <2>2. CASE i # l
    <3>1. i + d \in 1..Len(consoleMsgs) /\ t[i] = consoleMsgs[i + d]
      BY <1>7, <1>11, <2>2
    <3> QED
      BY <1>1, <3>1, Zenon DEF HandedIfPassed
  <2> QED
    BY <2>1, <2>2
<1>19. HandedIfPassed'
  <2>1. consoleMsgs' = t /\ times' = times /\ msgCursor' = msgCursor
    BY <1>2, <1>5
  <2> QED
    BY <1>18, <2>1, Zenon DEF HandedIfPassed
<1> QED
  BY <1>12, <1>15, <1>16, <1>17, <1>19 DEF CInv

\* A listing hands over the messages of its page past the cursor.
LEMMA InMatching ==
  ASSUME LogHolds, NewestMessages, NEW p, NEW i \in 1..Len(consoleMsgs)
  PROVE  consoleMsgs[i].id \in {m.id : m \in Matching(p, msgCursor[p])} <=>
            /\ consoleMsgs[i].page = p
            /\ consoleMsgs[i].id > msgCursor[p] /\ TypeOf(consoleMsgs[i])
<1> DEFINE x == consoleMsgs[i]
<1>1. ASSUME NEW m \in Matching(p, msgCursor[p]), x.id = m.id
      PROVE  x.page = p /\ x.id > msgCursor[p] /\ TypeOf(x)
  <2>1. m \in MessagesOf(p) /\ m.id > msgCursor[p] /\ TypeOf(m)
    BY DEF Matching, After
  <2>2. PICK j \in 1..Len(consoleMsgs) : m = consoleMsgs[j] /\ consoleMsgs[j].page = p
    BY <2>1, MessageOfPage
  <2>3. i = j
    BY <1>1, <2>2, IdsAre
  <2> QED
    BY <2>1, <2>2, <2>3
<1>2. ASSUME x.page = p, x.id > msgCursor[p], TypeOf(x)
      PROVE  x \in Matching(p, msgCursor[p])
  BY <1>2, InMessagesOf DEF Matching, After
<1> HIDE DEF x
<1>3. x.id \in {m.id : m \in Matching(p, msgCursor[p])} <=>
        x.page = p /\ x.id > msgCursor[p] /\ TypeOf(x)
  BY <1>1, <1>2
<1> QED
  BY <1>3 DEF x

\* What the listing hands over of its page is due when the cursor has passed it.
LEMMA NewlyDue ==
  ASSUME NEW m, m.id \in Nat, NEW c \in Nat, NEW last, m.id <= last,
         NEW n, NEW handed \in BOOLEAN,
         Due(m, n, c), handed <=> m.id > c /\ TypeOf(m)
  PROVE  Due(m, IF handed THEN n + 1 ELSE n, last)
<1>1. TypeOf(m) \in BOOLEAN
  BY DEF TypeOf
<1>2. CASE m.id <= c
  BY <1>2 DEF Due
<1>3. CASE ~ m.id <= c
  <2>1. n = 0 /\ m.id > c
    BY <1>3 DEF Due
  <2> QED
    BY <1>1, <2>1 DEF Due
<1> QED
  BY <1>2, <1>3

LEMMA List_C ==
  ASSUME CInv, NEW p \in Pages, ListConsoleMessages(p)
  PROVE  CInv'
<1> DEFINE handed == {m.id : m \in Matching(p, msgCursor[p])}
           last == LastID(p, msgCursor[p])
<1>1. /\ LogHolds /\ NewestMessages /\ AtMostOnce /\ CursorsBehind /\ HandedIfPassed
  BY DEF CInv
<1>2. /\ times' = [i \in DOMAIN times |-> IF i \in handed THEN times[i] + 1 ELSE times[i]]
      /\ msgCursor' = [msgCursor EXCEPT ![p] = last]
      /\ consoleSeq' = consoleSeq /\ consoleMsgs' = consoleMsgs
  BY DEF ListConsoleMessages
<1>3. /\ consoleSeq \in Nat /\ consoleMsgs \in Seq(Message) /\ MaxLogged \in Nat
      /\ msgCursor \in [Pages -> Nat] /\ times \in [1..MaxLogged -> Nat]
  BY <1>1, ConsoleAssumption DEF LogHolds
<1>4. /\ last \in Nat /\ last <= consoleSeq
      /\ \A i \in 1..Len(consoleMsgs) :
                consoleMsgs[i].page = p => consoleMsgs[i].id <= last
  BY <1>1, LastIDIs
<1>5. \A i \in 1..Len(consoleMsgs) :
        consoleMsgs[i].id \in handed <=>
            /\ consoleMsgs[i].page = p
            /\ consoleMsgs[i].id > msgCursor[p] /\ TypeOf(consoleMsgs[i])
  BY <1>1, InMatching, Zenon
<1>6. \A h \in handed : \E i \in 1..Len(consoleMsgs) : h = consoleMsgs[i].id
  <2> SUFFICES ASSUME NEW m \in Matching(p, msgCursor[p])
               PROVE  \E i \in 1..Len(consoleMsgs) : m.id = consoleMsgs[i].id
    OBVIOUS
  <2>1. m \in MessagesOf(p)
    BY DEF Matching
  <2> QED
    BY <1>1, <2>1, MessageOfPage
<1> HIDE DEF handed, last
<1>7. /\ times' \in [1..MaxLogged -> Nat] /\ msgCursor' \in [Pages -> Nat]
      /\ \A i \in 1..MaxLogged : times'[i] = IF i \in handed THEN times[i] + 1 ELSE times[i]
  BY <1>2, <1>3, <1>4
<1>8. LogHolds' /\ NewestMessages'
  BY <1>1, <1>2, <1>7 DEF LogHolds, NewestMessages
\* What is handed over was not handed over before.
<1>9. ASSUME NEW h \in handed
      PROVE  h \in 1..MaxLogged /\ h <= consoleSeq /\ times[h] = 0
  <2>1. PICK i \in 1..Len(consoleMsgs) : h = consoleMsgs[i].id
    BY <1>6
  <2>2. consoleMsgs[i].id \in Nat /\ msgCursor[p] \in Nat
    BY <1>1, <1>3, MessagesAre
  <2>3. ~ consoleMsgs[i].id <= msgCursor[consoleMsgs[i].page]
    BY <1>5, <2>1, <2>2
  <2>4. times[h] = 0
    BY <1>1, <2>1, <2>3 DEF HandedIfPassed, Due
  <2> QED
    BY <1>1, <2>1, <2>4, IdsAre
<1>10. AtMostOnce'
  <2> SUFFICES ASSUME NEW i \in 1..MaxLogged
               PROVE  times'[i] <= 1 /\ (i > consoleSeq => times'[i] = 0)
    BY <1>2 DEF AtMostOnce
  <2>1. times[i] \in Nat /\ times[i] <= 1 /\ (i > consoleSeq => times[i] = 0)
    BY <1>1, <1>3 DEF AtMostOnce
  <2>2. CASE i \in handed
    <3>1. i <= consoleSeq /\ times[i] = 0 /\ times'[i] = times[i] + 1
      BY <1>7, <1>9, <2>2
    <3> QED
      BY <1>3, <3>1
  <2>3. CASE i \notin handed
    BY <1>7, <2>1, <2>3
  <2> QED
    BY <2>2, <2>3
<1>11. CursorsBehind'
  <2> SUFFICES ASSUME NEW q \in Pages PROVE msgCursor'[q] <= consoleSeq
    BY <1>2 DEF CursorsBehind
  <2>1. msgCursor[q] <= consoleSeq
    BY <1>1 DEF CursorsBehind
  <2> QED
    BY <1>2, <1>3, <1>4, <2>1
<1>12. HandedIfPassed'
  <2>0. consoleMsgs' = consoleMsgs
    BY <1>2
  <2> SUFFICES ASSUME NEW i \in 1..Len(consoleMsgs)
               PROVE  Due(consoleMsgs[i], times'[consoleMsgs[i].id],
                          msgCursor'[consoleMsgs[i].page])
    BY <2>0, Zenon DEF HandedIfPassed
  <2>1. PICK m : m = consoleMsgs[i]
    OBVIOUS
  <2>2. m.id \in 1..MaxLogged /\ m.id \in Nat /\ m.page \in Pages
    BY <1>1, <2>1, IdsAre, MessagesAre
  <2>3. Due(m, times[m.id], msgCursor[m.page])
    BY <1>1, <2>1, Zenon DEF HandedIfPassed
  <2>4. /\ m.id \in handed <=> m.page = p /\ m.id > msgCursor[p] /\ TypeOf(m)
        /\ m.page = p => m.id <= last
    BY <1>4, <1>5, <2>1
  <2>5. times'[m.id] = IF m.id \in handed THEN times[m.id] + 1 ELSE times[m.id]
    BY <1>7, <2>2
  <2>6. /\ msgCursor[p] \in Nat /\ msgCursor'[p] = last
        /\ m.page # p => msgCursor'[m.page] = msgCursor[m.page]
    BY <1>2, <1>3, <2>2
  <2>7. Due(m, times'[m.id], msgCursor'[m.page])
    <3>1. CASE m.page = p
      <4>1. msgCursor'[m.page] = last /\ m.id <= last /\ Due(m, times[m.id], msgCursor[p])
        BY <2>3, <2>4, <2>6, <3>1, Zenon
      <4>2. m.id \in handed <=> m.id > msgCursor[p] /\ TypeOf(m)
        BY <2>4, <3>1
      <4>3. Due(m, IF m.id \in handed THEN times[m.id] + 1 ELSE times[m.id], last)
        BY <2>2, <2>6, <4>1, <4>2, NewlyDue
      <4> QED
        BY <2>5, <4>1, <4>3, Zenon
    <3>2. CASE m.page # p
      <4>1. times'[m.id] = times[m.id] /\ msgCursor'[m.page] = msgCursor[m.page]
        BY <2>4, <2>5, <2>6, <3>2
      <4> QED
        BY <2>3, <4>1, Zenon
    <3> QED
      BY <3>1, <3>2
  <2> QED
    BY <2>1, <2>7, Zenon
<1> QED
  BY <1>8, <1>10, <1>11, <1>12 DEF CInv

\* Nothing else touches the buffer or the client.
LEMMA Still_C ==
  ASSUME CInv, UNCHANGED <<consoleSeq, consoleMsgs, msgCursor, times>>
  PROVE  CInv'
<1>1. /\ consoleSeq' = consoleSeq /\ consoleMsgs' = consoleMsgs
      /\ msgCursor' = msgCursor /\ times' = times
  OBVIOUS
<1>2. LogHolds' /\ NewestMessages' /\ AtMostOnce' /\ CursorsBehind'
  BY <1>1 DEF CInv, LogHolds, NewestMessages, AtMostOnce, CursorsBehind
<1>3. HandedIfPassed'
  BY <1>1, Zenon DEF CInv, HandedIfPassed
<1> QED
  BY <1>2, <1>3 DEF CInv

LEMMA Keeps_C == CInv /\ [ConsoleNext]_consoleVars => CInv'
<1> SUFFICES ASSUME CInv, [ConsoleNext]_consoleVars PROVE CInv'
  OBVIOUS
<1>1. ASSUME NEW p \in Pages, NEW type \in Types, AddConsoleMsg(p, type) PROVE CInv'
  BY <1>1, Add_C
<1>2. ASSUME NEW p \in Pages, ListConsoleMessages(p) PROVE CInv'
  BY <1>2, List_C
<1>3. ASSUME NEW i \in 1..MaxLogged, BeginGet(i) PROVE CInv'
  BY <1>3, Still_C DEF BeginGet
<1>4. CASE CheckPage
  BY <1>4, Still_C DEF CheckPage
<1>5. CASE LookAgain
  BY <1>5, Still_C DEF LookAgain
<1>6. CASE EndGet
  BY <1>6, Still_C DEF EndGet
<1>7. CASE UNCHANGED consoleVars
  BY <1>7, Still_C DEF consoleVars
<1> QED
  BY <1>1, <1>2, <1>3, <1>4, <1>5, <1>6, <1>7 DEF ConsoleNext

\* Polling list_console_messages with the last lastMsgId hands every message of
\* the types asked for to the client once: never again, also not when the page
\* lost all its messages and the cursor fell back to 0, and never passed over
\* while the buffer holds it.
THEOREM PollingIsExact == ConsoleSpec => []PollsAreExact
<1>1. CInv => PollsAreExact
  <2> SUFFICES ASSUME CInv PROVE PollsAreExact
    OBVIOUS
  <2>1. LogHolds /\ NewestMessages /\ AtMostOnce /\ HandedIfPassed
    BY DEF CInv
  <2>2. NoRepeats
    <3>1. DOMAIN times = 1..MaxLogged
      BY <2>1 DEF LogHolds
    <3> QED
      BY <2>1, <3>1 DEF NoRepeats, AtMostOnce
  <2>3. NothingSkipped
    <3> SUFFICES ASSUME NEW p \in Pages, NEW m \in MessagesOf(p), m.id <= msgCursor[p], TypeOf(m)
                 PROVE  times[m.id] > 0
      BY DEF NothingSkipped
    <3>1. PICK i \in 1..Len(consoleMsgs) : m = consoleMsgs[i] /\ consoleMsgs[i].page = p
      BY <2>1, MessageOfPage
    <3>2. Due(m, times[m.id], msgCursor[p])
      BY <2>1, <3>1, Zenon DEF HandedIfPassed
    <3> QED
      BY <3>2 DEF Due
  <2> QED
    BY <2>2, <2>3 DEF PollsAreExact
<1> QED
  BY Initially_C, Keeps_C, <1>1, PTL DEF ConsoleSpec
=============================================================================
