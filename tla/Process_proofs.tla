--------------------------- MODULE Process_proofs ---------------------------
(***************************************************************************)
(* Proofs about the process: the settings it starts with and the requests  *)
(* it serves.  Of Settings, for any keys, strings, lists, overrides and    *)
(* number of lines: a server that starts has one browser profile to use,   *)
(* runs with all that its operator wrote and nothing else, and what a call *)
(* of emulate reports is in force.  Of Server and the Lifecycle inside it, *)
(* for any number of lines, launches and background goroutines: every      *)
(* request is answered once and in order, a temporary profile is only      *)
(* removed when its Chrome has exited, and neither a failed connection nor *)
(* an orderly end of the process leaves a Chrome or a profile.             *)
(***************************************************************************)
EXTENDS Settings, Server, FiniteSetTheorems, WellFoundedInduction, TLAPS

(* Emulation *)

\* What the call running reports so far is in force, and stays so until another
\* tool begins.
Reported ==
    step # 0 \/ outcome = "ok" =>
        \A d \in DOMAIN applied : applied[d] # "unchanged" => effective[d] = applied[d]

EInv == TypeOK /\ Reported

LEMMA OrderIs ==
    /\ Len(Order) = 8 /\ DOMAIN Order = 1..8
    /\ Order[1] = "colorScheme" /\ Order[2] = "cpu" /\ Order[3] = "network"
    /\ Order[4] = "geolocation" /\ Order[5] = "userAgent" /\ Order[6] = "viewport"
    /\ Order[7] = "touch" /\ Order[8] = "headers"
    /\ \A i \in 1..8 : Order[i] \in Dimensions
BY DEF Order, Dimensions

LEMMA Initially_E ==
  ASSUME Init
  PROVE  EInv
<1>1. TypeOK
  BY OrderIs DEF Init, TypeOK
<1>2. Reported
  BY DEF Init, Reported
<1> QED
  BY <1>1, <1>2 DEF EInv

\* The dimension is set to v, or left alone, and w is to be reported of it.
Sets(d, v, w) ==
    /\ v \in Overrides \cup {"off"}
    /\ \/ effective' = [effective EXCEPT ![d] = v] /\ w = v
       \/ UNCHANGED effective /\ w = "unchanged"

\* On to the next dimension, or past touch, or to the end.
Moves ==
    \/ step' = step + 1 /\ step < 8 /\ UNCHANGED outcome
    \/ step = 6 /\ step' = 8 /\ UNCHANGED outcome
    \/ step' = 0 /\ outcome' = "ok"

LEMMA AdvanceMoves ==
  ASSUME Advance, step \in 0..8
  PROVE  Moves
BY OrderIs DEF Advance, Moves

\* One call that sets a dimension and reports it.
LEMMA SetAndReport ==
  ASSUME EInv, step # 0, NEW v, NEW w, Report(Order[step], w), Sets(Order[step], v, w), Moves
  PROVE  EInv'
<1> DEFINE i == step
           d == Order[step]
<1>0. i \in 1..8 /\ Report(d, w) /\ d \in Dimensions
  BY OrderIs DEF EInv, TypeOK
<1> HIDE DEF d, i
<1> USE OrderIs
<1>1. effective' \in [Dimensions -> Overrides \cup {"off", "config", "resized"}]
  BY DEF EInv, TypeOK, Sets, d
<1>2. DOMAIN applied' = DOMAIN applied \cup {d} /\ applied'[d] = w
  BY <1>0 DEF Report
<1>3. \A e \in DOMAIN applied : e # d => applied'[e] = applied[e]
  BY <1>0 DEF Report
<1>4. \A e \in Dimensions : e # d => effective'[e] = effective[e]
  BY DEF EInv, TypeOK, Sets, d
<1>5. w # "unchanged" => effective'[d] = w
  BY <1>0 DEF EInv, TypeOK, Sets, d
<1>6. DOMAIN applied \subseteq Dimensions
  BY DEF EInv, TypeOK
<1>7. Reported'
  <2>1. \A e \in DOMAIN applied : applied[e] # "unchanged" => effective[e] = applied[e]
    BY DEF EInv, Reported
  <2> SUFFICES ASSUME NEW e \in DOMAIN applied', applied'[e] # "unchanged"
               PROVE  effective'[e] = applied'[e]
    BY DEF Reported
  <2>2. CASE e = d
    BY <2>2, <1>2, <1>5
  <2>3. CASE e # d
    BY <2>3, <2>1, <1>2, <1>3, <1>4, <1>6
  <2> QED
    BY <2>2, <2>3
<1>8. TypeOK'
  <2>1. DOMAIN applied' \subseteq Dimensions
    BY <1>0, <1>2, <1>6
  <2>2. step' \in 0..8 /\ outcome' \in {"none", "ok", "error"}
    BY DEF EInv, TypeOK, Moves
  <2>3. ASSUME NEW j \in 1..8, j < step', Order[j] # "touch"
        PROVE  Order[j] \in DOMAIN applied'
    <3>1. CASE j < i
      BY <3>1, <2>3, <1>2 DEF EInv, TypeOK, i
    <3>2. CASE j = i
      BY <3>2, <1>2 DEF d, i
    <3>3. CASE j > i
      <4>1. i = 6 /\ j = 7
        BY <3>3, <2>3, <1>0 DEF Moves, i
      <4> QED
        BY <4>1, <2>3
    <3> QED
      BY <1>0, <3>1, <3>2, <3>3
  <2> QED
    BY <1>1, <2>1, <2>2, <2>3 DEF TypeOK
<1> QED
  BY <1>7, <1>8 DEF EInv

LEMMA Keeps_Emulate ==
  ASSUME EInv, Emulate
  PROVE  EInv'
<1> USE OrderIs
<1>0. step \in 0..8
  BY DEF EInv, TypeOK
<1>1. CASE Begin
  <2>1. step' = 1 /\ applied' = <<>> /\ outcome' = "none" /\ UNCHANGED effective
    BY <1>1 DEF Begin
  <2> QED
    BY <2>1 DEF EInv, TypeOK, Reported
<1>2. CASE ClearViewport
  <2>1. step # 0 /\ step = 6
    BY <1>2, <1>0 DEF ClearViewport
  <2>2. Report(Order[step], "off")
    BY <1>2 DEF ClearViewport
  <2>3. Sets(Order[step], "off", "off")
    BY <1>2 DEF ClearViewport, Sets
  <2>4. Moves
    BY <1>2, <2>1 DEF ClearViewport, Moves
  <2> QED
    BY <2>1, <2>2, <2>3, <2>4, SetAndReport
<1>3. CASE OmitHeaders
  <2>1. step # 0 /\ Moves
    BY <1>3, <1>0, AdvanceMoves DEF OmitHeaders
  <2>2. Report(Order[step], "unchanged")
    BY <1>3 DEF OmitHeaders
  <2>3. Sets(Order[step], "off", "unchanged")
    BY <1>3 DEF OmitHeaders, Sets
  <2> QED
    BY <2>1, <2>2, <2>3, SetAndReport
<1>4. CASE GiveUp
  BY <1>4 DEF GiveUp, EInv, TypeOK, Reported
<1>5. CASE ResizePage
  BY <1>5 DEF ResizePage, EInv, TypeOK, Reported
<1>6. ASSUME NEW v \in Overrides \cup {"off"}, ApplyPlain(v) \/ SetTouch(v) \/ SetHeaders(v)
      PROVE  EInv'
  <2>1. step # 0 /\ Moves
    BY <1>6, <1>0, AdvanceMoves DEF ApplyPlain, SetTouch, SetHeaders
  <2>2. Report(Order[step], v)
    BY <1>6 DEF ApplyPlain, SetTouch, SetHeaders
  <2>3. Sets(Order[step], v, v)
    BY <1>6 DEF ApplyPlain, SetTouch, SetHeaders, SetOverride, Sets
  <2> QED
    BY <2>1, <2>2, <2>3, SetAndReport
<1>7. ASSUME NEW v \in Overrides, SetViewport(v)
      PROVE  EInv'
  <2>1. step # 0 /\ Moves
    BY <1>7, <1>0, AdvanceMoves DEF SetViewport
  <2>2. Report(Order[step], v)
    BY <1>7 DEF SetViewport
  <2>3. Sets(Order[step], v, v)
    BY <1>7 DEF SetViewport, Sets
  <2> QED
    BY <2>1, <2>2, <2>3, SetAndReport
<1> QED
  BY <1>1, <1>2, <1>3, <1>4, <1>5, <1>6, <1>7 DEF Emulate

LEMMA Keeps_Attach ==
  ASSUME EInv, NEW configured \in BOOLEAN, Attach(configured)
  PROVE  EInv'
BY OrderIs DEF Attach, EInv, TypeOK, Reported

\* Emulation alone: what a successful emulate reports is what is in force.
THEOREM EmulationIsEffective == Spec => []AppliedIsEffective
<1>1. Init => EInv
  BY Initially_E
<1>2. EInv /\ [Next]_vars => EInv'
  <2>1. ASSUME EInv, UNCHANGED vars
        PROVE  EInv'
    BY <2>1 DEF vars, EInv, TypeOK, Reported
  <2> QED
    BY <2>1, Keeps_Emulate, Keeps_Attach DEF Next
<1>3. EInv => AppliedIsEffective
  BY DEF EInv, Reported, AppliedIsEffective
<1> QED
  BY <1>1, <1>2, <1>3, PTL DEF Spec

-----------------------------------------------------------------------------
(* Settings *)

\* What comes after the configuration is emulation: each step of Settings is one
\* of Emulation, or leaves it alone.
LEMMA StepIsEmulation ==
  ASSUME [CNext]_allVars
  PROVE  [Next]_vars
<1>1. CASE UNCHANGED allVars
  BY <1>1 DEF allVars
<1>2. ASSUME NEW explicit, NEW exists, Open(explicit, exists)
      PROVE  UNCHANGED vars
  BY <1>2 DEF Open
<1>3. ASSUME NEW name, Header(name)
      PROVE  UNCHANGED vars
  BY <1>3 DEF Header
<1>4. ASSUME NEW key, NEW kind, NEW value, NEW comment, Pair(key, kind, value, comment)
      PROVE  UNCHANGED vars
  BY <1>4 DEF Pair, Refuse
<1>5. ASSUME Unsupported \/ Apply
      PROVE  UNCHANGED vars
  BY <1>5 DEF Unsupported, Apply, Refuse
<1>6. ASSUME NEW flags, Merge(flags)
      PROVE  UNCHANGED vars
  BY <1>6 DEF Merge
<1>7. CASE ToToolConfig
  BY <1>7 DEF ToToolConfig, Refuse
<1>8. CASE AttachPages \/ OnPages
  BY <1>8 DEF AttachPages, OnPages, Next
<1> QED
  BY <1>1, <1>2, <1>3, <1>4, <1>5, <1>6, <1>7, <1>8 DEF CNext

\* Settings implements Emulation.
THEOREM SettingsEmulate == CSpec => Spec
<1>1. CInit => Init
  BY DEF CInit
<1> QED
  BY <1>1, StepIsEmulation, PTL DEF CSpec, Spec

\* Whatever the configuration was, what a successful emulate reports is in force.
THEOREM AppliedIsInForce == CSpec => []AppliedIsEffective
BY SettingsEmulate, EmulationIsEffective, PTL

-----------------------------------------------------------------------------
(* The schema: each key is in one section, and has its kind there. *)

LEMMA SchemaKeys ==
  ASSUME NEW key, NEW s, s \in DOMAIN Schema, key \in DOMAIN Schema[s]
  PROVE  /\ key \in DOMAIN KindOf
         /\ \A t \in DOMAIN Schema : key \in DOMAIN Schema[t] => t = s
BY DEF Schema, KindOf

LEMMA DefaultKeys ==
    /\ DOMAIN Default = DOMAIN KindOf
    /\ {"attach", "profile", "user_data_dir"} \subseteq DOMAIN KindOf
    /\ \A key \in {"attach", "profile", "user_data_dir"} :
           KindOf[key] = "string" /\ Default[key] = <<>>
<1>1. {"attach", "profile", "user_data_dir"} \subseteq DOMAIN KindOf
  BY DEF Schema, KindOf
<1>2. \A key \in {"attach", "profile", "user_data_dir"} : KindOf[key] = "string"
  BY DEF Schema, KindOf
<1> QED
  BY <1>1, <1>2 DEF Default

\* What the author of a file can write as a value of a kind.
CanWrite(kind) ==
    CASE kind = "string" -> Strings \cup {<<>>}
      [] kind = "list" -> Lists \cup {<<>>}
      [] kind = "bool" -> {<<"true">>, <<"false">>}
      [] OTHER -> {<<"7">>}

FileKinds == {"string", "list", "bool", "int"}

LEMMA ValuesCanBeWritten ==
  ASSUME NEW key, NEW kind \in FileKinds, NEW value \in Values(key, kind)
  PROVE  value \in CanWrite(kind)
<1>1. CASE /\ section \in DOMAIN Schema /\ key \in DOMAIN Schema[section]
           /\ Schema[section][key] = kind
  <2>1. kind # "int"
    BY <1>1 DEF Schema
  <2> QED
    BY <1>1, <2>1 DEF Values, CanWrite, FileKinds
<1>2. CASE ~ /\ section \in DOMAIN Schema /\ key \in DOMAIN Schema[section]
             /\ Schema[section][key] = kind
  BY <1>2 DEF Values, CanWrite, FileKinds
<1> QED
  BY <1>1, <1>2

LEMMA FirstIs ==
  ASSUME NEW S, NEW n \in S, S \subseteq Nat, \A j \in S : n <= j
  PROVE  First(S) = n
<1>1. ASSUME NEW m, m \in S /\ \A j \in S : m <= j
      PROVE  m = n
  BY <1>1
<1> QED
  BY <1>1 DEF First

-----------------------------------------------------------------------------
(* Induction up to a bound. *)

LEMMA AllUpTo ==
  ASSUME NEW n \in Nat, NEW S, 0 \in S, \A k \in 0..n - 1 : k \in S => k + 1 \in S
  PROVE  \A k \in 0..n : k \in S
<1> DEFINE R == {ss \in Nat \X Nat : ss[1] < ss[2]}
           T == 0..n \ S
<1>1. IsWellFoundedOn(R, Nat)
  BY NatLessThanWellFounded DEF OpToRel
<1> SUFFICES ASSUME T # {} PROVE FALSE
  OBVIOUS
<1>2. T \subseteq Nat
  OBVIOUS
<1>3. \A x \in T : x # 0 /\ x - 1 \in 0..n /\ x - 1 \in Nat /\ x - 1 < x /\ x - 1 \in T
  <2> SUFFICES ASSUME NEW x \in T
               PROVE  x # 0 /\ x - 1 \in 0..n /\ x - 1 \in Nat /\ x - 1 < x /\ x - 1 \in T
    OBVIOUS
  <2>1. x \in 0..n /\ x \notin S /\ x # 0
    OBVIOUS
  <2>2. x - 1 \in 0..n - 1 /\ (x - 1) + 1 = x
    BY <2>1
  <2>3. x - 1 \notin S
    BY <2>1, <2>2
  <2> QED
    BY <2>1, <2>2, <2>3
<1> HIDE DEF R, T
<1>4. PICK x \in T : \A y \in T : <<y, x>> \notin R
  BY <1>1, <1>2, WFMin
<1>5. x - 1 \in T /\ <<x - 1, x>> \in R
  BY <1>2, <1>3 DEF R
<1> QED
  BY <1>4, <1>5

-----------------------------------------------------------------------------
(* Characters *)

Words == {"true", "false", "7"}
Signs == {"space", "hash", "quote", "backslash", "comma", "opening", "closing"}
Char == STRING \cup Words \cup Signs

LEMMA Chars ==
    /\ STRING \subseteq Char /\ Words \subseteq Char /\ Signs \subseteq Char
BY Zenon DEF Char

LEMMA SignsAreChars ==
    {"space", "hash", "quote", "backslash", "comma", "opening", "closing"} \subseteq Char
BY Chars, Zenon DEF Signs

-----------------------------------------------------------------------------
(* Where quotes are open *)

States == {"out", "in", "escaped"}

StateAfter(before, c) ==
    CASE before = "escaped" -> "in"
      [] before = "in" /\ c = "backslash" -> "escaped"
      [] c = "quote" -> (IF before = "in" THEN "out" ELSE "in")
      [] OTHER -> before

LEMMA StatesAfter ==
  ASSUME NEW before \in States, NEW c
  PROVE  StateAfter(before, c) \in States
BY DEF States, StateAfter

LEMMA StepsOfState ==
  ASSUME NEW c
  PROVE  /\ c # "quote" => StateAfter("out", c) = "out"
         /\ StateAfter("out", "quote") = "in" /\ StateAfter("in", "quote") = "out"
         /\ StateAfter("in", "backslash") = "escaped" /\ StateAfter("escaped", c) = "in"
         /\ c \notin {"quote", "backslash"} => StateAfter("in", c) = "in"
BY DEF StateAfter

Scans(g, text) ==
    g = [i \in 0..Len(text) |-> IF i = 0 THEN "out" ELSE StateAfter(g[i - 1], text[i])]

LEMMA QuotingIsScan ==
  ASSUME NEW text
  PROVE  Quoting(text) = CHOOSE g : Scans(g, text)
BY DEF Quoting, Scans, StateAfter

LEMMA ScanExists ==
  ASSUME NEW text \in Seq(Char)
  PROVE  \E g : Scans(g, text)
<1> DEFINE n == Len(text)
           Upto(g, m) == g = [i \in 0..m |-> IF i = 0 THEN "out" ELSE StateAfter(g[i - 1], text[i])]
           T == {m \in 0..n : \E g : Upto(g, m)}
<1>0. n \in Nat
  OBVIOUS
<1>1. 0 \in T
  <2>1. Upto([i \in 0..0 |-> "out"], 0)
    OBVIOUS
  <2> HIDE DEF Upto
  <2> QED
    BY <1>0, <2>1
<1>2. ASSUME NEW m \in 0..n - 1, m \in T PROVE m + 1 \in T
  <2>1. PICK g : Upto(g, m)
    BY <1>2
  <2> DEFINE h == [i \in 0..m + 1 |-> IF i = m + 1 THEN StateAfter(g[m], text[m + 1]) ELSE g[i]]
  <2>2. ASSUME NEW i \in 0..m + 1
        PROVE  h[i] = IF i = 0 THEN "out" ELSE StateAfter(h[i - 1], text[i])
    <3>1. CASE i = m + 1
      <4>1. h[m] = g[m] /\ m + 1 # 0 /\ (m + 1) - 1 = m
        BY <1>0
      <4>2. h[m + 1] = StateAfter(g[m], text[m + 1])
        OBVIOUS
      <4> HIDE DEF h
      <4> QED
        BY <3>1, <4>1, <4>2
    <3>2. CASE i # m + 1
      <4>1. i \in 0..m /\ (i # 0 => i - 1 \in 0..m /\ i - 1 # m + 1)
        BY <1>0, <3>2
      <4>2. h[i] = g[i] /\ (i # 0 => h[i - 1] = g[i - 1])
        BY <3>2, <4>1
      <4>3. g[i] = IF i = 0 THEN "out" ELSE StateAfter(g[i - 1], text[i])
        BY <2>1, <4>1
      <4> HIDE DEF h
      <4> QED
        BY <4>2, <4>3
    <3> QED
      BY <3>1, <3>2
  <2>3. h = [i \in 0..m + 1 |-> h[i]]
    OBVIOUS
  <2>4. Upto(h, m + 1)
    <3> HIDE DEF h
    <3> QED
      BY <2>2, <2>3
  <2>5. m + 1 \in 0..n
    BY <1>0
  <2> HIDE DEF Upto, h
  <2> QED
    BY <2>4, <2>5
<1>3. n \in T
  <2> HIDE DEF T, n
  <2>1. \A k \in 0..n : k \in T
    BY <1>0, <1>1, <1>2, AllUpTo
  <2> QED
    BY <1>0, <2>1
<1> QED
  BY <1>3 DEF Scans

\* The states of a text: out at first, and from there character by character.
Stepwise(S, text) ==
    /\ S[0] = "out"
    /\ \A i \in 1..Len(text) : S[i] = StateAfter(S[i - 1], text[i])
    /\ \A i \in 0..Len(text) : S[i] \in States

LEMMA QuotingSteps ==
  ASSUME NEW text \in Seq(Char)
  PROVE  Stepwise(Quoting(text), text)
<1> DEFINE S == Quoting(text)
           n == Len(text)
           T == {i \in 0..n : S[i] \in States}
<1>0. n \in Nat
  OBVIOUS
<1>1. Scans(S, text)
  BY ScanExists, QuotingIsScan, Zenon
<1> HIDE DEF S
<1>2. S[0] = "out" /\ \A i \in 1..n : S[i] = StateAfter(S[i - 1], text[i])
  <2>1. \A i \in 0..n : S[i] = IF i = 0 THEN "out" ELSE StateAfter(S[i - 1], text[i])
    BY <1>1, Zenon DEF Scans
  <2> QED
    BY <1>0, <2>1
<1>3. 0 \in T
  BY <1>0, <1>2 DEF States
<1>4. ASSUME NEW i \in 0..n - 1, i \in T PROVE i + 1 \in T
  <2>1. i + 1 \in 1..n /\ (i + 1) - 1 = i /\ i + 1 \in 0..n
    BY <1>0
  <2>2. S[i + 1] = StateAfter(S[i], text[i + 1])
    BY <1>2, <2>1
  <2> QED
    BY <1>4, <2>1, <2>2, StatesAfter
<1>5. \A i \in 0..n : i \in T
  <2> HIDE DEF T
  <2> QED
    BY <1>0, <1>3, <1>4, AllUpTo
<1> QED
  BY <1>2, <1>5 DEF Stepwise, S

-----------------------------------------------------------------------------
(* Texts put together from pieces *)

LEMMA SameText ==
  ASSUME NEW s \in Seq(Char), NEW t \in Seq(Char), Len(s) = Len(t),
         \A j \in 1..Len(t) : s[j] = t[j]
  PROVE  s = t
OBVIOUS

LEMMA JoinedText ==
  ASSUME NEW s \in Seq(Char), NEW t \in Seq(Char)
  PROVE  /\ s \o t \in Seq(Char) /\ Len(s \o t) = Len(s) + Len(t)
         /\ \A i \in 1..Len(s) : (s \o t)[i] = s[i]
         /\ \A i \in 1..Len(t) : (s \o t)[Len(s) + i] = t[i]
OBVIOUS

LEMMA Within ==
  ASSUME NEW a \in Nat, NEW l \in Nat, NEW e \in Nat, a + l <= e, NEW j \in 1..l
  PROVE  a + j \in 1..e
OBVIOUS

LEMMA Beyond ==
  ASSUME NEW a \in Nat, NEW l \in Nat, NEW i \in 1..a + l, i \notin 1..a
  PROVE  i - a \in 1..l /\ i = a + (i - a)
OBVIOUS

\* r is u between a and c.
Bracketed(r, a, u, c) ==
    /\ r \in Seq(Char) /\ Len(r) = Len(u) + 2
    /\ r[1] = a /\ r[Len(u) + 2] = c
    /\ \A i \in 1..Len(u) : r[1 + i] = u[i]

LEMMA InBrackets ==
  ASSUME NEW u \in Seq(Char), NEW a \in Char, NEW c \in Char
  PROVE  Bracketed(<<a>> \o u \o <<c>>, a, u, c)
<1> DEFINE n == Len(u)
           h == <<a>> \o u
           r == h \o <<c>>
<1>0. n \in Nat
  OBVIOUS
<1>1. /\ <<a>> \in Seq(Char) /\ Len(<<a>>) = 1 /\ <<a>>[1] = a
      /\ <<c>> \in Seq(Char) /\ Len(<<c>>) = 1 /\ <<c>>[1] = c
      /\ 1 \in 1..1
  OBVIOUS
<1>2. /\ h \in Seq(Char) /\ Len(h) = 1 + n /\ h[1] = a
      /\ \A i \in 1..n : h[1 + i] = u[i]
  <2>1. /\ h \in Seq(Char) /\ Len(h) = Len(<<a>>) + Len(u)
        /\ \A i \in 1..Len(<<a>>) : h[i] = <<a>>[i]
        /\ \A i \in 1..Len(u) : h[Len(<<a>>) + i] = u[i]
    BY <1>1, JoinedText, Zenon
  <2> HIDE DEF h
  <2> QED
    BY <1>1, <2>1, Zenon
<1> HIDE DEF h
<1>3. /\ r \in Seq(Char) /\ Len(r) = (1 + n) + 1 /\ r[(1 + n) + 1] = c
      /\ \A i \in 1..(1 + n) : r[i] = h[i]
  <2>1. /\ r \in Seq(Char) /\ Len(r) = Len(h) + Len(<<c>>)
        /\ \A i \in 1..Len(h) : r[i] = h[i]
        /\ \A i \in 1..Len(<<c>>) : r[Len(h) + i] = <<c>>[i]
    BY <1>1, <1>2, JoinedText, Zenon
  <2> HIDE DEF r
  <2> QED
    BY <1>1, <1>2, <2>1, Zenon
<1> HIDE DEF r
<1>4. (1 + n) + 1 = n + 2 /\ 1 \in 1..(1 + n) /\ \A i \in 1..n : 1 + i \in 1..(1 + n)
  BY <1>0
<1>5. Bracketed(r, a, u, c)
  <2> HIDE DEF n
  <2>1. \A i \in 1..n : r[1 + i] = u[i]
    BY <1>2, <1>3, <1>4
  <2>2. r[1] = a
    BY <1>2, <1>3, <1>4
  <2>3. Len(r) = n + 2 /\ r[n + 2] = c
    BY <1>3, <1>4, Zenon
  <2> QED
    BY <1>3, <2>1, <2>2, <2>3, Zenon DEF Bracketed, n
<1> QED
  BY <1>5 DEF r, h

\* f is the first n pieces of s, and piece k ends at E[k].
Laid(s, n, E, f) ==
    /\ E \in [0..n -> Nat] /\ E[0] = 0
    /\ f \in Seq(Char) /\ Len(f) = E[n]
    /\ \A k \in 0..n : E[k] <= E[n]
    /\ \A k \in 1..n : E[k] = E[k - 1] + Len(s[k])
    /\ \A k \in 1..n : \A j \in 1..Len(s[k]) : f[E[k - 1] + j] = s[k][j]

LEMMA LaidOneMore ==
  ASSUME NEW n \in Nat, NEW s, s[n + 1] \in Seq(Char), \A k \in 1..n : Len(s[k]) \in Nat,
         NEW E, NEW f, Laid(s, n, E, f)
  PROVE  \E D : Laid(s, n + 1, D, f \o s[n + 1])
<1> DEFINE p == s[n + 1]
           D == [k \in 0..n + 1 |-> IF k = n + 1 THEN E[n] + Len(p) ELSE E[k]]
           h == f \o p
<1>1. /\ E \in [0..n -> Nat] /\ E[0] = 0
      /\ f \in Seq(Char) /\ Len(f) = E[n]
      /\ \A k \in 0..n : E[k] <= E[n]
  BY DEF Laid
<1>2. p \in Seq(Char) /\ Len(p) \in Nat /\ E[n] \in Nat
  BY <1>1
<1>3. /\ h \in Seq(Char) /\ Len(h) = E[n] + Len(p)
      /\ \A i \in 1..E[n] : h[i] = f[i]
      /\ \A j \in 1..Len(p) : h[E[n] + j] = p[j]
  <2> HIDE DEF p
  <2>1. /\ h \in Seq(Char) /\ Len(h) = Len(f) + Len(p)
        /\ \A i \in 1..Len(f) : h[i] = f[i]
        /\ \A j \in 1..Len(p) : h[Len(f) + j] = p[j]
    BY <1>1, <1>2, JoinedText, Zenon
  <2> HIDE DEF h
  <2> QED
    BY <1>1, <2>1
<1>4. D[n + 1] = E[n] + Len(p) /\ \A k \in 0..n : D[k] = E[k]
  OBVIOUS
<1>5. D \in [0..n + 1 -> Nat]
  BY <1>1, <1>2
<1> HIDE DEF D, h
<1>6. ASSUME NEW k \in 1..n
      PROVE  /\ D[k] = D[k - 1] + Len(s[k])
             /\ \A j \in 1..Len(s[k]) : h[D[k - 1] + j] = s[k][j]
  <2>1. k \in 0..n /\ k - 1 \in 0..n
    OBVIOUS
  <2>2. /\ D[k] = E[k] /\ D[k - 1] = E[k - 1]
        /\ E[k - 1] \in Nat /\ E[k] \in Nat /\ E[k] <= E[n]
    BY <1>1, <1>4, <2>1
  <2>3. E[k] = E[k - 1] + Len(s[k]) /\ \A j \in 1..Len(s[k]) : f[E[k - 1] + j] = s[k][j]
    BY DEF Laid
  <2>4. ASSUME NEW j \in 1..Len(s[k]) PROVE h[E[k - 1] + j] = s[k][j]
    <3>1. E[k - 1] + j \in 1..E[n]
      <4>1. Len(s[k]) \in Nat /\ E[k - 1] + Len(s[k]) <= E[n]
        BY <2>2, <2>3
      <4> QED
        BY <1>2, <2>2, <4>1, Within, Zenon
    <3> QED
      BY <1>3, <2>3, <3>1
  <2> QED
    BY <2>2, <2>3, <2>4
<1>7. D[n + 1] = D[n] + Len(p) /\ \A j \in 1..Len(p) : h[D[n] + j] = p[j]
  BY <1>3, <1>4
<1>8. \A k \in 0..n + 1 : D[k] <= D[n + 1]
  <2> SUFFICES ASSUME NEW k \in 0..n + 1 PROVE D[k] <= D[n + 1]
    OBVIOUS
  <2>1. CASE k = n + 1
    BY <1>2, <1>4, <2>1
  <2>2. CASE k \in 0..n
    BY <1>1, <1>2, <1>4, <2>2
  <2> QED
    BY <2>1, <2>2
<1>9. \A k \in 1..n + 1 : /\ D[k] = D[k - 1] + Len(s[k])
                          /\ \A j \in 1..Len(s[k]) : h[D[k - 1] + j] = s[k][j]
  <2> SUFFICES ASSUME NEW k \in 1..n + 1
               PROVE  /\ D[k] = D[k - 1] + Len(s[k])
                      /\ \A j \in 1..Len(s[k]) : h[D[k - 1] + j] = s[k][j]
    OBVIOUS
  <2>1. CASE k = n + 1
    <3>1. k - 1 = n
      BY <2>1
    <3> QED
      BY <1>7, <2>1, <3>1
  <2>2. CASE k # n + 1
    <3>1. k \in 1..n
      BY <2>2
    <3> QED
      BY <1>6, <3>1, Zenon
  <2> QED
    BY <2>1, <2>2
<1>10. D[0] = 0
  BY <1>1, <1>4
<1>11. Laid(s, n + 1, D, h)
  <2>1. Len(h) = D[n + 1]
    BY <1>3, <1>4
  <2> QED
    BY <1>3, <1>5, <1>8, <1>9, <1>10, <2>1 DEF Laid
<1> QED
  BY <1>11 DEF h

Built(g, s) == g = [i \in 1..Len(s) |-> IF i = 1 THEN s[i] ELSE g[i - 1] \o s[i]]

LEMMA FlattenIsBuilt ==
  ASSUME NEW s
  PROVE  FlattenSeq(s) = IF Len(s) = 0 THEN s ELSE (CHOOSE g : Built(g, s))[Len(s)]
BY DEF FlattenSeq, Built

LEMMA BuiltExists ==
  ASSUME NEW s, Len(s) \in Nat
  PROVE  \E g : Built(g, s)
<1> DEFINE n == Len(s)
           Upto(g, m) == g = [i \in 1..m |-> IF i = 1 THEN s[i] ELSE g[i - 1] \o s[i]]
           T == {m \in 0..n : \E g : Upto(g, m)}
<1>0. n \in Nat
  OBVIOUS
<1>1. 0 \in T
  <2>1. Upto([i \in 1..0 |-> s[1]], 0)
    OBVIOUS
  <2> HIDE DEF Upto
  <2> QED
    BY <1>0, <2>1
<1>2. ASSUME NEW m \in 0..n - 1, m \in T PROVE m + 1 \in T
  <2>1. PICK g : Upto(g, m)
    BY <1>2
  <2> DEFINE piece(b, i) == IF i = 1 THEN s[i] ELSE b[i - 1] \o s[i]
             h == [i \in 1..m + 1 |-> piece(g, i)]
  <2>2. ASSUME NEW i \in 1..m + 1
        PROVE  h[i] = piece(h, i)
    <3>1. h[i] = piece(g, i)
      OBVIOUS
    <3>2. i # 1 => h[i - 1] = g[i - 1]
      <4> SUFFICES ASSUME i # 1 PROVE h[i - 1] = g[i - 1]
        OBVIOUS
      <4>1. i - 1 \in 1..m /\ i - 1 \in 1..m + 1
        BY <1>0
      <4>2. h[i - 1] = piece(g, i - 1)
        BY <4>1
      <4>3. g[i - 1] = piece(g, i - 1)
        BY <2>1, <4>1
      <4> QED
        BY <4>2, <4>3
    <3> HIDE DEF h
    <3> QED
      BY <3>1, <3>2
  <2>3. h = [i \in 1..m + 1 |-> h[i]]
    OBVIOUS
  <2>4. Upto(h, m + 1)
    <3> HIDE DEF h
    <3> QED
      BY <2>2, <2>3
  <2>5. m + 1 \in 0..n
    BY <1>0
  <2> HIDE DEF Upto, h
  <2> QED
    BY <2>4, <2>5
<1>3. n \in T
  <2> HIDE DEF T, n
  <2>1. \A k \in 0..n : k \in T
    BY <1>0, <1>1, <1>2, AllUpTo
  <2> QED
    BY <1>0, <2>1
<1> QED
  BY <1>3 DEF Built

LEMMA FlattenLaid ==
  ASSUME NEW s \in Seq(Seq(Char))
  PROVE  \E E : Laid(s, Len(s), E, FlattenSeq(s))
<1> DEFINE n == Len(s)
<1>0. n \in Nat /\ \A k \in 1..n : s[k] \in Seq(Char) /\ Len(s[k]) \in Nat
  OBVIOUS
<1>1. Laid(s, 0, [k \in 0..0 |-> 0], <<>>)
  <2>1. 0..0 = {0} /\ 1..0 = {}
    OBVIOUS
  <2> QED
    BY <2>1 DEF Laid
<1>2. CASE n = 0
  <2>1. FlattenSeq(s) = s /\ s = <<>>
    BY <1>2 DEF FlattenSeq
  <2> QED
    BY <1>1, <1>2, <2>1
<1>3. CASE n # 0
  <2>1. PICK g : Built(g, s) /\ FlattenSeq(s) = g[n]
    <3>1. Built(CHOOSE g : Built(g, s), s)
      BY <1>0, BuiltExists, Zenon
    <3> QED
      BY <1>3, <3>1, FlattenIsBuilt, Zenon
  <2>2. \A i \in 1..n : g[i] = IF i = 1 THEN s[i] ELSE g[i - 1] \o s[i]
    BY <2>1, Zenon DEF Built
  <2> DEFINE T == {m \in 0..n : m # 0 => \E E : Laid(s, m, E, g[m])}
  <2>3. 0 \in T
    BY <1>0
  <2>4. ASSUME NEW m \in 0..n - 1, m \in T PROVE m + 1 \in T
    <3>1. m \in Nat /\ m + 1 \in 1..n /\ (m + 1) - 1 = m /\ m + 1 \in 0..n
      BY <1>0
    <3>2. s[m + 1] \in Seq(Char) /\ \A k \in 1..m : Len(s[k]) \in Nat
      BY <1>0, <3>1
    <3>3. PICK E : Laid(s, m, E, IF m = 0 THEN <<>> ELSE g[m])
      <4>1. CASE m = 0
        BY <1>1, <4>1
      <4>2. CASE m # 0
        BY <2>4, <4>2
      <4> QED
        BY <4>1, <4>2
    <3>4. g[m + 1] = (IF m = 0 THEN <<>> ELSE g[m]) \o s[m + 1]
      <4>1. CASE m = 0
        <5>1. g[1] = s[1]
          BY <2>2, <3>1, <4>1
        <5> QED
          BY <3>2, <4>1, <5>1
      <4>2. CASE m # 0
        <5>1. m + 1 # 1
          BY <3>1, <4>2
        <5> QED
          BY <2>2, <3>1, <4>2, <5>1
      <4> QED
        BY <4>1, <4>2
    <3>5. \E D : Laid(s, m + 1, D, g[m + 1])
      BY <3>1, <3>2, <3>3, <3>4, LaidOneMore, Zenon
    <3> QED
      BY <3>1, <3>5
  <2>5. \A m \in 0..n : m \in T
    <3> HIDE DEF T
    <3> QED
      BY <1>0, <2>3, <2>4, AllUpTo
  <2>6. n \in T
    <3> HIDE DEF T
    <3> QED
      BY <1>0, <2>5
  <2> QED
    BY <1>3, <2>1, <2>6
<1> QED
  BY <1>2, <1>3

\* Every position is in a piece.
Covered(s, n, E) ==
    \A i \in 1..E[n] : \E k \in 1..n : \E j \in 1..Len(s[k]) : i = E[k - 1] + j

LEMMA EveryPlace ==
  ASSUME NEW n \in Nat, NEW s, NEW E, NEW f, Laid(s, n, E, f),
         \A k \in 1..n : Len(s[k]) \in Nat
  PROVE  Covered(s, n, E)
<1> DEFINE In(i) == \E k \in 1..n : \E j \in 1..Len(s[k]) : i = E[k - 1] + j
           T == {m \in 0..n : \A i \in 1..E[m] : In(i)}
<1>0. E \in [0..n -> Nat] /\ E[0] = 0 /\ \A k \in 1..n : E[k] = E[k - 1] + Len(s[k])
  BY DEF Laid
<1>1. 0 \in T
  BY <1>0
<1>2. ASSUME NEW m \in 0..n - 1, m \in T PROVE m + 1 \in T
  <2>1. m + 1 \in 1..n /\ (m + 1) - 1 = m /\ m + 1 \in 0..n
    OBVIOUS
  <2>2. /\ E[m + 1] = E[m] + Len(s[m + 1]) /\ E[m] \in Nat /\ E[m + 1] \in Nat
        /\ Len(s[m + 1]) \in Nat
    BY <1>0, <2>1
  <2>3. ASSUME NEW i \in 1..E[m + 1] PROVE In(i)
    <3>1. CASE i \in 1..E[m]
      <4> HIDE DEF In
      <4> QED
        BY <1>2, <3>1
    <3>2. CASE i \notin 1..E[m]
      <4>1. i - E[m] \in 1..Len(s[m + 1]) /\ i = E[m] + (i - E[m])
        BY <2>2, <3>2, Beyond
      <4> QED
        BY <2>1, <4>1
    <3> QED
      BY <3>1, <3>2
  <2> HIDE DEF In
  <2> QED
    BY <2>1, <2>3
<1>3. \A m \in 0..n : m \in T
  <2> HIDE DEF T
  <2> QED
    BY <1>1, <1>2, AllUpTo
<1>4. n \in T
  <2> HIDE DEF T
  <2> QED
    BY <1>3
<1> QED
  BY <1>4 DEF Covered

-----------------------------------------------------------------------------
(* Positions in order *)

LEMMA AscendingIs ==
  ASSUME NEW c \in Nat, NEW e \in [1..c -> Nat], \A k, l \in 1..c : k < l => e[k] < e[l]
  PROVE  Ascending({e[k] : k \in 1..c}) = e
<1> DEFINE S == {e[k] : k \in 1..c}
           Upto(n) == {e[l] : l \in 1..n}
           below(i) == {j \in S : j <= i}
<1>1. \A k \in 0..c : Cardinality(Upto(k)) = k
  <2> SUFFICES ASSUME NEW k \in 0..c PROVE Cardinality(Upto(k)) = k
    OBVIOUS
  <2> DEFINE f == [l \in 1..k |-> e[l]]
  <2>1. f \in Bijection(1..k, Upto(k))
    <3>1. \A a, b \in 1..k : a # b => e[a] # e[b]
      OBVIOUS
    <3>2. f \in Injection(1..k, Upto(k))
      BY <3>1 DEF Injection, IsInjective
    <3>3. f \in Surjection(1..k, Upto(k))
      BY DEF Surjection
    <3> QED
      BY <3>2, <3>3 DEF Bijection
  <2>2. IsFiniteSet(1..k) /\ Cardinality(1..k) = k
    BY FS_Interval
  <2>3. ExistsBijection(1..k, Upto(k))
    BY <2>1 DEF ExistsBijection
  <2> QED
    BY <2>2, <2>3, FS_Bijection, Zenon
<1>2. S = Upto(c)
  OBVIOUS
<1>3. \A k \in 1..c : below(e[k]) = Upto(k)
  <2> SUFFICES ASSUME NEW k \in 1..c PROVE below(e[k]) = Upto(k)
    OBVIOUS
  <2>1. \A l \in 1..c : e[l] <= e[k] <=> l <= k
    OBVIOUS
  <2> QED
    BY <2>1
<1>4. \A k, l \in 1..c : Cardinality(below(e[l])) = k <=> l = k
  <2> HIDE DEF below, Upto
  <2>1. \A l \in 1..c : Cardinality(below(e[l])) = l
    BY <1>1, <1>3
  <2> QED
    BY <2>1
<1>5. ASSUME NEW k \in 1..c
      PROVE  (CHOOSE i \in S : Cardinality(below(i)) = k) = e[k]
  <2>1. e[k] \in S /\ Cardinality(below(e[k])) = k
    BY <1>4
  <2>2. \A i \in S : Cardinality(below(i)) = k => i = e[k]
    BY <1>4
  <2> HIDE DEF S, below
  <2> QED
    BY <2>1, <2>2
<1>6. Cardinality(S) = c
  BY <1>1, <1>2
<1>7. Ascending(S) = [k \in 1..c |-> CHOOSE i \in S : Cardinality(below(i)) = k]
  BY <1>6 DEF Ascending
<1>8. Ascending(S) = [k \in 1..c |-> e[k]]
  BY <1>5, <1>7
<1> QED
  BY <1>8

-----------------------------------------------------------------------------
(* A quoted string *)

\* q quotes v, and b[k] is where the k-th character of v stands in it.
Quoted(v, q, b) ==
    /\ b \in [0..Len(v) -> Nat] /\ b[0] = 1
    /\ q \in Seq(Char) /\ Len(q) = b[Len(v)] + 1
    /\ q[1] = "quote" /\ q[Len(q)] = "quote"
    /\ \A k \in 1..Len(v) :
        /\ q[b[k]] = v[k]
        /\ IF v[k] \in {"quote", "backslash"}
           THEN b[k] = b[k - 1] + 2 /\ q[b[k] - 1] = "backslash"
           ELSE b[k] = b[k - 1] + 1
    /\ \A i \in 2..b[Len(v)] : \E k \in 1..Len(v) :
           i = b[k] \/ (v[k] \in {"quote", "backslash"} /\ i = b[k] - 1)

LEMMA Escapes ==
  ASSUME NEW c \in Char
  PROVE  /\ Escape(c) \in Seq(Char)
         /\ c \in {"quote", "backslash"} =>
                Len(Escape(c)) = 2 /\ Escape(c)[1] = "backslash" /\ Escape(c)[2] = c
         /\ c \notin {"quote", "backslash"} => Len(Escape(c)) = 1 /\ Escape(c)[1] = c
<1>1. "backslash" \in Char
  BY SignsAreChars
<1> QED
  BY <1>1 DEF Escape

\* The places of a piece of l characters, one or two, after the place a, each one
\* further on in q.
PlacesOf(a, was, is, l) ==
    /\ l = 2 => is = was + 2 /\ is - 1 = a + 1 + 1 /\ is = a + 2 + 1
    /\ l = 1 => is = was + 1 /\ is = a + 1 + 1
    /\ \A i \in Nat, j \in 1..l : i - 1 = a + j => i = is \/ (l = 2 /\ i = is - 1)

LEMMA EscapePlaces ==
  ASSUME NEW a \in Nat, NEW e \in Nat, NEW was \in Nat, NEW is \in Nat, NEW l, l = 1 \/ l = 2,
         e = a + l, was = a + 1, is = e + 1
  PROVE  PlacesOf(a, was, is, l)
BY DEF PlacesOf

LEMMA QuoteIsQuoted ==
  ASSUME NEW v \in Seq(Char)
  PROVE  \E b : Quoted(v, Quote(v), b)
<1> DEFINE n == Len(v)
           s == [i \in DOMAIN v |-> Escape(v[i])]
           f == FlattenSeq(s)
           q == Quote(v)
           special(k) == v[k] \in {"quote", "backslash"}
<1>0. n \in Nat /\ \A k \in 1..n : v[k] \in Char
  OBVIOUS
<1>1. /\ s \in Seq(Seq(Char)) /\ Len(s) = n
      /\ \A k \in 1..n : s[k] = Escape(v[k]) /\ Len(s[k]) \in {1, 2}
  <2>1. \A k \in 1..n : Escape(v[k]) \in Seq(Char) /\ Len(Escape(v[k])) \in {1, 2}
    BY <1>0, Escapes
  <2> QED
    BY <2>1
<1>2. PICK E : Laid(s, n, E, f)
  BY <1>1, FlattenLaid
<1>3. q = <<"quote">> \o f \o <<"quote">>
  BY DEF Quote
<1> HIDE DEF s, f, q
<1>4. /\ E \in [0..n -> Nat] /\ E[0] = 0
      /\ f \in Seq(Char) /\ Len(f) = E[n]
  BY <1>2 DEF Laid
<1>5. /\ \A k \in 1..n : E[k] = E[k - 1] + Len(s[k])
      /\ \A k \in 1..n : \A j \in 1..Len(s[k]) : f[E[k - 1] + j] = s[k][j]
      /\ \A k \in 0..n : E[k] <= E[n]
  BY <1>2 DEF Laid
<1>6. \A i \in 1..E[n] : \E k \in 1..n : \E j \in 1..Len(s[k]) : i = E[k - 1] + j
  <2>1. \A k \in 1..n : Len(s[k]) \in Nat
    BY <1>1
  <2>2. Covered(s, n, E)
    BY <1>0, <1>2, <2>1, EveryPlace, Zenon
  <2> QED
    BY <2>2 DEF Covered
<1>7. /\ q \in Seq(Char) /\ Len(q) = E[n] + 2
      /\ q[1] = "quote" /\ q[E[n] + 2] = "quote"
      /\ \A i \in 1..E[n] : q[i + 1] = f[i]
  <2>1. "quote" \in Char
    BY SignsAreChars
  <2>2. Bracketed(q, "quote", f, "quote")
    BY <1>3, <1>4, <2>1, InBrackets, Zenon
  <2>3. /\ q \in Seq(Char) /\ Len(q) = Len(f) + 2 /\ q[1] = "quote" /\ q[Len(f) + 2] = "quote"
        /\ \A i \in 1..Len(f) : q[1 + i] = f[i]
    BY <2>2, Zenon DEF Bracketed
  <2>4. \A i \in 1..E[n] : 1 + i = i + 1
    BY <1>0, <1>4
  <2> QED
    BY <1>4, <2>3, <2>4, Zenon
<1> DEFINE b == [k \in 0..n |-> E[k] + 1]
<1>8. b \in [0..n -> Nat] /\ b[0] = 1 /\ Len(q) = b[n] + 1 /\ \A k \in 0..n : b[k] = E[k] + 1
  BY <1>0, <1>4, <1>7
<1> HIDE DEF b
<1>9. ASSUME NEW k \in 1..n
      PROVE  /\ E[k - 1] \in Nat /\ E[k - 1] + Len(s[k]) <= E[n] /\ E[n] \in Nat
             /\ Len(s[k]) \in Nat /\ (Len(s[k]) = 1 \/ Len(s[k]) = 2)
             /\ s[k] = Escape(v[k]) /\ v[k] \in Char
             /\ PlacesOf(E[k - 1], b[k - 1], b[k], Len(s[k]))
  <2>1. k \in 0..n /\ k - 1 \in 0..n /\ n \in 0..n
    BY <1>0
  <2>2. E[k] \in Nat /\ E[k - 1] \in Nat /\ E[n] \in Nat /\ b[k] \in Nat /\ b[k - 1] \in Nat
    BY <1>4, <1>8, <2>1
  <2>3. b[k] = E[k] + 1 /\ b[k - 1] = E[k - 1] + 1
    BY <1>8, <2>1
  <2>4. s[k] = Escape(v[k]) /\ v[k] \in Char /\ Len(s[k]) \in Nat
        /\ (Len(s[k]) = 1 \/ Len(s[k]) = 2)
    BY <1>0, <1>1
  <2>5. E[k] = E[k - 1] + Len(s[k]) /\ E[k] <= E[n]
    BY <1>5, <2>1
  <2>6. PlacesOf(E[k - 1], b[k - 1], b[k], Len(s[k]))
    BY <2>2, <2>3, <2>4, <2>5, EscapePlaces, Zenon
  <2> QED
    BY <2>2, <2>4, <2>5, <2>6
<1>10. ASSUME NEW k \in 1..n
       PROVE  /\ q[b[k]] = v[k]
              /\ special(k) => b[k] = b[k - 1] + 2 /\ q[b[k] - 1] = "backslash"
              /\ ~special(k) => b[k] = b[k - 1] + 1
  <2>1. \A j \in 1..Len(s[k]) : q[E[k - 1] + j + 1] = s[k][j]
    <3> SUFFICES ASSUME NEW j \in 1..Len(s[k]) PROVE q[E[k - 1] + j + 1] = s[k][j]
      OBVIOUS
    <3>1. E[k - 1] + j \in 1..E[n]
      BY <1>9, Within, Zenon
    <3>2. f[E[k - 1] + j] = s[k][j]
      BY <1>5
    <3> QED
      BY <1>7, <3>1, <3>2
  <2>2. CASE special(k)
    <3>1. Len(s[k]) = 2 /\ s[k][1] = "backslash" /\ s[k][2] = v[k]
      <4>1. s[k] = Escape(v[k]) /\ v[k] \in Char
        BY <1>9
      <4> QED
        BY <2>2, <4>1, Escapes, Zenon
    <3>2. q[E[k - 1] + 1 + 1] = "backslash" /\ q[E[k - 1] + 2 + 1] = v[k]
      BY <2>1, <3>1
    <3>3. b[k] = b[k - 1] + 2 /\ b[k] - 1 = E[k - 1] + 1 + 1 /\ b[k] = E[k - 1] + 2 + 1
      BY <1>9, <3>1, Zenon DEF PlacesOf
    <3> QED
      BY <2>2, <3>2, <3>3, Zenon
  <2>3. CASE ~special(k)
    <3>1. Len(s[k]) = 1 /\ s[k][1] = v[k]
      <4>1. s[k] = Escape(v[k]) /\ v[k] \in Char
        BY <1>9
      <4> QED
        BY <2>3, <4>1, Escapes, Zenon
    <3>2. q[E[k - 1] + 1 + 1] = v[k]
      BY <2>1, <3>1
    <3>3. b[k] = b[k - 1] + 1 /\ b[k] = E[k - 1] + 1 + 1
      BY <1>9, <3>1, Zenon DEF PlacesOf
    <3> QED
      BY <2>3, <3>2, <3>3, Zenon
  <2> QED
    BY <2>2, <2>3
<1>11. ASSUME NEW i \in 2..b[n]
       PROVE  \E k \in 1..n : i = b[k] \/ (special(k) /\ i = b[k] - 1)
  <2>1. i - 1 \in 1..E[n] /\ i \in Nat
    BY <1>0, <1>4, <1>8
  <2>2. PICK k \in 1..n : \E j \in 1..Len(s[k]) : i - 1 = E[k - 1] + j
    BY <1>6, <2>1
  <2>3. PICK j \in 1..Len(s[k]) : i - 1 = E[k - 1] + j
    BY <2>2
  <2>4. i = b[k] \/ (Len(s[k]) = 2 /\ i = b[k] - 1)
    BY <1>9, <2>1, <2>3, Zenon DEF PlacesOf
  <2>5. Len(s[k]) = 2 => special(k)
    <3> SUFFICES ASSUME ~special(k), Len(s[k]) = 2 PROVE FALSE
      OBVIOUS
    <3>1. s[k] = Escape(v[k]) /\ v[k] \in Char
      BY <1>9
    <3>2. 2 = 1
      BY <3>1, Escapes, Zenon
    <3> QED
      BY <3>2
  <2> QED
    BY <2>4, <2>5
<1>12. Quoted(v, q, b)
  <2>1. b[n] \in Nat /\ b[n] + 1 = E[n] + 2
    BY <1>0, <1>4, <1>8
  <2> QED
    BY <1>7, <1>8, <1>10, <1>11, <2>1 DEF Quoted
<1> QED
  BY <1>12 DEF q

LEMMA Increasing ==
  ASSUME NEW n \in Nat, NEW e \in [0..n -> Nat], \A k \in 1..n : e[k - 1] < e[k]
  PROVE  \A k, l \in 0..n : k < l => e[k] < e[l]
<1> DEFINE T == {m \in 0..n : \A k \in 0..n : k < m => e[k] < e[m]}
<1>1. 0 \in T
  OBVIOUS
<1>2. ASSUME NEW m \in 0..n - 1, m \in T PROVE m + 1 \in T
  <2>1. m + 1 \in 1..n /\ (m + 1) - 1 = m /\ m + 1 \in 0..n /\ m \in 0..n
    OBVIOUS
  <2>2. e[m] < e[m + 1] /\ e[m] \in Nat /\ e[m + 1] \in Nat
    BY <2>1
  <2>3. ASSUME NEW k \in 0..n, k < m + 1 PROVE e[k] < e[m + 1]
    <3>1. CASE k = m
      BY <2>2, <3>1
    <3>2. CASE k # m
      <4>1. k < m
        BY <2>3, <3>2
      <4>2. e[k] < e[m] /\ e[k] \in Nat
        BY <1>2, <4>1
      <4> QED
        BY <2>2, <4>2
    <3> QED
      BY <3>1, <3>2
  <2> QED
    BY <2>1, <2>3
<1>3. \A m \in 0..n : m \in T
  <2> HIDE DEF T
  <2> QED
    BY <1>1, <1>2, AllUpTo
<1> QED
  BY <1>3

\* The states over a quoted string: in it from the opening quote to the closing one,
\* escaped after each backslash that is not v's own.
Reading(T, v, b) ==
    /\ \A k \in 0..Len(v) : T[b[k]] = "in"
    /\ \A k \in 1..Len(v) : v[k] \in {"quote", "backslash"} => T[b[k] - 1] = "escaped"

LEMMA QuotedPlaces ==
  ASSUME NEW v \in Seq(Char), NEW q, NEW b, Quoted(v, q, b)
  PROVE  /\ \A k, l \in 0..Len(v) : k < l => b[k] < b[l]
         /\ \A k \in 0..Len(v) : b[k] \in 1..b[Len(v)]
<1> DEFINE n == Len(v)
<1>0. n \in Nat
  OBVIOUS
<1>1. b \in [0..n -> Nat] /\ b[0] = 1
  BY DEF Quoted
<1>2. ASSUME NEW k \in 1..n PROVE b[k - 1] < b[k]
  <2>1. k - 1 \in 0..n /\ k \in 0..n
    OBVIOUS
  <2>2. b[k - 1] \in Nat /\ b[k] \in Nat
    BY <1>1, <2>1
  <2>3. b[k] = b[k - 1] + 2 \/ b[k] = b[k - 1] + 1
    BY DEF Quoted
  <2> QED
    BY <2>2, <2>3
<1>3. \A k, l \in 0..n : k < l => b[k] < b[l]
  BY <1>0, <1>1, <1>2, Increasing, Zenon
<1>4. ASSUME NEW k \in 0..n PROVE b[k] \in 1..b[n]
  <2>1. 0 \in 0..n /\ n \in 0..n /\ (0 < k \/ 0 = k) /\ (k < n \/ k = n)
    BY <1>0
  <2>2. b[k] \in Nat /\ b[n] \in Nat
    BY <1>1, <2>1
  <2>3. (b[0] < b[k] \/ b[0] = b[k]) /\ (b[k] < b[n] \/ b[k] = b[n])
    BY <1>3, <2>1
  <2> QED
    BY <1>1, <2>2, <2>3
<1> QED
  BY <1>3, <1>4

LEMMA QuotedReading ==
  ASSUME NEW v \in Seq(Char), NEW q, NEW b, Quoted(v, q, b), NEW T, Stepwise(T, q)
  PROVE  Reading(T, v, b)
<1> DEFINE n == Len(v)
           special(k) == v[k] \in {"quote", "backslash"}
           A == {m \in 0..n : /\ T[b[m]] = "in"
                              /\ m # 0 /\ special(m) => T[b[m] - 1] = "escaped"}
<1>0. n \in Nat
  OBVIOUS
<1>1. /\ b \in [0..n -> Nat] /\ b[0] = 1 /\ Len(q) = b[n] + 1 /\ q[1] = "quote"
      /\ \A k \in 1..n : /\ q[b[k]] = v[k]
                         /\ special(k) => b[k] = b[k - 1] + 2 /\ q[b[k] - 1] = "backslash"
                         /\ ~special(k) => b[k] = b[k - 1] + 1
  BY DEF Quoted
<1>2. b[n] \in Nat /\ \A k \in 0..n : b[k] \in 1..b[n]
  BY <1>0, <1>1, QuotedPlaces
<1>3. T[0] = "out" /\ \A i \in 1..b[n] : T[i] = StateAfter(T[i - 1], q[i])
  <2>1. 1..b[n] \subseteq 1..Len(q)
    BY <1>1, <1>2
  <2> QED
    BY <2>1 DEF Stepwise
<1>4. 0 \in A
  <2>1. 1 \in 1..b[n]
    BY <1>0, <1>1, <1>2
  <2>2. T[1] = StateAfter(T[1 - 1], q[1])
    BY <1>3, <2>1
  <2>3. T[1] = "in"
    BY <1>1, <1>3, <2>2, StepsOfState
  <2> QED
    BY <1>0, <1>1, <2>3
<1>5. ASSUME NEW m \in 0..n - 1, m \in A PROVE m + 1 \in A
  <2>1. m + 1 \in 1..n /\ (m + 1) - 1 = m /\ m + 1 \in 0..n /\ m + 1 # 0
    BY <1>0
  <2>2. PICK a : a = b[m]
    OBVIOUS
  <2>3. PICK c : c = b[m + 1]
    OBVIOUS
  <2>4. a \in 1..b[n] /\ c \in 1..b[n] /\ T[a] = "in"
    BY <1>2, <1>5, <2>1, <2>2, <2>3
  <2>5. /\ q[c] = v[m + 1]
        /\ special(m + 1) => c = a + 2 /\ q[c - 1] = "backslash"
        /\ ~special(m + 1) => c = a + 1
    BY <1>1, <2>1, <2>2, <2>3
  <2> HIDE DEF special
  <2>6. CASE special(m + 1)
    <3>1. c - 1 \in 1..b[n] /\ (c - 1) - 1 = a
      BY <1>2, <2>4, <2>5, <2>6
    <3>2. T[c - 1] = StateAfter(T[a], q[c - 1]) /\ T[c] = StateAfter(T[c - 1], q[c])
      BY <1>3, <2>4, <3>1
    <3>3. T[c - 1] = "escaped"
      BY <2>4, <2>5, <2>6, <3>2, StepsOfState
    <3>4. T[c] = "in"
      BY <3>2, <3>3, StepsOfState
    <3> QED
      BY <2>1, <2>3, <3>3, <3>4
  <2>7. CASE ~special(m + 1)
    <3>1. c - 1 = a
      BY <1>2, <2>4, <2>5, <2>7
    <3>2. T[c] = StateAfter("in", v[m + 1])
      BY <1>3, <2>4, <2>5, <3>1
    <3>3. T[c] = "in"
      BY <2>7, <3>2, StepsOfState DEF special
    <3> QED
      BY <2>1, <2>3, <2>7, <3>3
  <2> QED
    BY <2>6, <2>7
<1>6. \A m \in 0..n : m \in A
  <2> HIDE DEF A
  <2> QED
    BY <1>0, <1>4, <1>5, AllUpTo
<1> QED
  BY <1>6 DEF Reading

\* The first quote that closes the string is its last character.
LEMMA QuotedCloses ==
  ASSUME NEW v \in Seq(Char), NEW q, NEW b, Quoted(v, q, b), NEW T, Stepwise(T, q)
  PROVE  /\ \A i \in 1..b[Len(v)] : T[i] # "out"
         /\ T[Len(q)] = "out"
<1> DEFINE n == Len(v)
<1>0. n \in Nat /\ n \in 0..n
  OBVIOUS
<1>1. /\ b \in [0..n -> Nat] /\ b[n] \in 1..b[n] /\ Len(q) = b[n] + 1 /\ q[Len(q)] = "quote"
      /\ b[0] = 1
  BY <1>0, QuotedPlaces DEF Quoted
<1>2. /\ \A k \in 0..n : T[b[k]] = "in"
      /\ \A k \in 1..n : v[k] \in {"quote", "backslash"} => T[b[k] - 1] = "escaped"
  BY QuotedReading DEF Reading
<1>3. ASSUME NEW i \in 1..b[n] PROVE T[i] # "out"
  <2>1. CASE i = 1
    <3>1. 0 \in 0..n
      BY <1>0
    <3>2. T[1] = "in"
      BY <1>1, <1>2, <3>1
    <3> QED
      BY <2>1, <3>2
  <2>2. CASE i # 1
    <3>1. i \in 2..b[n]
      BY <1>1, <2>2
    <3>2. PICK k \in 1..n : i = b[k] \/ (v[k] \in {"quote", "backslash"} /\ i = b[k] - 1)
      BY <3>1 DEF Quoted
    <3>3. k \in 0..n
      OBVIOUS
    <3>4. T[i] = "in" \/ T[i] = "escaped"
      BY <1>2, <3>2, <3>3
    <3> QED
      BY <3>4
  <2> QED
    BY <2>1, <2>2
<1>4. T[Len(q)] = "out"
  <2>1. Len(q) \in 1..Len(q) /\ Len(q) - 1 = b[n]
    BY <1>1
  <2>2. T[Len(q)] = StateAfter(T[b[n]], "quote")
    BY <1>1, <2>1 DEF Stepwise
  <2>3. T[b[n]] = "in"
    BY <1>0, <1>2
  <2> QED
    BY <2>2, <2>3, StepsOfState
<1> QED
  BY <1>3, <1>4

\* What was quoted is what the parser keeps.
LEMMA QuoteParses ==
  ASSUME NEW v \in Seq(Char)
  PROVE  ParseBasicString(Quote(v)) = [kind |-> "string", value |-> v]
<1> DEFINE n == Len(v)
           q == Quote(v)
           T == Quoting(q)
           closing == {i \in 2..Len(q) : q[i] = "quote" /\ T[i - 1] = "in"}
           escapes == {i \in 2..Len(q) - 1 : T[i] = "escaped"}
           special(k) == v[k] \in {"quote", "backslash"}
<1>0. n \in Nat /\ n \in 0..n /\ 0 \in 0..n
  OBVIOUS
<1>1. PICK b : Quoted(v, q, b)
  BY QuoteIsQuoted
<1>2. q \in Seq(Char)
  BY <1>1 DEF Quoted
<1>3. Stepwise(T, q)
  BY <1>2, QuotingSteps
<1> HIDE DEF q, T
<1>4. /\ b \in [0..n -> Nat] /\ b[0] = 1 /\ Len(q) = b[n] + 1 /\ q[Len(q)] = "quote"
      /\ \A k \in 1..n : q[b[k]] = v[k]
      /\ \A i \in 2..b[n] : \E k \in 1..n : i = b[k] \/ (special(k) /\ i = b[k] - 1)
  BY <1>1 DEF Quoted
<1>5. /\ \A k, l \in 0..n : k < l => b[k] < b[l]
      /\ \A k \in 0..n : b[k] \in 1..b[n]
  BY <1>1, QuotedPlaces
<1>6. /\ \A k \in 0..n : T[b[k]] = "in"
      /\ \A k \in 1..n : special(k) => T[b[k] - 1] = "escaped"
  BY <1>1, <1>3, QuotedReading DEF Reading
<1>7. \A i \in 1..b[n] : T[i] # "out"
  BY <1>1, <1>3, QuotedCloses
<1>8. b[n] \in Nat /\ b[n] >= 1 /\ Len(q) - 1 = b[n]
  <2>1. b[n] \in Nat /\ b[n] \in 1..b[n] /\ Len(q) = b[n] + 1
    BY <1>0, <1>4, <1>5, Zenon
  <2> QED
    BY <2>1
<1>9. closing = {Len(q)}
  <2>1. Len(q) \in closing
    BY <1>0, <1>4, <1>6, <1>8
  <2>2. ASSUME NEW i \in closing PROVE i = Len(q)
    <3> SUFFICES ASSUME i # Len(q) PROVE FALSE
      OBVIOUS
    <3>1. i \in 1..b[n] /\ i \in 1..Len(q)
      BY <1>4, <1>8
    <3>2. T[i] = StateAfter("in", "quote")
      BY <1>3, <3>1 DEF Stepwise
    <3> QED
      BY <1>7, <3>1, <3>2, StepsOfState
  <2> QED
    BY <2>1, <2>2
<1>10. First({Len(q)}) = Len(q)
  BY <1>8 DEF First
<1>11. TrimSpace(SubSeq(q, Len(q) + 1, Len(q))) = <<>>
  <2>1. SubSeq(q, Len(q) + 1, Len(q)) = <<>>
    BY <1>2
  <2>2. {i \in DOMAIN <<>> : <<>>[i] # "space"} = {}
    OBVIOUS
  <2> QED
    BY <2>1, <2>2 DEF TrimSpace
<1>12. \A i \in escapes : q[i + 1] \in {"backslash", "quote"}
  <2> SUFFICES ASSUME NEW i \in escapes PROVE q[i + 1] \in {"backslash", "quote"}
    OBVIOUS
  <2>1. i \in 2..b[n] /\ T[i] = "escaped"
    BY <1>8
  <2>2. PICK k \in 1..n : i = b[k] \/ (special(k) /\ i = b[k] - 1)
    BY <1>4, <2>1
  <2>3. k \in 0..n
    OBVIOUS
  <2>4. special(k) /\ i = b[k] - 1
    BY <1>6, <2>1, <2>2, <2>3
  <2>5. i + 1 = b[k]
    BY <1>5, <2>3, <2>4
  <2> QED
    BY <1>4, <2>4, <2>5
<1>13. 2..(Len(q) - 1) \ escapes = {b[k] : k \in 1..n}
  <2>1. ASSUME NEW i \in 2..(Len(q) - 1) \ escapes PROVE i \in {b[k] : k \in 1..n}
    <3>1. i \in 2..b[n] /\ T[i] # "escaped"
      BY <1>8
    <3>2. PICK k \in 1..n : i = b[k] \/ (special(k) /\ i = b[k] - 1)
      BY <1>4, <3>1
    <3> QED
      BY <1>6, <3>1, <3>2
  <2>2. ASSUME NEW k \in 1..n PROVE b[k] \in 2..(Len(q) - 1) \ escapes
    <3>1. k \in 0..n /\ 0 < k
      OBVIOUS
    <3>2. b[0] < b[k] /\ b[k] \in 1..b[n] /\ T[b[k]] = "in"
      BY <1>0, <1>5, <1>6, <3>1
    <3> QED
      BY <1>4, <1>8, <3>2
  <2> HIDE DEF escapes
  <2> QED
    BY <2>1, <2>2
<1> DEFINE e == [k \in 1..n |-> b[k]]
<1>14. Ascending({b[k] : k \in 1..n}) = e
  <2>1. e \in [1..n -> Nat] /\ \A k \in 1..n : e[k] = b[k]
    BY <1>4
  <2>2. \A k, l \in 1..n : k < l => e[k] < e[l]
    BY <1>5, <2>1
  <2> HIDE DEF e
  <2>3. Ascending({e[k] : k \in 1..n}) = e
    BY <1>0, <2>1, <2>2, AscendingIs
  <2>4. {e[k] : k \in 1..n} = {b[k] : k \in 1..n}
    BY <2>1
  <2> QED
    BY <2>3, <2>4
<1>15. [k \in DOMAIN e |-> q[e[k]]] = v
  <2>1. \A k \in 1..n : q[e[k]] = v[k]
    BY <1>4
  <2>2. v = [k \in 1..n |-> v[k]] /\ DOMAIN e = 1..n
    OBVIOUS
  <2> HIDE DEF e
  <2> QED
    BY <2>1, <2>2
<1> HIDE DEF closing, escapes, e
<1> DEFINE end == First(closing)
           kept == Ascending(2..(end - 1) \ escapes)
<1>16. end = Len(q)
  BY <1>9, <1>10
<1>17. kept = e
  BY <1>13, <1>14, <1>16
<1>18. ParseBasicString(q) =
          IF \/ closing = {}
             \/ TrimSpace(SubSeq(q, end + 1, Len(q))) # <<>>
             \/ \E i \in {j \in 2..(end - 1) : T[j] = "escaped"} : q[i + 1] \notin {"backslash", "quote"}
          THEN Error
          ELSE [kind |-> "string",
                value |-> [k \in DOMAIN Ascending(2..(end - 1) \ {j \in 2..(end - 1) : T[j] = "escaped"})
                              |-> q[Ascending(2..(end - 1) \ {j \in 2..(end - 1) : T[j] = "escaped"})[k]]]]
  BY DEF ParseBasicString, T, closing
<1>19. {j \in 2..(end - 1) : T[j] = "escaped"} = escapes
  BY <1>16 DEF escapes
<1>20. ParseBasicString(q) =
          IF \/ closing = {}
             \/ TrimSpace(SubSeq(q, end + 1, Len(q))) # <<>>
             \/ \E i \in escapes : q[i + 1] \notin {"backslash", "quote"}
          THEN Error
          ELSE [kind |-> "string", value |-> [k \in DOMAIN kept |-> q[kept[k]]]]
  <2> HIDE DEF end
  <2> QED
    BY <1>18, <1>19, Zenon
<1>21. closing # {}
  BY <1>9
<1>22. [k \in DOMAIN kept |-> q[kept[k]]] = v
  <2> HIDE DEF kept
  <2> QED
    BY <1>15, <1>17
<1>23. ParseBasicString(q) = [kind |-> "string", value |-> v]
  <2>1. TrimSpace(SubSeq(q, end + 1, Len(q))) = <<>>
    BY <1>11, <1>16, Zenon
  <2> HIDE DEF end, kept
  <2> QED
    BY <1>12, <1>20, <1>21, <1>22, <2>1
<1> QED
  BY <1>23 DEF q

-----------------------------------------------------------------------------
(* Lines *)

\* Spaces around a text go, and nothing else does.
LEMMA TrimIs ==
  ASSUME NEW text \in Seq(Char), NEW a \in 1..Len(text), NEW b \in 1..Len(text), a <= b,
         text[a] # "space", text[b] # "space",
         \A i \in 1..Len(text) : i < a \/ b < i => text[i] = "space"
  PROVE  TrimSpace(text) = SubSeq(text, a, b)
<1> DEFINE solid == {i \in DOMAIN text : text[i] # "space"}
<1>1. a \in solid /\ b \in solid /\ \A i \in solid : a <= i /\ i <= b
  OBVIOUS
<1>2. First(solid) = a
  <2>1. solid \subseteq Nat
    OBVIOUS
  <2>2. \A i \in solid : (\A j \in solid : i <= j) => i = a
    BY <1>1, <2>1
  <2> HIDE DEF solid
  <2> QED
    BY <1>1, <2>2 DEF First
<1>3. (CHOOSE i \in solid : \A j \in solid : j <= i) = b
  <2>1. solid \subseteq Nat
    OBVIOUS
  <2>2. \A i \in solid : (\A j \in solid : j <= i) => i = b
    BY <1>1, <2>1
  <2> HIDE DEF solid
  <2> QED
    BY <1>1, <2>2
<1>4. TrimSpace(text) = IF solid = {} THEN <<>>
                        ELSE SubSeq(text, First(solid), CHOOSE i \in solid : \A j \in solid : j <= i)
  BY DEF TrimSpace
<1> HIDE DEF solid
<1> QED
  BY <1>1, <1>2, <1>3, <1>4

\* A piece of text from where quotes are closed reads as it does alone.
ReadsFrom(o, T, q, S) == \A j \in 0..Len(q) : T[o + j] = S[j]

LEMMA Shifted ==
  ASSUME NEW q \in Seq(Char), NEW S, Stepwise(S, q), NEW u \in Seq(Char), NEW T, Stepwise(T, u),
         NEW o \in Nat, o + Len(q) <= Len(u), \A j \in 1..Len(q) : u[o + j] = q[j], T[o] = "out"
  PROVE  ReadsFrom(o, T, q, S)
<1> DEFINE n == Len(q)
           A == {j \in 0..n : T[o + j] = S[j]}
<1>0. n \in Nat /\ Len(u) \in Nat
  OBVIOUS
<1>1. 0 \in A
  BY <1>0 DEF Stepwise
<1>2. ASSUME NEW j \in 0..n - 1, j \in A PROVE j + 1 \in A
  <2>1. j + 1 \in 1..n /\ (j + 1) - 1 = j /\ j + 1 \in 0..n
    BY <1>0
  <2>2. o + (j + 1) \in 1..Len(u) /\ (o + (j + 1)) - 1 = o + j
    BY <1>0, <2>1
  <2>3. T[o + (j + 1)] = StateAfter(T[o + j], u[o + (j + 1)])
    BY <2>2 DEF Stepwise
  <2>4. S[j + 1] = StateAfter(S[j], q[j + 1])
    BY <2>1 DEF Stepwise
  <2>5. u[o + (j + 1)] = q[j + 1]
    BY <2>1
  <2>6. T[o + j] = S[j]
    BY <1>2
  <2>7. T[o + (j + 1)] = S[j + 1]
    BY <2>3, <2>4, <2>5, <2>6
  <2> QED
    BY <2>1, <2>7
<1>3. \A j \in 0..n : j \in A
  <2> HIDE DEF A
  <2> QED
    BY <1>0, <1>1, <1>2, AllUpTo
<1> QED
  BY <1>3 DEF ReadsFrom

\* A text no space begins or ends, with no comment in it and all its quotes closed.
Closed(r) ==
    /\ r \in Seq(Char) /\ r # <<>> /\ r[1] # "space" /\ r[Len(r)] # "space"
    /\ \A i \in 1..Len(r) : r[i] = "hash" => Quoting(r)[i - 1] # "out"
    /\ Quoting(r)[Len(r)] = "out"

\* A comment after such a text is taken off, and leaves the text.
LEMMA CommentComesOff ==
  ASSUME NEW r, Closed(r), NEW comment \in Comments
  PROVE  TrimSpace(StripComment(r \o comment)) = r
<1> DEFINE n == Len(r)
<1>0. /\ r \in Seq(Char) /\ n \in Nat /\ n >= 1 /\ r[1] # "space" /\ r[n] # "space"
      /\ Quoting(r)[n] = "out"
      /\ \A i \in 1..n : r[i] = "hash" => Quoting(r)[i - 1] # "out"
  BY DEF Closed
<1>1. TrimSpace(r) = r
  <2>1. 1 \in 1..n /\ n \in 1..n
    BY <1>0
  <2>2. TrimSpace(r) = SubSeq(r, 1, n)
    BY <1>0, <2>1, TrimIs
  <2> QED
    BY <1>0, <2>2
<1>2. CASE comment = <<>>
  <2>1. r \o comment = r
    BY <1>0, <1>2
  <2>2. Outside(r, "hash") = {}
    BY <1>0 DEF Outside
  <2> QED
    BY <1>1, <2>1, <2>2 DEF StripComment
<1>3. CASE comment = <<"space", "hash", "quote">>
  <2> DEFINE c == <<"space", "hash", "quote">>
             text == r \o c
             T == Quoting(text)
  <2>1. c \in Seq(Char) /\ Len(c) = 3 /\ c[1] = "space" /\ c[2] = "hash" /\ c[3] = "quote"
    BY SignsAreChars
  <2> HIDE DEF c
  <2>2. /\ text \in Seq(Char) /\ Len(text) = n + 3
        /\ \A i \in 1..n : text[i] = r[i]
        /\ text[n + 1] = "space" /\ text[n + 2] = "hash" /\ text[n + 3] = "quote"
    <3>1. /\ text \in Seq(Char) /\ Len(text) = n + Len(c)
          /\ \A i \in 1..n : text[i] = r[i]
          /\ \A i \in 1..Len(c) : text[n + i] = c[i]
      BY <1>0, <2>1, JoinedText, Zenon
    <3> HIDE DEF text
    <3>2. 1 \in 1..3 /\ 2 \in 1..3 /\ 3 \in 1..3
      OBVIOUS
    <3> QED
      BY <2>1, <3>1, <3>2
  <2> HIDE DEF text
  <2>3. Stepwise(T, text) /\ Stepwise(Quoting(r), r)
    BY <1>0, <2>2, QuotingSteps
  <2>4. ASSUME NEW i \in 0..n PROVE T[i] = Quoting(r)[i]
    <3>1. \A j \in 1..n : text[0 + j] = r[j]
      BY <2>2
    <3>2. 0 \in Nat /\ 0 + n <= Len(text) /\ T[0] = "out"
      BY <1>0, <2>2, <2>3 DEF Stepwise
    <3>3. ReadsFrom(0, T, r, Quoting(r))
      BY <1>0, <2>2, <2>3, <3>1, <3>2, Shifted, Zenon
    <3>4. T[0 + i] = Quoting(r)[i]
      BY <3>3 DEF ReadsFrom
    <3> QED
      BY <3>4
  <2>5. T[n + 1] = "out"
    <3>1. n + 1 \in 1..Len(text) /\ (n + 1) - 1 = n /\ n \in 0..n
      BY <1>0, <2>2
    <3>2. T[n + 1] = StateAfter(T[n], text[n + 1])
      BY <2>3, <3>1 DEF Stepwise
    <3>3. T[n] = "out"
      BY <1>0, <2>4, <3>1
    <3> QED
      BY <2>2, <3>2, <3>3, StepsOfState
  <2>6. Outside(text, "hash") = {n + 2}
    <3>1. n + 2 \in DOMAIN text /\ (n + 2) - 1 = n + 1
      BY <1>0, <2>2
    <3>2. ASSUME NEW i \in DOMAIN text, text[i] = "hash", T[i - 1] = "out" PROVE i = n + 2
      <4>1. i \in 1..n \/ i = n + 1 \/ i = n + 2 \/ i = n + 3
        BY <1>0, <2>2
      <4>2. CASE i \in 1..n
        <5>1. i - 1 \in 0..n
          BY <4>2
        <5> QED
          BY <1>0, <2>2, <2>4, <3>2, <4>2, <5>1
      <4> QED
        BY <2>2, <3>2, <4>1, <4>2
    <3>3. Outside(text, "hash") = {i \in DOMAIN text : text[i] = "hash" /\ T[i - 1] = "out"}
      BY DEF Outside
    <3> HIDE DEF T
    <3> QED
      BY <2>2, <2>5, <3>1, <3>2, <3>3
  <2>7. First({n + 2}) = n + 2
    BY <1>0 DEF First
  <2>8. StripComment(text) = SubSeq(text, 1, n + 1)
    <3>1. (n + 2) - 1 = n + 1
      BY <1>0
    <3> QED
      BY <2>6, <2>7, <3>1 DEF StripComment
  <2> DEFINE t == SubSeq(text, 1, n + 1)
  <2>9. t \in Seq(Char) /\ Len(t) = n + 1 /\ \A i \in 1..n + 1 : t[i] = text[i]
    BY <1>0, <2>2
  <2>10. SubSeq(t, 1, n) = r
    <3> HIDE DEF t
    <3>1. SubSeq(t, 1, n) \in Seq(Char) /\ Len(SubSeq(t, 1, n)) = n
      BY <1>0, <2>9
    <3>2. \A i \in 1..n : SubSeq(t, 1, n)[i] = r[i]
      BY <1>0, <2>2, <2>9
    <3> QED
      BY <1>0, <3>1, <3>2
  <2> HIDE DEF t
  <2>11. TrimSpace(t) = SubSeq(t, 1, n)
    <3>1. 1 \in 1..Len(t) /\ n \in 1..Len(t) /\ 1 <= n /\ 1 \in 1..n /\ n \in 1..n
          /\ 1 \in 1..n + 1 /\ n \in 1..n + 1 /\ n + 1 \in 1..n + 1
      BY <1>0, <2>9
    <3>2. t[1] # "space" /\ t[n] # "space" /\ t[n + 1] = "space"
      BY <1>0, <2>2, <2>9, <3>1
    <3>3. \A i \in 1..Len(t) : i < 1 \/ n < i => t[i] = "space"
      BY <1>0, <2>9, <3>2
    <3> QED
      BY <2>9, <3>1, <3>2, <3>3, TrimIs
  <2> QED
    BY <1>3, <2>8, <2>10, <2>11, Zenon DEF text, t, c
<1> QED
  BY <1>2, <1>3 DEF Comments

\* A text in quotes, and in no place between them outside of quotes.
Enclosed(q) ==
    /\ q \in Seq(Char) /\ Len(q) >= 2 /\ q[1] = "quote" /\ q[Len(q)] = "quote"
    /\ \A i \in 1..Len(q) - 1 : Quoting(q)[i] # "out"
    /\ Quoting(q)[Len(q)] = "out"

LEMMA OneLess ==
  ASSUME NEW c \in Nat, c >= 1, NEW l, l = c + 1
  PROVE  l - 1 = c /\ l >= 2
OBVIOUS

LEMMA QuoteEncloses ==
  ASSUME NEW v \in Seq(Char)
  PROVE  Enclosed(Quote(v)) /\ Closed(Quote(v))
<1> DEFINE q == Quote(v)
           T == Quoting(q)
<1>1. PICK b : Quoted(v, q, b)
  BY QuoteIsQuoted
<1>2. q \in Seq(Char)
  BY <1>1 DEF Quoted
<1>3. Stepwise(T, q)
  BY <1>2, QuotingSteps
<1> HIDE DEF q, T
<1>4. (\A i \in 1..b[Len(v)] : T[i] # "out") /\ T[Len(q)] = "out"
  BY <1>1, <1>3, QuotedCloses
<1>5. /\ Len(q) = b[Len(v)] + 1 /\ q[1] = "quote" /\ q[Len(q)] = "quote"
      /\ b[Len(v)] \in Nat /\ b[Len(v)] >= 1
  <2>1. Len(v) \in 0..Len(v) /\ 0 \in 0..Len(v)
    OBVIOUS
  <2>2. b \in [0..Len(v) -> Nat] /\ b[Len(v)] \in 1..b[Len(v)]
    BY <1>1, <2>1, QuotedPlaces DEF Quoted
  <2> QED
    BY <1>1, <2>1, <2>2 DEF Quoted
<1>6. Enclosed(q)
  <2>1. Len(q) - 1 = b[Len(v)] /\ Len(q) >= 2
    BY <1>5, OneLess, Zenon
  <2> QED
    BY <1>2, <1>4, <1>5, <2>1 DEF Enclosed, T
<1>7. Closed(q)
  <2>1. ASSUME NEW i \in 1..Len(q), q[i] = "hash" PROVE T[i - 1] # "out"
    <3>1. i # 1
      BY <1>5, <2>1
    <3>2. i - 1 \in 1..b[Len(v)]
      BY <1>5, <3>1
    <3> QED
      BY <1>4, <3>2
  <2>2. q # <<>>
    BY <1>5
  <2> QED
    BY <1>2, <1>4, <1>5, <2>1, <2>2 DEF Closed, T
<1> QED
  BY <1>6, <1>7 DEF q

\* Three quotes do not begin a quoted string: its own are escaped.
LEMMA QuoteBegins ==
  ASSUME NEW v \in Seq(Char)
  PROVE  ~IsPrefix(<<"quote", "quote", "quote">>, Quote(v))
<1> DEFINE q == Quote(v)
           p == <<"quote", "quote", "quote">>
<1>1. PICK b : Quoted(v, q, b)
  BY QuoteIsQuoted
<1> HIDE DEF q
<1> SUFFICES ASSUME IsPrefix(p, q) PROVE FALSE
  BY DEF q
<1>2. q \in Seq(Char) /\ b[0] = 1 /\ Len(q) = b[Len(v)] + 1
  BY <1>1 DEF Quoted
<1>3. 3 <= Len(q) /\ q[2] = "quote"
  <2>1. Len(p) = 3
    OBVIOUS
  <2>2. 3 <= Len(q) /\ p = SubSeq(q, 1, 3)
    BY <1>2, <2>1 DEF IsPrefix
  <2>3. SubSeq(q, 1, 3)[2] = q[2]
    BY <1>2, <2>2
  <2>4. p[2] = "quote"
    OBVIOUS
  <2> HIDE DEF p
  <2> QED
    BY <2>2, <2>3, <2>4
<1>4. 1 \in 1..Len(v)
  <2>1. CASE Len(v) = 0
    BY <1>2, <1>3, <2>1
  <2>2. CASE Len(v) # 0
    BY <2>2
  <2> QED
    BY <2>1, <2>2
<1>5. /\ q[b[1]] = v[1]
      /\ v[1] \in {"quote", "backslash"} => b[1] = b[1 - 1] + 2 /\ q[b[1] - 1] = "backslash"
      /\ v[1] \notin {"quote", "backslash"} => b[1] = b[1 - 1] + 1
  BY <1>1, <1>4 DEF Quoted
<1>6. CASE v[1] \in {"quote", "backslash"}
  <2>1. b[1] - 1 = 2
    BY <1>2, <1>5, <1>6
  <2> QED
    BY <1>3, <1>5, <1>6, <2>1
<1>7. CASE v[1] \notin {"quote", "backslash"}
  <2>1. b[1] = 2
    BY <1>2, <1>5, <1>7
  <2> QED
    BY <1>3, <1>5, <1>7, <2>1
<1> QED
  BY <1>6, <1>7

\* What the parser makes of a line with a value and perhaps a comment.
Parsed(kind, value, comment) ==
    ParseValue(TrimSpace(StripComment(Render(kind, value) \o comment)))

LEMMA StringsReadBack ==
  ASSUME NEW v \in Seq(Char), NEW comment \in Comments
  PROVE  Parsed("string", v, comment) = [kind |-> "string", value |-> v]
<1> DEFINE q == Quote(v)
<1>1. Render("string", v) = q
  BY DEF Render
<1>2. Closed(q)
  BY QuoteEncloses
<1>3. TrimSpace(StripComment(q \o comment)) = q
  BY <1>2, CommentComesOff
<1>4. ParseBasicString(q) = [kind |-> "string", value |-> v]
  BY QuoteParses
<1>5. ~IsPrefix(<<"quote", "quote", "quote">>, q)
  BY QuoteBegins
<1>6. q # <<>> /\ q[1] = "quote"
  BY QuoteEncloses DEF Enclosed, Closed
<1> HIDE DEF q
<1>7. ParseValue(q) = ParseBasicString(q)
  BY <1>5, <1>6 DEF ParseValue
<1> QED
  BY <1>1, <1>3, <1>4, <1>7, Zenon DEF Parsed

-----------------------------------------------------------------------------
(* Arrays *)

Separator(k) == IF k = 1 THEN <<>> ELSE <<"comma", "space">>

\* u lays out the elements of a list, quoted and with separators: S[k] is where the
\* k-th one starts, after its separator, and E[k] where it ends.
Listed(list, u, S, E) ==
    /\ E \in [0..Len(list) -> Nat] /\ E[0] = 0
    /\ u \in Seq(Char) /\ Len(u) = E[Len(list)]
    /\ \A k \in 1..Len(list) :
        /\ S[k] \in Nat /\ E[k] = S[k] + Len(Quote(list[k]))
        /\ IF k = 1 THEN S[k] = 0
           ELSE S[k] = E[k - 1] + 2 /\ u[E[k - 1] + 1] = "comma" /\ u[E[k - 1] + 2] = "space"
        /\ E[k] <= E[Len(list)]
        /\ \A j \in 1..Len(Quote(list[k])) : u[S[k] + j] = Quote(list[k])[j]
    /\ \A i \in 1..Len(u) : \E k \in 1..Len(list) :
        \/ \E j \in 1..Len(Quote(list[k])) : i = S[k] + j
        \/ k # 1 /\ i \in {E[k - 1] + 1, E[k - 1] + 2}

\* Where a piece ends that is one part of l characters and then another of r.
PieceOf(a, e, l, r, end) ==
    /\ e = (a + l) + r
    /\ \A j \in 1..r : a + (l + j) = (a + l) + j
    /\ a + l \in Nat /\ e <= end

LEMMA Pieces ==
  ASSUME NEW a \in Nat, NEW e \in Nat, NEW end \in Nat, NEW l \in Nat, NEW r \in Nat,
         e = a + (l + r), e <= end
  PROVE  PieceOf(a, e, l, r, end)
BY DEF PieceOf

LEMMA Separators ==
  ASSUME NEW k
  PROVE  /\ Separator(k) \in Seq(Char)
         /\ k = 1 => Len(Separator(k)) = 0
         /\ k # 1 => Len(Separator(k)) = 2 /\ Separator(k)[1] = "comma" /\ Separator(k)[2] = "space"
BY SignsAreChars DEF Separator

LEMMA AreSequences ==
  ASSUME NEW A, NEW n \in Nat, NEW p \in [1..n -> A]
  PROVE  p \in Seq(A) /\ Len(p) = n
OBVIOUS

LEMMA TwoPieces ==
  ASSUME NEW l, l = 2, NEW r \in Nat, NEW w, w = l + r
  PROVE  1 \in 1..w /\ 2 \in 1..w /\ 1 \in 1..l /\ 2 \in 1..l
OBVIOUS

LEMMA ItemsListed ==
  ASSUME NEW list \in Seq(Seq(Char))
  PROVE  \E S, E : Listed(list, Items(list), S, E)
<1> DEFINE m == Len(list)
           p == [k \in DOMAIN list |-> (IF k = 1 THEN <<>> ELSE <<"comma", "space">>) \o Quote(list[k])]
           u == Items(list)
           q(k) == Quote(list[k])
<1>0. m \in Nat /\ DOMAIN list = 1..m /\ \A k \in 1..m : list[k] \in Seq(Char)
  OBVIOUS
<1>1. \A k \in 1..m : q(k) \in Seq(Char) /\ Len(q(k)) \in Nat
  BY <1>0, QuoteEncloses DEF Enclosed
<1>2. p = [k \in 1..m |-> Separator(k) \o q(k)]
  BY <1>0 DEF Separator
<1>3. \A k \in 1..m : /\ p[k] \in Seq(Char) /\ Len(p[k]) = Len(Separator(k)) + Len(q(k))
                      /\ Len(p[k]) \in Nat /\ Len(Separator(k)) \in Nat
                      /\ \A i \in 1..Len(Separator(k)) : p[k][i] = Separator(k)[i]
                      /\ \A i \in 1..Len(q(k)) : p[k][Len(Separator(k)) + i] = q(k)[i]
  <2> SUFFICES ASSUME NEW k \in 1..m
               PROVE  /\ p[k] \in Seq(Char) /\ Len(p[k]) = Len(Separator(k)) + Len(q(k))
                      /\ Len(p[k]) \in Nat /\ Len(Separator(k)) \in Nat
                      /\ \A i \in 1..Len(Separator(k)) : p[k][i] = Separator(k)[i]
                      /\ \A i \in 1..Len(q(k)) : p[k][Len(Separator(k)) + i] = q(k)[i]
    OBVIOUS
  <2>1. p[k] = Separator(k) \o q(k)
    BY <1>2
  <2>2. Separator(k) \in Seq(Char) /\ q(k) \in Seq(Char)
    BY <1>1, Separators
  <2> DEFINE h == Separator(k) \o q(k)
  <2> HIDE DEF p, q
  <2>3. /\ h \in Seq(Char) /\ Len(h) = Len(Separator(k)) + Len(q(k))
        /\ \A i \in 1..Len(Separator(k)) : h[i] = Separator(k)[i]
        /\ \A i \in 1..Len(q(k)) : h[Len(Separator(k)) + i] = q(k)[i]
    BY <2>2, JoinedText, Zenon
  <2>4. p[k] = h
    BY <2>1
  <2> HIDE DEF h
  <2>5. \A s \in Seq(Char) : Len(s) \in Nat
    OBVIOUS
  <2> QED
    BY <2>2, <2>3, <2>4, <2>5, Zenon
<1>4. p \in Seq(Seq(Char)) /\ Len(p) = m
  <2>1. p \in [1..m -> Seq(Char)]
    <3>1. DOMAIN p = 1..m /\ p = [k \in 1..m |-> p[k]]
      BY <1>0
    <3> HIDE DEF p
    <3> QED
      BY <1>3, <3>1
  <2> HIDE DEF p
  <2> QED
    BY <1>0, <2>1, AreSequences, Zenon
<1>5. u = FlattenSeq(p)
  BY DEF Items
<1> HIDE DEF p, u, q
<1>6. PICK E : Laid(p, m, E, u)
  BY <1>4, <1>5, FlattenLaid
<1>7. /\ E \in [0..m -> Nat] /\ E[0] = 0 /\ u \in Seq(Char) /\ Len(u) = E[m]
      /\ \A k \in 0..m : E[k] <= E[m]
      /\ \A k \in 1..m : E[k] = E[k - 1] + Len(p[k])
      /\ \A k \in 1..m : \A j \in 1..Len(p[k]) : u[E[k - 1] + j] = p[k][j]
  BY <1>6 DEF Laid
<1>8. \A i \in 1..E[m] : \E k \in 1..m : \E j \in 1..Len(p[k]) : i = E[k - 1] + j
  <2>1. \A k \in 1..m : Len(p[k]) \in Nat
    BY <1>3
  <2>2. Covered(p, m, E)
    BY <1>0, <1>6, <2>1, EveryPlace, Zenon
  <2> QED
    BY <2>2 DEF Covered
<1> DEFINE S == [k \in 1..m |-> E[k - 1] + Len(Separator(k))]
<1>9. \A k \in 1..m : S[k] = E[k - 1] + Len(Separator(k))
  OBVIOUS
<1> HIDE DEF S
<1>10. ASSUME NEW k \in 1..m
       PROVE  /\ E[k - 1] \in Nat /\ Len(Separator(k)) \in Nat /\ Len(q(k)) \in Nat
              /\ PieceOf(E[k - 1], E[k], Len(Separator(k)), Len(q(k)), E[m])
              /\ Len(p[k]) = Len(Separator(k)) + Len(q(k))
  <2>1. k \in 0..m /\ k - 1 \in 0..m /\ m \in 0..m
    BY <1>0
  <2>2. E[k] \in Nat /\ E[k - 1] \in Nat /\ E[m] \in Nat /\ E[k] <= E[m]
    BY <1>7, <2>1
  <2>3. Len(Separator(k)) \in Nat /\ Len(q(k)) \in Nat /\ Len(p[k]) = Len(Separator(k)) + Len(q(k))
    BY <1>1, <1>3
  <2>4. E[k] = E[k - 1] + (Len(Separator(k)) + Len(q(k)))
    BY <1>7, <2>3
  <2> QED
    BY <2>2, <2>3, <2>4, Pieces, Zenon
<1>11. ASSUME NEW k \in 1..m
       PROVE  /\ S[k] \in Nat /\ E[k] = S[k] + Len(q(k)) /\ E[k] <= E[m]
              /\ \A j \in 1..Len(q(k)) : u[S[k] + j] = q(k)[j]
  <2>1. S[k] \in Nat /\ E[k] = S[k] + Len(q(k)) /\ E[k] <= E[m]
    BY <1>9, <1>10, Zenon DEF PieceOf
  <2>2. ASSUME NEW j \in 1..Len(q(k)) PROVE u[S[k] + j] = q(k)[j]
    <3>1. Len(Separator(k)) + j \in 1..Len(p[k])
      <4>1. \A l \in Nat, r \in Nat : \A i \in 1..r : l + i \in 1..(l + r)
        OBVIOUS
      <4> QED
        BY <1>10, <4>1, Zenon
    <3>2. u[E[k - 1] + (Len(Separator(k)) + j)] = p[k][Len(Separator(k)) + j]
      BY <1>7, <3>1
    <3>3. E[k - 1] + (Len(Separator(k)) + j) = S[k] + j
      BY <1>9, <1>10, Zenon DEF PieceOf
    <3>4. p[k][Len(Separator(k)) + j] = q(k)[j]
      BY <1>3
    <3> QED
      BY <3>2, <3>3, <3>4, Zenon
  <2> QED
    BY <2>1, <2>2
<1>12. ASSUME NEW k \in 1..m
       PROVE  /\ k = 1 => S[k] = 0
              /\ k # 1 => /\ S[k] = E[k - 1] + 2
                          /\ u[E[k - 1] + 1] = "comma" /\ u[E[k - 1] + 2] = "space"
  <2>1. CASE k = 1
    <3>1. Len(Separator(k)) = 0 /\ E[k - 1] = 0
      BY <1>7, <2>1, Separators
    <3> QED
      BY <1>9, <2>1, <3>1
  <2>2. CASE k # 1
    <3>1. Len(Separator(k)) = 2 /\ Separator(k)[1] = "comma" /\ Separator(k)[2] = "space"
      BY <2>2, Separators
    <3>2. S[k] = E[k - 1] + 2
      BY <1>9, <3>1
    <3>3. /\ 1 \in 1..Len(p[k]) /\ 2 \in 1..Len(p[k])
          /\ 1 \in 1..Len(Separator(k)) /\ 2 \in 1..Len(Separator(k))
      BY <1>10, <3>1, TwoPieces, Zenon
    <3>4. p[k][1] = "comma" /\ p[k][2] = "space"
      <4>1. \A i \in 1..Len(Separator(k)) : p[k][i] = Separator(k)[i]
        BY <1>3
      <4> QED
        BY <3>1, <3>3, <4>1, Zenon
    <3>5. u[E[k - 1] + 1] = p[k][1] /\ u[E[k - 1] + 2] = p[k][2]
      BY <1>7, <3>3
    <3> QED
      BY <2>2, <3>2, <3>4, <3>5, Zenon
  <2> QED
    BY <2>1, <2>2
<1>13. ASSUME NEW i \in 1..E[m]
       PROVE  \E k \in 1..m : \/ \E j \in 1..Len(q(k)) : i = S[k] + j
                              \/ k # 1 /\ i \in {E[k - 1] + 1, E[k - 1] + 2}
  <2>1. PICK k \in 1..m : \E j \in 1..Len(p[k]) : i = E[k - 1] + j
    BY <1>8
  <2>2. PICK j \in 1..Len(p[k]) : i = E[k - 1] + j
    BY <2>1
  <2>3. PICK a \in Nat : a = E[k - 1]
    BY <1>10
  <2>4. PICK r \in Nat : r = Len(q(k))
    BY <1>10
  <2>5. CASE k = 1
    <3>1. Len(Separator(k)) = 0
      BY <2>5, Separators
    <3>2. S[k] = a + 0 /\ Len(p[k]) = 0 + r
      BY <1>9, <1>10, <2>3, <2>4, <3>1, Zenon
    <3>3. j \in 1..(0 + r)
      BY <2>2, <3>2, Zenon
    <3>4. j \in 1..r /\ i = S[k] + j
      BY <2>2, <2>3, <3>2, <3>3
    <3> QED
      BY <2>4, <3>4
  <2>6. CASE k # 1
    <3>1. Len(Separator(k)) = 2
      BY <2>6, Separators
    <3>2. j \in 1..(2 + r)
      BY <1>10, <2>2, <2>4, <3>1
    <3>3. S[k] = a + 2 /\ i = a + j
      BY <1>9, <2>2, <2>3, <3>1
    <3>4. i \in {a + 1, a + 2} \/ (j - 2 \in 1..r /\ i = S[k] + (j - 2))
      BY <3>2, <3>3
    <3> QED
      BY <2>3, <2>4, <2>6, <3>4
  <2> QED
    BY <2>5, <2>6
<1>14. Listed(list, u, S, E)
  BY <1>7, <1>11, <1>12, <1>13 DEF Listed, q
<1> QED
  BY <1>14 DEF u

\* Between the elements quotes are closed, and an element reads as it does alone.
ReadsApart(list, T, S, E) ==
    /\ \A k \in 0..Len(list) : T[E[k]] = "out"
    /\ \A k \in 1..Len(list) :
        /\ k # 1 => T[E[k - 1] + 1] = "out"
        /\ \A j \in 0..Len(Quote(list[k])) : T[S[k] + j] = Quoting(Quote(list[k]))[j]

\* One step after another.
LEMMA NextStates ==
  ASSUME NEW u, NEW T, Stepwise(T, u), NEW a \in Nat, a + 2 <= Len(u), Len(u) \in Nat
  PROVE  T[a + 1] = StateAfter(T[a], u[a + 1]) /\ T[a + 2] = StateAfter(T[a + 1], u[a + 2])
<1>1. a + 1 \in 1..Len(u) /\ (a + 1) - 1 = a /\ a + 2 \in 1..Len(u) /\ (a + 2) - 1 = a + 1
  OBVIOUS
<1>2. \A i \in 1..Len(u) : T[i] = StateAfter(T[i - 1], u[i])
  BY DEF Stepwise
<1>3. T[a + 1] = StateAfter(T[(a + 1) - 1], u[a + 1])
  BY <1>1, <1>2
<1>4. T[a + 2] = StateAfter(T[(a + 2) - 1], u[a + 2])
  BY <1>1, <1>2
<1> QED
  BY <1>1, <1>3, <1>4

LEMMA ListedReads ==
  ASSUME NEW list \in Seq(Seq(Char)), NEW u, NEW S, NEW E, Listed(list, u, S, E),
         NEW T, Stepwise(T, u)
  PROVE  ReadsApart(list, T, S, E)
<1> DEFINE m == Len(list)
           q(k) == Quote(list[k])
           A == {k \in 0..m : T[E[k]] = "out"}
<1>0. m \in Nat /\ \A k \in 1..m : list[k] \in Seq(Char)
  OBVIOUS
<1>1. /\ E \in [0..m -> Nat] /\ E[0] = 0 /\ u \in Seq(Char) /\ Len(u) = E[m]
      /\ \A k \in 1..m :
          /\ S[k] \in Nat /\ E[k] = S[k] + Len(q(k)) /\ E[k] <= E[m]
          /\ k = 1 => S[k] = 0
          /\ k # 1 => S[k] = E[k - 1] + 2 /\ u[E[k - 1] + 1] = "comma" /\ u[E[k - 1] + 2] = "space"
          /\ \A j \in 1..Len(q(k)) : u[S[k] + j] = q(k)[j]
  BY DEF Listed
<1>2. \A k \in 1..m : /\ q(k) \in Seq(Char) /\ Len(q(k)) \in Nat /\ Stepwise(Quoting(q(k)), q(k))
                      /\ Quoting(q(k))[Len(q(k))] = "out"
  <2> SUFFICES ASSUME NEW k \in 1..m
               PROVE  /\ q(k) \in Seq(Char) /\ Len(q(k)) \in Nat /\ Stepwise(Quoting(q(k)), q(k))
                      /\ Quoting(q(k))[Len(q(k))] = "out"
    OBVIOUS
  <2>1. Enclosed(q(k))
    BY <1>0, QuoteEncloses
  <2> HIDE DEF q
  <2>2. q(k) \in Seq(Char) /\ Quoting(q(k))[Len(q(k))] = "out"
    BY <2>1 DEF Enclosed
  <2> QED
    BY <2>2, QuotingSteps
<1> HIDE DEF q
<1>3. ASSUME NEW k \in 1..m, T[E[k - 1]] = "out"
      PROVE  /\ T[E[k]] = "out"
             /\ k # 1 => T[E[k - 1] + 1] = "out"
             /\ \A j \in 0..Len(q(k)) : T[S[k] + j] = Quoting(q(k))[j]
  <2>1. k - 1 \in 0..m /\ k \in 0..m /\ m \in 0..m
    BY <1>0
  <2>2. /\ E[k - 1] \in Nat /\ E[k] \in Nat /\ E[m] \in Nat
        /\ S[k] \in Nat /\ E[k] = S[k] + Len(q(k)) /\ E[k] <= E[m]
        /\ \A j \in 1..Len(q(k)) : u[S[k] + j] = q(k)[j]
    BY <1>1, <2>1
  <2>3. T[S[k]] = "out" /\ (k # 1 => T[E[k - 1] + 1] = "out")
    <3>1. CASE k = 1
      BY <1>1, <1>3, <3>1
    <3>2. CASE k # 1
      <4>1. S[k] = E[k - 1] + 2 /\ u[E[k - 1] + 1] = "comma" /\ u[E[k - 1] + 2] = "space"
        BY <1>1, <3>2
      <4>2. E[k - 1] + 2 <= Len(u) /\ Len(u) \in Nat
        <5>1. \A s \in Nat, r \in Nat, e \in Nat : s + r <= e => s <= e
          OBVIOUS
        <5>2. Len(q(k)) \in Nat
          BY <1>2
        <5>3. S[k] + Len(q(k)) <= E[m]
          BY <2>2, Zenon
        <5>4. S[k] <= E[m]
          BY <2>2, <5>1, <5>2, <5>3, Zenon
        <5> QED
          BY <1>1, <2>2, <4>1, <5>4, Zenon
      <4>3. /\ T[E[k - 1] + 1] = StateAfter(T[E[k - 1]], u[E[k - 1] + 1])
            /\ T[E[k - 1] + 2] = StateAfter(T[E[k - 1] + 1], u[E[k - 1] + 2])
        BY <2>2, <4>2, NextStates, Zenon
      <4>4. T[E[k - 1] + 1] = StateAfter("out", "comma")
        BY <1>3, <4>1, <4>3, Zenon
      <4>5. T[E[k - 1] + 1] = "out"
        BY <4>4, StepsOfState
      <4>6. T[E[k - 1] + 2] = StateAfter("out", "space")
        BY <4>1, <4>3, <4>5, Zenon
      <4>7. T[E[k - 1] + 2] = "out"
        BY <4>6, StepsOfState
      <4> QED
        BY <4>1, <4>5, <4>7, Zenon
    <3> QED
      BY <3>1, <3>2
  <2>4. \A j \in 0..Len(q(k)) : T[S[k] + j] = Quoting(q(k))[j]
    <3> DEFINE r == q(k)
               o == S[k]
    <3>1. /\ r \in Seq(Char) /\ Stepwise(Quoting(r), r) /\ o \in Nat /\ o + Len(r) <= Len(u)
          /\ T[o] = "out" /\ \A j \in 1..Len(r) : u[o + j] = r[j]
      BY <1>1, <1>2, <2>2, <2>3, Zenon
    <3> HIDE DEF r, o
    <3>2. u \in Seq(Char)
      BY <1>1
    <3>3. ReadsFrom(o, T, r, Quoting(r))
      BY <3>1, <3>2, Shifted, Zenon
    <3> QED
      BY <3>3 DEF ReadsFrom, r, o
  <2>5. T[E[k]] = "out"
    <3>1. Len(q(k)) \in 0..Len(q(k)) /\ Quoting(q(k))[Len(q(k))] = "out"
      BY <1>2
    <3> QED
      BY <2>2, <2>4, <3>1, Zenon
  <2> QED
    BY <2>3, <2>4, <2>5
<1>4. 0 \in A
  BY <1>0, <1>1 DEF Stepwise
<1>5. ASSUME NEW k \in 0..m - 1, k \in A PROVE k + 1 \in A
  <2>1. k + 1 \in 1..m /\ (k + 1) - 1 = k /\ k + 1 \in 0..m
    BY <1>0
  <2>2. T[E[(k + 1) - 1]] = "out"
    BY <1>5, <2>1
  <2> QED
    BY <1>3, <2>1, <2>2
<1>6. \A k \in 0..m : k \in A
  <2> HIDE DEF A
  <2> QED
    BY <1>0, <1>4, <1>5, AllUpTo
<1>7. \A k \in 1..m : T[E[k - 1]] = "out"
  <2>1. \A k \in 1..m : k - 1 \in 0..m
    BY <1>0
  <2> QED
    BY <1>6, <2>1
<1> QED
  BY <1>3, <1>6, <1>7 DEF ReadsApart, q

\* The commas outside of the elements are those between them, and nothing outside of
\* them begins a comment.
LEMMA ListedCommas ==
  ASSUME NEW list \in Seq(Seq(Char)), NEW u, NEW S, NEW E, Listed(list, u, S, E)
  PROVE  /\ Outside(u, "comma") = {E[k] + 1 : k \in 1..Len(list) - 1}
         /\ Outside(u, "hash") = {}
<1> DEFINE m == Len(list)
           q(k) == Quote(list[k])
           T == Quoting(u)
<1>0. m \in Nat /\ \A k \in 1..m : list[k] \in Seq(Char)
  OBVIOUS
<1>1. /\ E \in [0..m -> Nat] /\ E[0] = 0 /\ u \in Seq(Char) /\ Len(u) = E[m]
      /\ \A k \in 1..m :
          /\ S[k] \in Nat /\ E[k] = S[k] + Len(q(k)) /\ E[k] <= E[m]
          /\ k # 1 => S[k] = E[k - 1] + 2 /\ u[E[k - 1] + 1] = "comma" /\ u[E[k - 1] + 2] = "space"
          /\ \A j \in 1..Len(q(k)) : u[S[k] + j] = q(k)[j]
      /\ \A i \in 1..Len(u) : \E k \in 1..m :
          \/ \E j \in 1..Len(q(k)) : i = S[k] + j
          \/ k # 1 /\ i \in {E[k - 1] + 1, E[k - 1] + 2}
  BY DEF Listed
<1>2. Stepwise(T, u)
  BY <1>1, QuotingSteps
<1>3. /\ \A k \in 0..m : T[E[k]] = "out"
      /\ \A k \in 1..m : /\ k # 1 => T[E[k - 1] + 1] = "out"
                         /\ \A j \in 0..Len(q(k)) : T[S[k] + j] = Quoting(q(k))[j]
  BY <1>2, ListedReads DEF ReadsApart
<1>4. \A k \in 1..m : /\ q(k)[1] = "quote" /\ Len(q(k)) \in Nat
                      /\ \A j \in 1..Len(q(k)) - 1 : Quoting(q(k))[j] # "out"
  BY <1>0, QuoteEncloses DEF Enclosed
<1> HIDE DEF q, T
\* Inside an element only its first quote is outside of quotes.
<1>5. ASSUME NEW i \in 1..Len(u), T[i - 1] = "out"
      PROVE  \/ u[i] = "quote"
             \/ \E k \in 1..m : /\ k # 1
                                /\ \/ i = E[k - 1] + 1 /\ u[i] = "comma"
                                   \/ i = E[k - 1] + 2 /\ u[i] = "space"
  <2>1. PICK k \in 1..m : \/ \E j \in 1..Len(q(k)) : i = S[k] + j
                          \/ k # 1 /\ i \in {E[k - 1] + 1, E[k - 1] + 2}
    BY <1>1
  <2>2. CASE \E j \in 1..Len(q(k)) : i = S[k] + j
    <3>1. PICK j \in 1..Len(q(k)) : i = S[k] + j
      BY <2>2
    <3>2. u[i] = q(k)[j]
      BY <1>1, <3>1
    <3>3. CASE j = 1
      BY <1>4, <3>2, <3>3
    <3>4. CASE j # 1
      <4>1. \A l \in Nat, s \in Nat : \A x \in 1..l : x # 1 => /\ x - 1 \in 0..l /\ x - 1 \in 1..l - 1
                                                              /\ (s + x) - 1 = s + (x - 1)
        OBVIOUS
      <4>2. /\ j - 1 \in 0..Len(q(k)) /\ j - 1 \in 1..Len(q(k)) - 1
            /\ (S[k] + j) - 1 = S[k] + (j - 1)
        BY <1>1, <1>4, <3>4, <4>1, Zenon
      <4>3. T[S[k] + (j - 1)] = Quoting(q(k))[j - 1]
        BY <1>3, <4>2, Zenon
      <4>4. Quoting(q(k))[j - 1] # "out"
        BY <1>4, <4>2, Zenon
      <4> QED
        BY <1>5, <3>1, <4>2, <4>3, <4>4, Zenon
    <3> QED
      BY <3>3, <3>4
  <2>3. CASE k # 1 /\ i \in {E[k - 1] + 1, E[k - 1] + 2}
    BY <1>1, <2>3
  <2> QED
    BY <2>1, <2>2, <2>3
<1>6. Outside(u, "hash") = {}
  <2> SUFFICES ASSUME NEW i \in Outside(u, "hash") PROVE FALSE
    OBVIOUS
  <2>1. i \in 1..Len(u) /\ u[i] = "hash" /\ T[i - 1] = "out"
    BY <1>1 DEF Outside, T
  <2> QED
    BY <1>5, <2>1
<1>7. \A i \in Outside(u, "comma") : i \in {E[k] + 1 : k \in 1..m - 1}
  <2> SUFFICES ASSUME NEW i \in Outside(u, "comma") PROVE i \in {E[k] + 1 : k \in 1..m - 1}
    OBVIOUS
  <2>1. i \in 1..Len(u) /\ u[i] = "comma" /\ T[i - 1] = "out"
    BY <1>1 DEF Outside, T
  <2>2. PICK k \in 1..m : k # 1 /\ i = E[k - 1] + 1
    BY <1>5, <2>1
  <2>3. k - 1 \in 1..m - 1
    BY <1>0, <2>2
  <2> QED
    BY <2>2, <2>3
<1>8. \A k \in 1..m - 1 : E[k] + 1 \in Outside(u, "comma")
  <2> SUFFICES ASSUME NEW k \in 1..m - 1 PROVE E[k] + 1 \in Outside(u, "comma")
    OBVIOUS
  <2>1. k + 1 \in 1..m /\ (k + 1) - 1 = k /\ k + 1 # 1 /\ k \in 0..m /\ m \in 0..m
    BY <1>0
  <2>2. u[E[k] + 1] = "comma" /\ S[k + 1] = E[k] + 2 /\ S[k + 1] \in Nat
        /\ E[k + 1] = S[k + 1] + Len(q(k + 1)) /\ E[k + 1] <= E[m]
    BY <1>1, <2>1
  <2>3. Len(q(k + 1)) \in Nat /\ E[k] \in Nat /\ E[m] \in Nat
    BY <1>1, <1>4, <2>1
  <2>4. T[E[k]] = "out"
    BY <1>3, <2>1
  <2>5. E[k] + 1 \in 1..E[m] /\ (E[k] + 1) - 1 = E[k]
    <3>1. \A a \in Nat, l \in Nat, e \in Nat : (a + 2) + l <= e => a + 1 \in 1..e /\ (a + 1) - 1 = a
      OBVIOUS
    <3>2. (E[k] + 2) + Len(q(k + 1)) <= E[m]
      BY <2>2, Zenon
    <3> QED
      BY <2>3, <3>1, <3>2, Zenon
  <2>6. E[k] + 1 \in DOMAIN u
    BY <1>1, <2>5
  <2> QED
    BY <2>2, <2>4, <2>5, <2>6 DEF Outside, T
<1>9. Outside(u, "comma") = {E[k] + 1 : k \in 1..m - 1}
  BY <1>7, <1>8
<1> QED
  BY <1>6, <1>9

\* An element is what stays of its part of the text, with a space before it or not.
TrimsTo(u, s, e, q) ==
    /\ TrimSpace(SubSeq(u, s + 1, e)) = q
    /\ s # 0 /\ u[s] = "space" => TrimSpace(SubSeq(u, s, e)) = q

LEMMA PartTrims ==
  ASSUME NEW u \in Seq(Char), NEW q, Enclosed(q), NEW s \in Nat, NEW e, e = s + Len(q),
         e <= Len(u), \A j \in 1..Len(q) : u[s + j] = q[j]
  PROVE  TrimsTo(u, s, e, q)
<1> DEFINE n == Len(q)
<1>0. q \in Seq(Char) /\ n \in Nat /\ n >= 2 /\ q[1] = "quote" /\ q[n] = "quote" /\ Len(u) \in Nat
  BY DEF Enclosed
<1>1. 1 \in 1..n /\ n \in 1..n /\ 1 <= n
  BY <1>0
<1>2. SubSeq(q, 1, n) = q
  BY <1>0
<1>3. TrimSpace(q) = q
  <2>1. \A i \in 1..n : i < 1 \/ n < i => q[i] = "space"
    BY <1>0
  <2>2. TrimSpace(q) = SubSeq(q, 1, n)
    BY <1>0, <1>1, <2>1, TrimIs
  <2> QED
    BY <1>2, <2>2
<1>4. SubSeq(u, s + 1, e) = q
  <2> DEFINE t == SubSeq(u, s + 1, e)
  <2>1. t \in Seq(Char) /\ Len(t) = n /\ \A j \in 1..n : t[j] = u[s + j]
    BY <1>0
  <2> HIDE DEF t
  <2>2. \A j \in 1..n : t[j] = q[j]
    BY <2>1
  <2>3. t = q
    BY <1>0, <2>1, <2>2, SameText, Zenon
  <2> QED
    BY <2>3 DEF t
<1>5. ASSUME s # 0, u[s] = "space" PROVE TrimSpace(SubSeq(u, s, e)) = q
  <2> DEFINE t == SubSeq(u, s, e)
  <2>1. t \in Seq(Char) /\ Len(t) = n + 1 /\ \A j \in 1..n + 1 : t[j] = u[s + (j - 1)]
    BY <1>0, <1>5
  <2> HIDE DEF t
  <2>2. t[1] = "space"
    <3>1. 1 \in 1..n + 1 /\ s + (1 - 1) = s
      BY <1>0
    <3>2. t[1] = u[s + (1 - 1)]
      BY <2>1, <3>1
    <3> QED
      BY <1>5, <3>1, <3>2
  <2>3. ASSUME NEW j \in 1..n PROVE t[j + 1] = q[j]
    <3>1. j + 1 \in 1..n + 1 /\ (j + 1) - 1 = j
      BY <1>0
    <3>2. t[j + 1] = u[s + ((j + 1) - 1)]
      BY <2>1, <3>1
    <3> QED
      BY <3>1, <3>2
  <2>4. TrimSpace(t) = SubSeq(t, 2, n + 1)
    <3>1. 2 \in 1..Len(t) /\ n + 1 \in 1..Len(t) /\ 2 <= n + 1 /\ 1 + 1 = 2
      BY <1>0, <2>1
    <3>2. t[2] # "space"
      BY <1>0, <1>1, <2>3, <3>1
    <3>3. t[n + 1] # "space"
      BY <1>0, <1>1, <2>3
    <3>4. \A i \in 1..Len(t) : i < 2 \/ n + 1 < i => t[i] = "space"
      BY <1>0, <2>1, <2>2
    <3> QED
      BY <2>1, <3>1, <3>2, <3>3, <3>4, TrimIs
  <2>5. SubSeq(t, 2, n + 1) = q
    <3> DEFINE w == SubSeq(t, 2, n + 1)
    <3>1. w \in Seq(Char) /\ Len(w) = n /\ \A j \in 1..n : w[j] = t[j + 1]
      BY <1>0, <2>1
    <3> HIDE DEF w
    <3>2. \A j \in 1..n : w[j] = q[j]
      BY <2>3, <3>1
    <3>3. w = q
      BY <1>0, <3>1, <3>2, SameText, Zenon
    <3> QED
      BY <3>3 DEF w
  <2> QED
    BY <2>4, <2>5 DEF t
<1> QED
  BY <1>3, <1>4, <1>5 DEF TrimsTo

\* The parts of a text at positions in order.
InOrder(S, m, e) ==
    /\ e \in [1..m -> Nat] /\ S = {e[k] : k \in 1..m}
    /\ \A k, l \in 1..m : k < l => e[k] < e[l]

PartsBetween(parts, text, m, e) ==
    parts = [k \in 1..m |-> SubSeq(text, IF k = 1 THEN 1 ELSE e[k - 1] + 1, e[k] - 1)]

LEMMA PartsAre ==
  ASSUME NEW text, NEW S, NEW m \in Nat, NEW e, InOrder(S \cup {Len(text) + 1}, m, e)
  PROVE  PartsBetween(PartsAt(text, S), text, m, e)
<1>1. /\ e \in [1..m -> Nat] /\ S \cup {Len(text) + 1} = {e[k] : k \in 1..m}
      /\ \A k, l \in 1..m : k < l => e[k] < e[l]
  BY DEF InOrder
<1>2. Ascending({e[k] : k \in 1..m}) = e
  BY <1>1, AscendingIs
<1>3. Ascending(S \cup {Len(text) + 1}) = e
  BY <1>1, <1>2, Zenon
<1>4. DOMAIN e = 1..m
  BY <1>1
<1> QED
  BY <1>3, <1>4 DEF PartsAt, PartsBetween

LEMMA ListedEnds ==
  ASSUME NEW list \in Seq(Seq(Char)), NEW u, NEW S, NEW E, Listed(list, u, S, E)
  PROVE  \A k, l \in 0..Len(list) : k < l => E[k] < E[l]
<1> DEFINE m == Len(list)
           q(k) == Quote(list[k])
<1>0. m \in Nat /\ \A k \in 1..m : list[k] \in Seq(Char)
  OBVIOUS
<1>1. /\ E \in [0..m -> Nat] /\ E[0] = 0
      /\ \A k \in 1..m : /\ S[k] \in Nat /\ E[k] = S[k] + Len(q(k))
                         /\ IF k = 1 THEN S[k] = 0 ELSE S[k] = E[k - 1] + 2
  BY DEF Listed
<1>2. \A k \in 1..m : Len(q(k)) \in Nat /\ Len(q(k)) >= 2
  BY <1>0, QuoteEncloses DEF Enclosed
<1> HIDE DEF q
<1>3. ASSUME NEW k \in 1..m PROVE E[k - 1] < E[k]
  <2>1. k - 1 \in 0..m /\ k \in 0..m
    BY <1>0
  <2>2. E[k - 1] \in Nat /\ E[k] \in Nat /\ S[k] \in Nat /\ E[k] = S[k] + Len(q(k))
    BY <1>1, <2>1
  <2>3. E[k - 1] <= S[k]
    <3>1. CASE k = 1
      BY <1>1, <3>1
    <3>2. CASE k # 1
      BY <1>1, <2>2, <3>2
    <3> QED
      BY <3>1, <3>2
  <2>4. \A a \in Nat, s \in Nat, l \in Nat : a <= s /\ l >= 2 => a < s + l
    OBVIOUS
  <2>5. E[k - 1] < S[k] + Len(q(k))
    BY <1>2, <2>2, <2>3, <2>4, Zenon
  <2> QED
    BY <2>2, <2>5, Zenon
<1> QED
  BY <1>0, <1>1, <1>3, Increasing, Zenon

\* The parser splits an array that is not empty into its elements.
LEMMA ItemsSplit ==
  ASSUME NEW list \in Seq(Seq(Char)), list # <<>>, NEW u, NEW S, NEW E, Listed(list, u, S, E)
  PROVE  /\ DOMAIN SplitTopLevel(u) = 1..Len(list)
         /\ \A k \in 1..Len(list) : TrimSpace(SplitTopLevel(u)[k]) = Quote(list[k])
<1> DEFINE m == Len(list)
           q(k) == Quote(list[k])
           e == [k \in 1..m |-> E[k] + 1]
           parts == PartsAt(u, Outside(u, "comma"))
<1>0. m \in Nat /\ m >= 1 /\ \A k \in 1..m : list[k] \in Seq(Char)
  OBVIOUS
<1>1. /\ E \in [0..m -> Nat] /\ E[0] = 0 /\ u \in Seq(Char) /\ Len(u) = E[m]
      /\ \A k \in 1..m :
          /\ S[k] \in Nat /\ E[k] = S[k] + Len(q(k)) /\ E[k] <= E[m]
          /\ k = 1 => S[k] = 0
          /\ k # 1 => S[k] = E[k - 1] + 2 /\ u[E[k - 1] + 2] = "space"
          /\ \A j \in 1..Len(q(k)) : u[S[k] + j] = q(k)[j]
  BY DEF Listed
<1>2. \A k \in 1..m : Enclosed(q(k))
  BY <1>0, QuoteEncloses
<1> HIDE DEF q
<1>3. e \in [1..m -> Nat] /\ \A k \in 1..m : e[k] = E[k] + 1
  BY <1>1
<1>4. \A k, l \in 1..m : k < l => e[k] < e[l]
  <2> SUFFICES ASSUME NEW k \in 1..m, NEW l \in 1..m, k < l PROVE e[k] < e[l]
    OBVIOUS
  <2>1. k \in 0..m /\ l \in 0..m
    OBVIOUS
  <2>2. E[k] < E[l] /\ E[k] \in Nat /\ E[l] \in Nat
    BY <1>1, <2>1, ListedEnds
  <2>3. \A a \in Nat, b \in Nat : a < b => a + 1 < b + 1
    OBVIOUS
  <2> QED
    BY <1>3, <2>2, <2>3, Zenon
<1> HIDE DEF e
<1>5. Outside(u, "comma") \cup {Len(u) + 1} = {e[k] : k \in 1..m}
  <2>1. Outside(u, "comma") = {E[k] + 1 : k \in 1..m - 1}
    BY ListedCommas
  <2>2. 1..m = (1..m - 1) \cup {m}
    BY <1>0
  <2>3. {E[k] + 1 : k \in 1..m - 1} \cup {E[m] + 1} = {E[k] + 1 : k \in 1..m}
    BY <2>2
  <2>4. {e[k] : k \in 1..m} = {E[k] + 1 : k \in 1..m}
    BY <1>3
  <2> QED
    BY <1>1, <2>1, <2>3, <2>4
<1>6. parts = [k \in 1..m |-> SubSeq(u, IF k = 1 THEN 1 ELSE e[k - 1] + 1, e[k] - 1)]
  <2>1. InOrder(Outside(u, "comma") \cup {Len(u) + 1}, m, e)
    BY <1>3, <1>4, <1>5 DEF InOrder
  <2>2. PartsBetween(parts, u, m, e)
    BY <1>0, <2>1, PartsAre, Zenon
  <2> QED
    BY <2>2, Zenon DEF PartsBetween
<1> HIDE DEF parts
<1>7. ASSUME NEW k \in 1..m PROVE TrimSpace(parts[k]) = q(k)
  <2>1. parts[k] = SubSeq(u, IF k = 1 THEN 1 ELSE e[k - 1] + 1, e[k] - 1)
    BY <1>6
  <2>2. k \in 0..m /\ k - 1 \in 0..m
    BY <1>0
  <2>3. E[k] \in Nat /\ e[k] - 1 = E[k]
    BY <1>1, <1>3, <2>2
  <2>4. /\ TrimSpace(SubSeq(u, S[k] + 1, E[k])) = q(k)
        /\ S[k] # 0 /\ u[S[k]] = "space" => TrimSpace(SubSeq(u, S[k], E[k])) = q(k)
    <3>1. /\ S[k] \in Nat /\ E[k] = S[k] + Len(q(k)) /\ E[k] <= Len(u)
          /\ \A j \in 1..Len(q(k)) : u[S[k] + j] = q(k)[j]
      BY <1>1
    <3>2. u \in Seq(Char) /\ Enclosed(q(k))
      BY <1>1, <1>2
    <3>3. TrimsTo(u, S[k], E[k], q(k))
      BY <3>1, <3>2, PartTrims, Zenon
    <3> QED
      BY <3>3, Zenon DEF TrimsTo
  <2>5. CASE k = 1
    <3>1. S[k] + 1 = 1
      BY <1>1, <2>5
    <3>2. parts[k] = SubSeq(u, S[k] + 1, E[k])
      BY <2>1, <2>3, <2>5, <3>1, Zenon
    <3> QED
      BY <2>4, <3>2, Zenon
  <2>6. CASE k # 1
    <3>1. k - 1 \in 1..m
      BY <2>6
    <3>2. S[k] = E[k - 1] + 2 /\ u[E[k - 1] + 2] = "space" /\ E[k - 1] \in Nat
      BY <1>1, <2>2, <2>6
    <3>3. e[k - 1] + 1 = S[k] /\ S[k] # 0
      <4>1. \A a \in Nat : (a + 1) + 1 = a + 2 /\ a + 2 # 0
        OBVIOUS
      <4> QED
        BY <1>3, <3>1, <3>2, <4>1, Zenon
    <3>4. parts[k] = SubSeq(u, S[k], E[k])
      BY <2>1, <2>3, <2>6, <3>3, Zenon
    <3> QED
      BY <2>4, <3>2, <3>3, <3>4, Zenon
  <2> QED
    BY <2>5, <2>6
<1>8. SplitTopLevel(u) = parts
  <2>1. Len(parts) = m
    BY <1>0, <1>6
  <2>2. m \in 1..m
    BY <1>0
  <2>3. TrimSpace(Last(parts)) = q(m)
    BY <1>7, <2>1, <2>2 DEF Last
  <2>4. q(m) # <<>>
    BY <1>2, <2>2 DEF Enclosed
  <2>5. SplitTopLevel(u) = IF TrimSpace(Last(parts)) = <<>> THEN Front(parts) ELSE parts
    BY DEF SplitTopLevel, parts
  <2> QED
    BY <2>3, <2>4, <2>5
<1>9. DOMAIN parts = 1..m
  BY <1>6
<1> QED
  BY <1>7, <1>8, <1>9 DEF q

LEMMA ListCloses ==
  ASSUME NEW list \in Seq(Seq(Char)), NEW r, Bracketed(r, "opening", Items(list), "closing")
  PROVE  Closed(r) /\ SubSeq(r, 2, Len(r) - 1) = Items(list)
<1> DEFINE u == Items(list)
           n == Len(u)
           T == Quoting(r)
<1>1. PICK S, E : Listed(list, u, S, E)
  BY ItemsListed
<1>2. u \in Seq(Char) /\ n = E[Len(list)]
  BY <1>1 DEF Listed
<1>3. /\ r \in Seq(Char) /\ Len(r) = n + 2
      /\ r[1] = "opening" /\ r[n + 2] = "closing"
      /\ \A i \in 1..n : r[1 + i] = u[i]
  BY DEF Bracketed
<1>4. /\ Quoting(u)[n] = "out"
      /\ \A i \in 1..n : u[i] = "hash" => Quoting(u)[i - 1] # "out"
  <2>1. Stepwise(Quoting(u), u)
    BY <1>2, QuotingSteps
  <2> HIDE DEF u
  <2>2. ReadsApart(list, Quoting(u), S, E)
    BY <1>1, <2>1, ListedReads
  <2>3. Len(list) \in 0..Len(list)
    OBVIOUS
  <2>4. Quoting(u)[n] = "out"
    BY <1>2, <2>2, <2>3 DEF ReadsApart
  <2>5. Outside(u, "hash") = {}
    BY <1>1, ListedCommas
  <2>6. DOMAIN u = 1..n
    BY <1>2
  <2>7. \A i \in 1..n : u[i] = "hash" => Quoting(u)[i - 1] # "out"
    BY <2>5, <2>6 DEF Outside
  <2> QED
    BY <2>4, <2>7
<1> HIDE DEF u
<1>5. n \in Nat
  BY <1>2
<1>6. Stepwise(T, r) /\ Stepwise(Quoting(u), u)
  BY <1>2, <1>3, QuotingSteps
<1>7. T[1] = "out"
  <2>1. 1 \in 1..Len(r) /\ 1 - 1 = 0
    BY <1>3, <1>5
  <2>2. T[1] = StateAfter(T[1 - 1], r[1])
    BY <1>6, <2>1 DEF Stepwise
  <2>3. T[0] = "out"
    BY <1>6 DEF Stepwise
  <2>4. T[1] = StateAfter("out", "opening")
    BY <1>3, <2>1, <2>2, <2>3
  <2> QED
    BY <2>4, StepsOfState
<1> HIDE DEF T
<1>8. \A j \in 0..n : T[1 + j] = Quoting(u)[j]
  <2>1. 1 \in Nat /\ 1 + n <= Len(r)
    BY <1>3, <1>5
  <2>2. ReadsFrom(1, T, u, Quoting(u))
    BY <1>2, <1>3, <1>6, <1>7, <2>1, Shifted, Zenon
  <2> QED
    BY <2>2 DEF ReadsFrom
<1>9. T[n + 2] = "out"
  <2>1. n + 2 \in 1..Len(r) /\ (n + 2) - 1 = 1 + n /\ n \in 0..n
    BY <1>3, <1>5
  <2>2. T[n + 2] = StateAfter(T[1 + n], r[n + 2])
    BY <1>6, <2>1 DEF Stepwise
  <2>3. T[n + 2] = StateAfter("out", "closing")
    BY <1>3, <1>4, <1>8, <2>1, <2>2
  <2> QED
    BY <2>3, StepsOfState
<1>10. ASSUME NEW i \in 1..Len(r), r[i] = "hash" PROVE T[i - 1] # "out"
  <2>1. i # 1 /\ i # n + 2
    BY <1>3, <1>10
  <2>2. i - 1 \in 1..n /\ 1 + (i - 1) = i /\ (i - 1) - 1 \in 0..n /\ 1 + ((i - 1) - 1) = i - 1
    BY <1>3, <1>5, <2>1
  <2>3. u[i - 1] = "hash"
    BY <1>3, <1>10, <2>2
  <2>4. Quoting(u)[(i - 1) - 1] # "out"
    BY <1>4, <2>2, <2>3, Zenon
  <2> QED
    BY <1>8, <2>2, <2>4
<1>11. Closed(r)
  <2>1. r # <<>>
    BY <1>3, <1>5
  <2> QED
    BY <1>3, <1>9, <1>10, <2>1 DEF Closed, T
<1>12. SubSeq(r, 2, Len(r) - 1) = u
  <2> DEFINE w == SubSeq(r, 2, Len(r) - 1)
  <2>1. w \in Seq(Char) /\ Len(w) = n /\ \A j \in 1..n : w[j] = r[1 + j]
    BY <1>3, <1>5
  <2> HIDE DEF w
  <2>2. \A j \in 1..n : w[j] = u[j]
    BY <1>3, <2>1
  <2>3. w = u
    BY <1>2, <2>1, <2>2, SameText, Zenon
  <2> QED
    BY <2>3 DEF w
<1> QED
  BY <1>11, <1>12 DEF u

\* Without elements there are no parts.
LEMMA EmptySplit == SplitTopLevel(TrimSpace(Items(<<>>))) = <<>>
<1> DEFINE parts == PartsAt(<<>>, {})
           e == [k \in 1..1 |-> 1]
<1>1. Items(<<>>) = <<>>
  <2>1. FlattenSeq(<<>>) = <<>>
    BY DEF FlattenSeq
  <2>2. [k \in DOMAIN <<>> |-> (IF k = 1 THEN <<>> ELSE <<"comma", "space">>) \o Quote(<<>>[k])] = <<>>
    OBVIOUS
  <2> QED
    BY <2>1, <2>2 DEF Items
<1>2. TrimSpace(<<>>) = <<>>
  <2>1. {i \in DOMAIN <<>> : <<>>[i] # "space"} = {}
    OBVIOUS
  <2> QED
    BY <2>1 DEF TrimSpace
<1>3. Outside(<<>>, "comma") = {}
  <2>1. DOMAIN <<>> = {}
    OBVIOUS
  <2> QED
    BY <2>1 DEF Outside
<1>4. parts = [k \in 1..1 |-> SubSeq(<<>>, IF k = 1 THEN 1 ELSE e[k - 1] + 1, e[k] - 1)]
  <2>1. Len(<<>>) + 1 = 1 /\ {} \cup {1} = {e[k] : k \in 1..1}
    OBVIOUS
  <2>2. e \in [1..1 -> Nat] /\ \A k, l \in 1..1 : k < l => e[k] < e[l]
    OBVIOUS
  <2> HIDE DEF e
  <2>3. InOrder({} \cup {Len(<<>>) + 1}, 1, e)
    BY <2>1, <2>2 DEF InOrder
  <2>4. PartsBetween(parts, <<>>, 1, e)
    BY <2>3, PartsAre
  <2> QED
    BY <2>4 DEF PartsBetween
<1>5. Len(parts) = 1 /\ parts[1] = <<>>
  <2>1. parts[1] = SubSeq(<<>>, 1, e[1] - 1) /\ Len(parts) = 1
    <3> HIDE DEF e
    <3> QED
      BY <1>4
  <2>2. e[1] - 1 = 0
    OBVIOUS
  <2>3. SubSeq(<<>>, 1, 0) = <<>>
    OBVIOUS
  <2> QED
    BY <2>1, <2>2, <2>3
<1>6. Front(parts) = <<>>
  <2>1. parts \in [1..1 -> {<<>>}]
    <3> HIDE DEF parts
    <3> QED
      BY <1>4, <1>5
  <2> HIDE DEF parts
  <2>2. parts \in Seq({<<>>})
    BY <2>1, AreSequences, Zenon
  <2>3. SubSeq(parts, 1, 1 - 1) = <<>>
    BY <2>2
  <2> QED
    BY <1>5, <2>3 DEF Front
<1>7. SplitTopLevel(<<>>) = IF TrimSpace(Last(parts)) = <<>> THEN Front(parts) ELSE parts
  BY <1>3 DEF SplitTopLevel
<1>8. TrimSpace(Last(parts)) = <<>>
  BY <1>2, <1>5 DEF Last
<1> QED
  BY <1>1, <1>2, <1>6, <1>7, <1>8

\* The parts of what is between the brackets are the elements.
LEMMA ListSplit ==
  ASSUME NEW list \in Seq(Seq(Char))
  PROVE  /\ DOMAIN SplitTopLevel(TrimSpace(Items(list))) = DOMAIN list
         /\ \A k \in DOMAIN list :
                TrimSpace(SplitTopLevel(TrimSpace(Items(list)))[k]) = Quote(list[k])
<1> DEFINE m == Len(list)
           u == Items(list)
<1>1. CASE list = <<>>
  BY <1>1, EmptySplit
<1>2. CASE list # <<>>
  <2>0. m \in Nat /\ m >= 1 /\ DOMAIN list = 1..m /\ 1 \in 1..m /\ m \in 1..m
        /\ list[1] \in Seq(Char) /\ list[m] \in Seq(Char)
    BY <1>2
  <2>1. PICK S, E : Listed(list, u, S, E)
    BY ItemsListed
  <2> HIDE DEF u
  <2>2. TrimSpace(u) = u
    <3> DEFINE n == Len(u)
    <3>1. Enclosed(Quote(list[1])) /\ Enclosed(Quote(list[m]))
      BY <2>0, QuoteEncloses
    <3>2. PICK q : q = Quote(list[1])
      OBVIOUS
    <3>3. PICK w : w = Quote(list[m])
      OBVIOUS
    <3>4. q[1] = "quote" /\ Len(q) \in Nat /\ Len(q) >= 2
      BY <3>1, <3>2 DEF Enclosed
    <3>5. w[Len(w)] = "quote" /\ Len(w) \in Nat /\ Len(w) >= 2
      BY <3>1, <3>3 DEF Enclosed
    <3>6. /\ u \in Seq(Char) /\ n = E[m] /\ n \in Nat
          /\ S[1] = 0 /\ \A j \in 1..Len(q) : u[S[1] + j] = q[j]
          /\ S[m] \in Nat /\ E[m] = S[m] + Len(w) /\ \A j \in 1..Len(w) : u[S[m] + j] = w[j]
      BY <2>0, <2>1, <3>2, <3>3 DEF Listed
    <3>7. u[1] = "quote"
      <4>1. 1 \in 1..Len(q) /\ 0 + 1 = 1
        BY <3>4
      <4>2. u[0 + 1] = q[1]
        BY <3>6, <4>1
      <4> QED
        BY <3>4, <4>1, <4>2, Zenon
    <3>8. u[n] = "quote" /\ n >= 1
      <4>1. Len(w) \in 1..Len(w)
        BY <3>5
      <4>2. u[S[m] + Len(w)] = w[Len(w)]
        BY <3>6, <4>1
      <4>3. \A s \in Nat, l \in Nat : l >= 2 => s + l >= 1
        OBVIOUS
      <4> HIDE DEF n
      <4> QED
        BY <3>5, <3>6, <4>2, <4>3, Zenon
    <3>9. 1 \in 1..n /\ n \in 1..n /\ 1 <= n /\ SubSeq(u, 1, n) = u
          /\ \A i \in 1..n : i < 1 \/ n < i => u[i] = "space"
      BY <3>6, <3>8
    <3>10. TrimSpace(u) = SubSeq(u, 1, n)
      BY <3>6, <3>7, <3>8, <3>9, TrimIs
    <3> QED
      BY <3>9, <3>10
  <2>3. /\ DOMAIN SplitTopLevel(u) = 1..m
        /\ \A k \in 1..m : TrimSpace(SplitTopLevel(u)[k]) = Quote(list[k])
    BY <1>2, <2>1, ItemsSplit
  <2> QED
    BY <2>0, <2>2, <2>3 DEF u
<1> QED
  BY <1>1, <1>2

LEMMA ListsReadBack ==
  ASSUME NEW list \in Seq(Seq(Char)), NEW comment \in Comments
  PROVE  Parsed("list", list, comment) = [kind |-> "list", value |-> list]
<1> DEFINE u == Items(list)
           r == <<"opening">> \o u \o <<"closing">>
           parts == SplitTopLevel(TrimSpace(SubSeq(r, 2, Len(r) - 1)))
           element(k) == TrimSpace(parts[k])
<1>1. Render("list", list) = r
  BY DEF Render
<1>2. u \in Seq(Char)
  <2>1. PICK S, E : Listed(list, u, S, E)
    BY ItemsListed
  <2> QED
    BY <2>1 DEF Listed
<1>3. Bracketed(r, "opening", u, "closing")
  <2>1. "opening" \in Char /\ "closing" \in Char
    BY SignsAreChars
  <2> QED
    BY <1>2, <2>1, InBrackets
<1> HIDE DEF r
<1>4. Closed(r) /\ SubSeq(r, 2, Len(r) - 1) = u
  BY <1>3, ListCloses
<1>5. TrimSpace(StripComment(r \o comment)) = r
  BY <1>4, CommentComesOff
<1>6. DOMAIN parts = DOMAIN list /\ \A k \in DOMAIN list : element(k) = Quote(list[k])
  BY <1>4, ListSplit
<1>7. r # <<>> /\ r[1] = "opening" /\ Last(r) = "closing"
  BY <1>2, <1>3 DEF Bracketed, Last
<1> HIDE DEF parts, u
<1>8. ASSUME NEW k \in DOMAIN list
      PROVE  /\ element(k) # <<>> /\ element(k)[1] = "quote"
             /\ ParseBasicString(element(k)) = [kind |-> "string", value |-> list[k]]
  <2>1. list[k] \in Seq(Char)
    OBVIOUS
  <2>2. element(k) = Quote(list[k])
    BY <1>6
  <2>3. Quote(list[k]) # <<>> /\ Quote(list[k])[1] = "quote"
    BY <2>1, QuoteEncloses DEF Enclosed, Closed
  <2>4. ParseBasicString(Quote(list[k])) = [kind |-> "string", value |-> list[k]]
    BY <2>1, QuoteParses
  <2> HIDE DEF element
  <2> QED
    BY <2>2, <2>3, <2>4
<1>9. ParseStringArray(r) =
          IF Last(r) # "closing" \/ \E k \in DOMAIN parts :
                 \/ element(k) = <<>> \/ element(k)[1] # "quote"
                 \/ ParseBasicString(element(k)).kind = "error"
          THEN Error
          ELSE [kind |-> "list",
                value |-> [k \in DOMAIN parts |-> ParseBasicString(element(k)).value]]
  BY DEF ParseStringArray, parts
<1>10. ~\E k \in DOMAIN parts : \/ element(k) = <<>> \/ element(k)[1] # "quote"
                                \/ ParseBasicString(element(k)).kind = "error"
  <2> HIDE DEF element
  <2> QED
    BY <1>6, <1>8
<1>11. [k \in DOMAIN parts |-> ParseBasicString(element(k)).value] = list
  <2> HIDE DEF element
  <2>1. \A k \in DOMAIN list : ParseBasicString(element(k)).value = list[k]
    BY <1>8
  <2>2. list = [k \in DOMAIN list |-> list[k]]
    OBVIOUS
  <2> QED
    BY <1>6, <2>1, <2>2
<1>12. ParseStringArray(r) = [kind |-> "list", value |-> list]
  <2> HIDE DEF element
  <2> QED
    BY <1>7, <1>9, <1>10, <1>11, Zenon
<1>13. ParseValue(r) = ParseStringArray(r)
  <2>1. ~IsPrefix(<<"quote", "quote", "quote">>, r)
    <3> DEFINE p == <<"quote", "quote", "quote">>
    <3> SUFFICES ASSUME IsPrefix(p, r) PROVE FALSE
      OBVIOUS
    <3>1. Len(p) = 3 /\ p[1] = "quote"
      OBVIOUS
    <3>2. r \in Seq(Char)
      BY <1>4 DEF Closed
    <3>3. 3 <= Len(r) /\ p = SubSeq(r, 1, 3)
      BY <3>1, <3>2 DEF IsPrefix
    <3> HIDE DEF p
    <3>4. SubSeq(r, 1, 3)[1] = r[1]
      BY <3>2, <3>3
    <3> QED
      BY <1>7, <3>1, <3>3, <3>4
  <2> QED
    BY <1>7, <2>1 DEF ParseValue
<1> QED
  BY <1>1, <1>5, <1>12, <1>13, Zenon DEF Parsed

\* The words of a file.
LEMMA WordCloses ==
  ASSUME NEW w \in Words
  PROVE  Closed(<<w>>)
<1>1. w \in Char
  BY Chars
<1>2. <<w>> \in Seq(Char) /\ Len(<<w>>) = 1 /\ <<w>>[1] = w /\ w \notin {"space", "hash", "quote"}
  BY <1>1 DEF Words
<1>3. Stepwise(Quoting(<<w>>), <<w>>)
  BY <1>2, QuotingSteps
<1> DEFINE r == <<w>>
<1> HIDE DEF r
<1>4. Quoting(r)[1] = "out"
  <2>1. 1 \in 1..Len(r) /\ 1 - 1 = 0
    BY <1>2 DEF r
  <2>2. Quoting(r)[0] = "out" /\ Quoting(r)[1] = StateAfter(Quoting(r)[1 - 1], r[1])
    BY <1>3, <2>1 DEF Stepwise, r
  <2>3. Quoting(r)[1] = StateAfter("out", w)
    BY <1>2, <2>1, <2>2 DEF r
  <2> QED
    BY <1>2, <2>3, StepsOfState
<1>5. \A i \in 1..Len(r) : r[i] # "hash"
  BY <1>2 DEF r
<1>6. r # <<>>
  BY DEF r
<1>7. Closed(r)
  <2>1. r \in Seq(Char) /\ Len(r) = 1 /\ r[1] # "space"
    BY <1>2 DEF r
  <2> QED
    BY <1>4, <1>5, <1>6, <2>1 DEF Closed
<1> QED
  BY <1>7 DEF r

LEMMA WordsReadBack ==
  ASSUME NEW kind \in {"bool", "int"}, NEW value \in CanWrite(kind), NEW comment \in Comments
  PROVE  Parsed(kind, value, comment) = [kind |-> kind, value |-> value]
<1>1. PICK w \in Words : value = <<w>>
  BY DEF CanWrite, Words
<1>2. Render(kind, value) = value
  BY DEF Render
<1>3. TrimSpace(StripComment(value \o comment)) = value
  BY <1>1, WordCloses, CommentComesOff
<1>4. ~IsPrefix(<<"quote", "quote", "quote">>, value)
  <2>1. Len(<<"quote", "quote", "quote">>) = 3 /\ Len(value) = 1
    BY <1>1
  <2> QED
    BY <2>1 DEF IsPrefix
<1>5. value # <<>> /\ value[1] # "quote" /\ value[1] # "opening"
  BY <1>1 DEF Words
<1>6. ParseValue(value) = [kind |-> kind, value |-> value]
  <2>1. kind = "bool" => value \in {<<"true">>, <<"false">>}
    BY DEF CanWrite
  <2>2. kind = "int" => value = <<"7">> /\ value \notin {<<"true">>, <<"false">>}
    BY DEF CanWrite
  <2> QED
    BY <1>4, <1>5, <2>1, <2>2 DEF ParseValue
<1> QED
  BY <1>2, <1>3, <1>6 DEF Parsed

LEMMA TextsOf ==
  ASSUME NEW A, NEW B, A \subseteq B
  PROVE  Seq(A) \subseteq Seq(B) /\ <<>> \in Seq(B)
OBVIOUS

LEMMA WrittenTexts ==
    /\ CanWrite("string") \subseteq Seq(Char)
    /\ CanWrite("list") \subseteq Seq(Seq(Char))
<1>1. Seq(STRING) \subseteq Seq(Char) /\ <<>> \in Seq(Char)
  BY Chars, TextsOf, Zenon
<1>2. Seq(Seq(STRING)) \subseteq Seq(Seq(Char)) /\ <<>> \in Seq(Seq(Char))
  BY <1>1, TextsOf, Zenon
<1>3. CanWrite("string") = Strings \cup {<<>>} /\ CanWrite("list") = Lists \cup {<<>>}
  BY DEF CanWrite
<1> QED
  BY <1>1, <1>2, <1>3, SettingsAssumption, Zenon

\* The parser makes of every line what its author meant by it, a comment or not.
ReadsBack ==
    \A kind \in FileKinds : \A value \in CanWrite(kind), comment \in Comments :
        Parsed(kind, value, comment) = [kind |-> kind, value |-> value]

\* Whatever texts are written in the file as a string or in an array, with quotes,
\* backslashes, commas, brackets, spaces and "#" in any places of them, and with a
\* comment after them or not, stripComment, splitTopLevel and parseBasicString give
\* back those texts.
THEOREM FilesReadBack == ReadsBack
<1>1. ASSUME NEW value \in CanWrite("string"), NEW comment \in Comments
      PROVE  Parsed("string", value, comment) = [kind |-> "string", value |-> value]
  BY WrittenTexts, StringsReadBack
<1>2. ASSUME NEW value \in CanWrite("list"), NEW comment \in Comments
      PROVE  Parsed("list", value, comment) = [kind |-> "list", value |-> value]
  BY WrittenTexts, ListsReadBack
<1> QED
  BY <1>1, <1>2, WordsReadBack DEF ReadsBack, FileKinds

-----------------------------------------------------------------------------
(* From the file to the configuration *)

Entry == [section : Names, key : Keys \cup {"root"}, kind : FileKinds,
          value : UNION {CanWrite(kind) : kind \in FileKinds}]

AllWritten == {written[i] : i \in DOMAIN written}

\* What the file alone makes of a setting.
FileValue(key) ==
    IF WrittenFor(key) = {} THEN Default[key] ELSE written[First(WrittenFor(key))].value

Lines ==
    /\ written \in Seq(Entry)
    /\ section \in Names \cup {"none"}
    /\ DOMAIN conf = DOMAIN KindOf

\* Until the file is applied, what was read of it is what was written, each key
\* once in its section.
BeingRead ==
    /\ phase \in {"start", "reading"} => conf = Default /\ doc = AllWritten
    /\ phase = "start" => written = <<>> /\ headers = {}
    /\ phase = "reading" =>
        \A i, j \in DOMAIN written :
            written[i].section = written[j].section /\ written[i].key = written[j].key => i = j

AllKnown ==
    /\ headers \subseteq DOMAIN Schema
    /\ \A i \in DOMAIN written :
        /\ Fits(written[i])
        /\ \A j \in DOMAIN written : written[j].key = written[i].key => j = i

\* After that every line of it is a setting, and has its effect unless a flag wins.
IsApplied ==
    /\ phase \in {"applied", "merged", "serving"} => AllKnown
    /\ phase = "applied" => \A key \in DOMAIN KindOf : conf[key] = FileValue(key)
    /\ phase \in {"merged", "serving"} =>
        \A key \in DOMAIN KindOf :
            conf[key] = IF key \in DOMAIN given THEN FlagValue(key, given[key]) ELSE FileValue(key)

FInv == Lines /\ BeingRead /\ IsApplied

LEMMA Initially_F ==
  ASSUME CInit
  PROVE  FInv
<1>1. AllWritten = {} /\ written = <<>>
  BY DEF CInit, AllWritten
<1>2. <<>> \in Seq(Entry)
  OBVIOUS
<1> QED
  BY <1>1, <1>2, DefaultKeys DEF CInit, FInv, Lines, BeingRead, IsApplied

LEMMA Refuse_F ==
  ASSUME FInv, Refuse
  PROVE  FInv'
<1>1. <<>> \in Seq(Entry)
  OBVIOUS
<1> QED
  BY <1>1, DefaultKeys DEF Refuse, FInv, Lines, BeingRead, IsApplied

LEMMA Open_F ==
  ASSUME FInv, NEW explicit, NEW exists, Open(explicit, exists)
  PROVE  FInv'
<1>1. /\ phase = "start" /\ phase' \in {"reading", "applied", "refused"}
      /\ UNCHANGED <<section, headers, doc, written, given, conf>>
  BY DEF Open, fileVars
<1>2. Lines'
  BY <1>1 DEF FInv, Lines
<1>3. BeingRead'
  BY <1>1 DEF FInv, BeingRead, AllWritten
<1>4. IsApplied'
  <2>1. written = <<>> /\ headers = {} /\ conf = Default
    BY <1>1 DEF FInv, BeingRead
  <2>2. AllKnown'
    BY <1>1, <2>1 DEF AllKnown
  <2>3. \A key : WrittenFor(key)' = {}
    BY <1>1, <2>1 DEF WrittenFor
  <2> QED
    BY <1>1, <2>1, <2>2, <2>3 DEF IsApplied, FileValue
<1> QED
  BY <1>2, <1>3, <1>4 DEF FInv

LEMMA Header_F ==
  ASSUME FInv, NEW name \in Names, Header(name)
  PROVE  FInv'
<1>1. /\ phase = "reading" /\ section' = name
      /\ UNCHANGED <<phase, doc, written, given, conf>>
  BY DEF Header
<1> QED
  BY <1>1 DEF FInv, Lines, BeingRead, AllWritten, IsApplied

LEMMA AppendedEntries ==
  ASSUME NEW s, s \in Seq(Entry), NEW e \in Entry
  PROVE  /\ Append(s, e) \in Seq(Entry)
         /\ DOMAIN Append(s, e) = DOMAIN s \cup {Len(s) + 1}
         /\ Append(s, e)[Len(s) + 1] = e
         /\ \A i \in DOMAIN s : Append(s, e)[i] = s[i] /\ i # Len(s) + 1
OBVIOUS

LEMMA Pair_F ==
  ASSUME FInv, NEW key \in Keys \cup {"root"}, NEW kind \in FileKinds,
         NEW value \in Values(key, kind), NEW comment \in Comments,
         Pair(key, kind, value, comment)
  PROVE  FInv'
<1>1. value \in CanWrite(kind)
  BY ValuesCanBeWritten
<1> DEFINE parsed == Parsed(kind, value, comment)
           e == [section |-> section, key |-> key, kind |-> kind, value |-> value]
<1>2. parsed = [kind |-> kind, value |-> value]
  BY <1>1, FilesReadBack DEF ReadsBack
<1>3. CASE Refuse
  BY <1>3, Refuse_F
<1>4. CASE ~Refuse
  <2>1. /\ phase = "reading" /\ section # "none" /\ ~Duplicate(key) /\ parsed.kind # "error"
        /\ doc' = {x \in doc : x.section # section \/ x.key # key} \cup
                      {[section |-> section, key |-> key, kind |-> parsed.kind,
                        value |-> parsed.value]}
        /\ written' = Append(written, e)
        /\ UNCHANGED <<phase, section, headers, given, conf>>
    BY <1>4 DEF Pair, Parsed
  <2>2. parsed.kind = kind /\ parsed.value = value
    BY <1>2
  <2>3. {x \in doc : x.section # section \/ x.key # key} = doc
    BY <2>1 DEF Duplicate
  <2>4. doc' = doc \cup {e}
    BY <2>1, <2>2, <2>3
  <2> HIDE DEF parsed
  <2>5. e \in Entry
    BY <1>1, <2>1 DEF FInv, Lines, Entry
  <2>6. e.section = section /\ e.key = key
    OBVIOUS
  <2> HIDE DEF e
  <2>7. written \in Seq(Entry)
    BY DEF FInv, Lines
  <2>8. /\ written' \in Seq(Entry)
        /\ DOMAIN written' = DOMAIN written \cup {Len(written) + 1}
        /\ written'[Len(written) + 1] = e
        /\ \A i \in DOMAIN written : written'[i] = written[i] /\ i # Len(written) + 1
    BY <2>1, <2>5, <2>7, AppendedEntries
  <2>9. Lines'
    BY <2>1, <2>8 DEF FInv, Lines
  <2>10. doc = AllWritten /\ conf = Default
    BY <2>1 DEF FInv, BeingRead
  <2>11. AllWritten' = AllWritten \cup {e}
    BY <2>8 DEF AllWritten
  <2>12. \A i \in DOMAIN written : written[i].section # section \/ written[i].key # key
    BY <2>1, <2>10 DEF Duplicate, AllWritten
  <2>13. ASSUME NEW i \in DOMAIN written', NEW j \in DOMAIN written',
                written'[i].section = written'[j].section, written'[i].key = written'[j].key
         PROVE  i = j
    <3>1. CASE i \in DOMAIN written /\ j \in DOMAIN written
      BY <3>1, <2>1, <2>8, <2>13 DEF FInv, BeingRead
    <3>2. CASE i = Len(written) + 1 /\ j \in DOMAIN written
      BY <3>2, <2>6, <2>8, <2>12, <2>13
    <3>3. CASE j = Len(written) + 1 /\ i \in DOMAIN written
      BY <3>3, <2>6, <2>8, <2>12, <2>13
    <3> QED
      BY <3>1, <3>2, <3>3, <2>8
  <2>14. BeingRead'
    BY <2>1, <2>4, <2>10, <2>11, <2>13 DEF BeingRead
  <2>15. IsApplied'
    BY <2>1 DEF IsApplied
  <2> QED
    BY <2>9, <2>14, <2>15 DEF FInv
<1> QED
  BY <1>3, <1>4

\* Two lines for one key would have to be in one section.
LEMMA OneLinePerKey ==
  ASSUME FInv, phase = "reading", \A x \in doc : Fits(x)
  PROVE  \A i \in DOMAIN written :
            /\ Fits(written[i])
            /\ \A j \in DOMAIN written : written[j].key = written[i].key => j = i
<1> SUFFICES ASSUME NEW i \in DOMAIN written
             PROVE  /\ Fits(written[i])
                    /\ \A j \in DOMAIN written : written[j].key = written[i].key => j = i
  OBVIOUS
<1>1. \A j \in DOMAIN written : Fits(written[j])
  BY DEF FInv, BeingRead, AllWritten
<1>2. ASSUME NEW j \in DOMAIN written, written[j].key = written[i].key
      PROVE  j = i
  <2>1. Known(written[i]) /\ Known(written[j])
    BY <1>1 DEF Fits
  <2>2. written[i].section = written[j].section
    BY <1>2, <2>1, SchemaKeys DEF Known
  <2> QED
    BY <1>2, <2>2 DEF FInv, BeingRead
<1> QED
  BY <1>1, <1>2

LEMMA Apply_F ==
  ASSUME FInv, Apply
  PROVE  FInv'
<1>1. CASE Refuse
  BY <1>1, Refuse_F
<1>2. CASE ~Refuse
  <2>1. /\ phase = "reading" /\ phase' = "applied"
        /\ headers \subseteq DOMAIN Schema /\ \A x \in doc : Fits(x)
        /\ section' = "none" /\ UNCHANGED <<headers, written, given>>
    BY <1>2 DEF Apply
  <2>2. conf' = [key \in DOMAIN conf |->
                    LET lines == {x \in doc : x.key = key}
                    IN  IF lines = {} THEN conf[key] ELSE (CHOOSE x \in lines : TRUE).value]
    BY <1>2 DEF Apply
  <2>3. AllKnown
    BY <2>1, OneLinePerKey DEF AllKnown
  <2>4. AllKnown'
    BY <2>1, <2>3 DEF AllKnown, Fits, Known
  <2>5. conf = Default /\ doc = AllWritten
    BY <2>1 DEF FInv, BeingRead
  <2>6. ASSUME NEW key \in DOMAIN KindOf
        PROVE  conf'[key] = FileValue(key)
    <3> DEFINE lines == {x \in doc : x.key = key}
    <3>1. conf'[key] = IF lines = {} THEN Default[key] ELSE (CHOOSE x \in lines : TRUE).value
      BY <2>2, <2>5 DEF FInv, Lines
    <3>2. CASE WrittenFor(key) = {}
      <4>1. lines = {}
        BY <3>2, <2>5 DEF WrittenFor, AllWritten
      <4> HIDE DEF lines
      <4> QED
        BY <3>1, <3>2, <4>1 DEF FileValue
    <3>3. CASE WrittenFor(key) # {}
      <4>1. PICK i \in DOMAIN written : written[i].key = key
        BY <3>3 DEF WrittenFor
      <4>2. WrittenFor(key) = {i}
        BY <2>3, <4>1 DEF WrittenFor, AllKnown
      <4>3. lines = {written[i]}
        BY <2>3, <2>5, <4>1 DEF AllWritten, AllKnown
      <4>4. First({i}) = i
        <5>1. i \in Nat
          BY <4>1 DEF FInv, Lines
        <5>2. {i} \subseteq Nat /\ \A j \in {i} : i <= j
          BY <5>1
        <5> QED
          BY <5>2, FirstIs, SMT
      <4>5. (CHOOSE x \in {written[i]} : TRUE) = written[i]
        OBVIOUS
      <4> HIDE DEF lines
      <4> QED
        BY <3>1, <3>3, <4>2, <4>3, <4>4, <4>5 DEF FileValue
    <3> QED
      BY <3>2, <3>3
  <2>7. \A key : FileValue(key)' = FileValue(key)
    BY <2>1 DEF FileValue, WrittenFor
  <2>8. Lines'
    BY <2>1, <2>2 DEF FInv, Lines
  <2>9. BeingRead'
    BY <2>1 DEF BeingRead
  <2>10. IsApplied'
    BY <2>1, <2>4, <2>6, <2>7 DEF IsApplied
  <2> QED
    BY <2>8, <2>9, <2>10 DEF FInv
<1> QED
  BY <1>1, <1>2

LEMMA Merge_F ==
  ASSUME FInv, NEW flags, Merge(flags)
  PROVE  FInv'
<1>1. /\ phase = "applied" /\ phase' = "merged" /\ given' = flags
      /\ UNCHANGED <<section, headers, doc, written>>
  BY DEF Merge, fileVars
<1>2. conf' = [key \in DOMAIN conf |->
                  IF key \in DOMAIN flags THEN FlagValue(key, flags[key]) ELSE conf[key]]
  BY DEF Merge
<1>3. \A key : FileValue(key)' = FileValue(key)
  BY <1>1 DEF FileValue, WrittenFor
<1>4. AllKnown'
  BY <1>1 DEF FInv, IsApplied, AllKnown, Fits, Known
<1>5. Lines'
  BY <1>1, <1>2 DEF FInv, Lines
<1>6. ASSUME NEW key \in DOMAIN KindOf
      PROVE  conf'[key] = IF key \in DOMAIN given' THEN FlagValue(key, given'[key])
                          ELSE FileValue(key)
  BY <1>1, <1>2 DEF FInv, Lines, IsApplied
<1>7. IsApplied'
  BY <1>1, <1>3, <1>4, <1>6 DEF IsApplied
<1> QED
  BY <1>1, <1>5, <1>7 DEF FInv, BeingRead

LEMMA ToToolConfig_F ==
  ASSUME FInv, ToToolConfig
  PROVE  FInv'
<1>1. CASE Refuse
  BY <1>1, Refuse_F
<1>2. CASE ~Refuse
  <2>1. /\ phase = "merged" /\ phase' = "serving"
        /\ UNCHANGED <<section, headers, doc, written, given, conf>>
    BY <1>2 DEF ToToolConfig, fileVars
  <2>2. \A key : FileValue(key)' = FileValue(key)
    BY <2>1 DEF FileValue, WrittenFor
  <2>3. AllKnown'
    BY <2>1 DEF FInv, IsApplied, AllKnown, Fits, Known
  <2>4. IsApplied'
    BY <2>1, <2>2, <2>3 DEF FInv, IsApplied
  <2> QED
    BY <2>1, <2>4 DEF FInv, Lines, BeingRead
<1> QED
  BY <1>1, <1>2

LEMMA Pages_F ==
  ASSUME FInv, AttachPages \/ OnPages
  PROVE  FInv'
<1>1. CASE AttachPages
  <2>1. <<>> \in Seq(Entry)
    OBVIOUS
  <2> QED
    BY <1>1, <2>1, DefaultKeys DEF AttachPages, FInv, Lines, BeingRead, IsApplied
<1>2. CASE OnPages
  <2>1. phase = "attached" /\ UNCHANGED <<phase, section, headers, doc, written, given, conf>>
    BY <1>2 DEF OnPages, confVars, fileVars
  <2> QED
    BY <2>1 DEF FInv, Lines, BeingRead, IsApplied
<1> QED
  BY <1>1, <1>2

LEMMA Unchanged_F ==
  ASSUME FInv, UNCHANGED allVars
  PROVE  FInv'
<1>1. UNCHANGED <<phase, section, headers, doc, written, given, conf>>
  BY DEF allVars, confVars, fileVars
<1>2. \A key : FileValue(key)' = FileValue(key)
  BY <1>1 DEF FileValue, WrittenFor
<1>3. AllKnown' <=> AllKnown
  BY <1>1 DEF AllKnown, Fits, Known
<1>4. Lines'
  BY <1>1 DEF FInv, Lines
<1>5. BeingRead'
  BY <1>1 DEF FInv, BeingRead, AllWritten
<1>6. IsApplied'
  BY <1>1, <1>2, <1>3 DEF FInv, IsApplied
<1> QED
  BY <1>4, <1>5, <1>6 DEF FInv

-----------------------------------------------------------------------------
(* One profile *)

\* What serves has been judged.
Accepted ==
    /\ DOMAIN conf = DOMAIN KindOf
    /\ phase = "serving" => ~Contradiction

LEMMA Refuse_A ==
  ASSUME Refuse
  PROVE  Accepted'
BY DefaultKeys DEF Refuse, Accepted

LEMMA Keeps_A ==
  ASSUME Accepted, [CNext]_allVars
  PROVE  Accepted'
<1>1. CASE UNCHANGED allVars
  BY <1>1 DEF allVars, confVars, Accepted, Contradiction, SetNow
<1>2. ASSUME NEW explicit, NEW exists, Open(explicit, exists)
      PROVE  Accepted'
  BY <1>2 DEF Open, Accepted
<1>3. ASSUME NEW name, Header(name)
      PROVE  Accepted'
  BY <1>3 DEF Header, Accepted
<1>4. ASSUME NEW key, NEW kind, NEW value, NEW comment, Pair(key, kind, value, comment)
      PROVE  Accepted'
  <2>1. CASE Refuse
    BY <2>1, Refuse_A
  <2>2. CASE ~Refuse
    <3>1. phase = "reading" /\ UNCHANGED <<phase, conf>>
      BY <1>4, <2>2 DEF Pair
    <3> QED
      BY <3>1 DEF Accepted
  <2> QED
    BY <2>1, <2>2
<1>5. CASE Unsupported
  BY <1>5, Refuse_A DEF Unsupported
<1>6. CASE Apply
  <2>1. CASE Refuse
    BY <2>1, Refuse_A
  <2>2. CASE ~Refuse
    BY <1>6, <2>2 DEF Apply, Accepted
  <2> QED
    BY <2>1, <2>2
<1>7. ASSUME NEW flags, Merge(flags)
      PROVE  Accepted'
  BY <1>7 DEF Merge, Accepted
<1>8. CASE ToToolConfig
  <2>1. CASE Refuse
    BY <2>1, Refuse_A
  <2>2. CASE ~Refuse
    <3>1. ~Contradiction /\ phase' = "serving" /\ UNCHANGED conf
      BY <1>8, <2>2 DEF ToToolConfig
    <3> QED
      BY <3>1 DEF Accepted, Contradiction, SetNow
  <2> QED
    BY <2>1, <2>2
<1>9. CASE AttachPages
  BY <1>9, DefaultKeys DEF AttachPages, Accepted
<1>10. CASE OnPages
  BY <1>10 DEF OnPages, confVars, Accepted
<1> QED
  BY <1>1, <1>2, <1>3, <1>4, <1>5, <1>6, <1>7, <1>8, <1>9, <1>10 DEF CNext

LEMMA AcceptedHasOneProfile ==
  ASSUME Accepted
  PROVE  OneProfile
<1> SUFFICES ASSUME phase = "serving",
                    NEW k \in {"attach", "profile", "user_data_dir"},
                    NEW l \in {"attach", "profile", "user_data_dir"},
                    conf[k] # <<>>, conf[l] # <<>>
             PROVE  k = l
  BY DEF OneProfile
<1>1. k \in SetNow /\ l \in SetNow
  BY DefaultKeys DEF SetNow
<1>2. ~Contradiction
  BY DEF Accepted
<1> QED
  BY <1>1, <1>2 DEF Contradiction

\* A server that starts has one browser profile to use, whatever is written.
THEOREM OneProfileServed == CSpec => []OneProfile
<1>1. CInit => Accepted
  BY DefaultKeys DEF CInit, Accepted
<1> QED
  BY <1>1, Keeps_A, AcceptedHasOneProfile, PTL DEF CSpec

-----------------------------------------------------------------------------

LEMMA Keeps_F ==
  ASSUME FInv, [CNext]_allVars
  PROVE  FInv'
<1>1. CASE \E explicit \in BOOLEAN, exists \in BOOLEAN : Open(explicit, exists)
  BY <1>1, Open_F
<1>2. CASE \E name \in Names : Header(name)
  BY <1>2, Header_F
<1>3. CASE \E key \in Keys \cup {"root"}, kind \in {"string", "list", "bool", "int"} :
               \E value \in Values(key, kind), comment \in Comments : Pair(key, kind, value, comment)
  BY <1>3, Pair_F DEF FileKinds
<1>4. CASE Unsupported
  BY <1>4, Refuse_F DEF Unsupported
<1>5. CASE Apply
  BY <1>5, Apply_F
<1>6. CASE \E flags \in Flags : Merge(flags)
  BY <1>6, Merge_F
<1>7. CASE ToToolConfig
  BY <1>7, ToToolConfig_F
<1>8. CASE AttachPages \/ OnPages
  BY <1>8, Pages_F
<1>9. CASE UNCHANGED allVars
  BY <1>9, Unchanged_F
<1> QED
  BY <1>1, <1>2, <1>3, <1>4, <1>5, <1>6, <1>7, <1>8, <1>9 DEF CNext

LEMMA FileIsServed ==
  ASSUME FInv
  PROVE  ServedAsWritten /\ NothingIgnored
BY DEF FInv, Lines, IsApplied, AllKnown, FileValue, ServedAsWritten, NothingIgnored

\* A server that starts runs with what its operator wrote, all of it, and nothing
\* that contradicts itself (buildConfig).
THEOREM SettingsAreServed == CSpec => []StartsAsConfigured
<1>1. CInit => FInv
  BY Initially_F
<1>2. FInv /\ [CNext]_allVars => FInv'
  BY Keeps_F
<1>3. FInv => ServedAsWritten /\ NothingIgnored
  BY FileIsServed
<1>4. ServedAsWritten /\ NothingIgnored /\ OneProfile => StartsAsConfigured
  BY DEF StartsAsConfigured
<1> QED
  BY <1>1, <1>2, <1>3, <1>4, OneProfileServed, PTL DEF CSpec

-----------------------------------------------------------------------------
(* The server *)

(* The lifecycle *)

\* Nothing of a launch is left, but for the profile of one that found no pipe.
Gone(g) == g \notin Living /\ (dir[g] = "made" => g \in noPipe)

\* Launches are made one after the other.
OneByOne ==
    \A g \in Launches :
        /\ g > launch => proc[g] = "none" /\ dir[g] = "none"
        /\ g < launch => Gone(g)

\* What is left of the latest launch depends on where the main goroutine is.
Latest ==
    launch \in Launches =>
        /\ pc \in {"profile", "end"} \/ (pc = "idle" /\ ~client) => Gone(launch)
        /\ pc = "pipe" => proc[launch] = "none" /\ dir[launch] # "removed"

\* Where the main goroutine can be.
Phases ==
    /\ pc # "idle" => ~client
    /\ ending => ~client /\ pc \in {"ask", "hangup", "close", "end"}
    /\ pc \in {"ask", "hangup", "end"} => ending
    /\ process = "exited" => pc = "end"
    /\ pc = "profile" => launch < MaxLaunches
    /\ mode = "attach" =>
        launch = 0 /\ ~asked /\ pc \in {"idle", "dial", "ask", "hangup", "end"}
    /\ mode # "attach" /\ (client \/ pc \in {"pipe", "await", "dial", "ask", "hangup", "close"}) =>
        launch \in Launches

\* The inductive invariant of the lifecycle.
LInv == LTypeOK /\ OneByOne /\ Latest /\ Phases /\ RemovedAfterExit

LEMMA InitiallyL ==
  ASSUME LInit
  PROVE  LInv
<1>1. LTypeOK
  <2>1. launch \in 0..MaxLaunches /\ background \in 0..MaxBackground
    BY LifecycleAssumption DEF LInit
  <2> QED
    BY <2>1 DEF LInit, LTypeOK
<1>2. OneByOne /\ Latest /\ Phases /\ RemovedAfterExit
  BY DEF LInit, OneByOne, Latest, Phases, RemovedAfterExit, Launches
<1> QED
  BY <1>1, <1>2 DEF LInv

LEMMA Keeps_Next ==
  ASSUME LInv, LNext
  PROVE  LInv'
<1> USE LifecycleAssumption
    DEF LInv, LTypeOK, OneByOne, Latest, Phases, RemovedAfterExit, Gone, Living, Launches,
        connVars, launchVars, At, Go
<1>1. CASE BeginConnect
  BY <1>1 DEF BeginConnect
<1>2. CASE ConnectFails
  BY <1>2 DEF ConnectFails
<1>3. CASE MakeProfile
  BY <1>3 DEF MakeProfile
<1>4. CASE PipeFails
  BY <1>4 DEF PipeFails
<1>5. CASE StartFails
  BY <1>5 DEF StartFails, RemoveDir
<1>6. CASE StartChrome
  BY <1>6 DEF StartChrome
<1>7. CASE EndpointSeen
  BY <1>7 DEF EndpointSeen
<1>8. CASE NoEndpoint
  BY <1>8 DEF NoEndpoint, Kill, RemoveDir
<1>9. CASE Dial
  BY <1>9 DEF Dial
<1>10. CASE DialFails
  BY <1>10 DEF DialFails, CloseIt
<1>11. CASE Exited
  BY <1>11 DEF Exited, MayRemove, RemoveDir, After
<1>12. CASE GracePasses
  BY <1>12 DEF GracePasses, Kill
<1>13. CASE AskToClose
  BY <1>13 DEF AskToClose, Launched
<1>14. CASE HangUp
  BY <1>14 DEF HangUp, ThenClose
<1>15. CASE Exit
  BY <1>15 DEF Exit
<1>16. CASE BeginShutdown
  BY <1>16 DEF BeginShutdown
<1>17. CASE EventArrives
  BY <1>17 DEF EventArrives
<1>18. CASE BackgroundCalls
  BY <1>18 DEF BackgroundCalls
<1>19. ASSUME NEW g \in Launches, ChromeComesUp(g) PROVE LInv'
  BY <1>19 DEF ChromeComesUp
<1>20. ASSUME NEW g \in Launches, ChromeExits(g) PROVE LInv'
  BY <1>20 DEF ChromeExits
<1>21. CASE AttachedExits
  BY <1>21 DEF AttachedExits
<1> QED
  BY <1>1, <1>2, <1>3, <1>4, <1>5, <1>6, <1>7, <1>8, <1>9, <1>10, <1>11, <1>12, <1>13, <1>14,
     <1>15, <1>16, <1>17, <1>18, <1>19, <1>20, <1>21
     DEF LNext, Main

\* A process that dies, whenever it is, changes nothing else.
Dies ==
    /\ process # "exited" /\ process' = "crashed"
    /\ UNCHANGED <<mode, pc, connVars, launchVars, background, asked, ending>>

LEMMA Keeps_Dies ==
  ASSUME LInv, Dies
  PROVE  LInv'
BY DEF Dies, LInv, LTypeOK, OneByOne, Latest, Phases, RemovedAfterExit, Gone, Living, Launches,
      connVars, launchVars, At, Go

LEMMA Keeps_L ==
  ASSUME LInv, UNCHANGED lifeVars
  PROVE  LInv'
BY DEF lifeVars, LInv, LTypeOK, OneByOne, Latest, Phases, RemovedAfterExit, Gone, Living,
   Launches,
      connVars, launchVars, At, Go

-----------------------------------------------------------------------------
(* The server *)

\* What is owed while a line is being handled is at most its answer.
AtMostOneDue ==
    /\ serve \in {"reading", "stopped"} => out = due
    /\ serve \in {"handling", "connecting", "calling"} =>
        due = IF Owes(line.kind, line.id) THEN Append(out, line.id) ELSE out
    /\ serve \in {"connecting", "calling"} => Owes(line.kind, line.id)

SInv == LInv /\ STypeOK /\ AtMostOneDue

\* Whatever the server does, the lifecycle inside it takes a step of its own,
\* or none, or dies.
LEMMA LifecycleSteps ==
  ASSUME [SNext]_processVars
  PROVE  LNext \/ UNCHANGED lifeVars \/ Dies
<1>1. Write => process' = process \/ process' = "crashed"
  BY DEF Write
<1>2. ASSUME Reply, process = "running" PROVE UNCHANGED lifeVars \/ Dies
  BY <1>1, <1>2 DEF Reply, lifeVars, Dies, connVars, launchVars
<1>3. ASSUME NEW s \in {0, 1}, ReadEnds(s) PROVE LNext
  BY <1>3 DEF ReadEnds, Deferred, LNext
<1>4. ASSUME Serve PROVE LNext \/ UNCHANGED lifeVars \/ Dies
  BY <1>2, <1>4 DEF Serve, Ignore, Handle, CallTool, Connecting, Connected, CannotConnect,
     CallFails,
     Serving, LNext, Main
<1>5. ASSUME ChromeAnswers PROVE UNCHANGED lifeVars \/ Dies
  BY <1>2, <1>5 DEF ChromeAnswers, Serving
<1>6. ASSUME ReaderGoes \/ Killed \/ \E peer \in Peers : FallsSilent(peer)
      PROVE  UNCHANGED lifeVars \/ Dies
  BY <1>6 DEF ReaderGoes, Killed, FallsSilent, Dies
<1>7. ASSUME Others PROVE LNext
  BY <1>7 DEF Others, LNext
<1>8. ASSUME NEW kind \in Kinds, NEW id \in {Null, read + 1}, Read(kind, id)
      PROVE  UNCHANGED lifeVars
  BY <1>8 DEF Read
<1> QED
  BY <1>3, <1>4, <1>5, <1>6, <1>7, <1>8 DEF SNext, processVars

LEMMA KeepsLInv ==
  ASSUME LInv, [SNext]_processVars
  PROVE  LInv'
BY LifecycleSteps, Keeps_Next, Keeps_Dies, Keeps_L

\* The main goroutine only connects while a tool waits for it, and only ends
\* once the loop has stopped.
LEMMA MainStays ==
  ASSUME LInv, Main, pc # "idle"
  PROVE  ending' = ending
BY DEF LInv, Phases, LTypeOK, Main, BeginConnect, ConnectFails, MakeProfile, PipeFails,
   StartFails, StartChrome,
   EndpointSeen, NoEndpoint, Dial, DialFails, Exited, GracePasses, AskToClose, HangUp, Exit

LEMMA OthersStay ==
  ASSUME Others
  PROVE  UNCHANGED <<pc, ending>>
BY DEF Others, EventArrives, BackgroundCalls, AttachedExits, ChromeComesUp, ChromeExits

LEMMA KeepsSInv ==
  ASSUME SInv, [SNext]_processVars
  PROVE  SInv'
<1> USE DEF SInv
<1>1. LInv' /\ LTypeOK'
  BY KeepsLInv DEF LInv
<1> USE DEF STypeOK, AtMostOneDue
<1>2. ASSUME Reply, process = "running", pc = "idle", serve # "stopped", Owes(line.kind, line.id),
             serve # "reading"
      PROVE  SInv'
  <2>1. Append(out, line.id) \in Seq(0..MaxRead)
    BY DEF Null
  <2>2. NoLine \in [kind : Kinds, id : 0..MaxRead]
    BY ServerAssumption DEF NoLine, Kinds, Null
  <2> QED
    BY <1>1, <1>2, <2>1, <2>2 DEF Reply, Write, LInv, Phases
<1>3. ASSUME NEW kind \in Kinds, NEW id \in {Null, read + 1}, Read(kind, id) PROVE SInv'
  <2>1. id \in 0..MaxRead /\ read' \in 0..MaxRead
    BY <1>3, ServerAssumption DEF Read, Null
  <2>2. due' \in Seq(0..MaxRead)
    <3>1. Append(due, id) \in Seq(0..MaxRead)
      BY <2>1
    <3> QED
      BY <1>3, <3>1 DEF Read
  <2>3. line' \in [kind : Kinds, id : 0..MaxRead]
    BY <1>3, <2>1 DEF Read
  <2> QED
    BY <1>1, <1>3, <2>1, <2>2, <2>3 DEF Read, Serving, lifeVars
<1>4. ASSUME NEW s \in {0, 1}, ReadEnds(s) PROVE SInv'
  BY <1>1, <1>4 DEF ReadEnds, Deferred, BeginShutdown, Serving
<1>5. CASE Ignore
  <2>1. NoLine \in [kind : Kinds, id : 0..MaxRead]
    BY ServerAssumption DEF NoLine, Kinds, Null
  <2>2. ~Owes(line.kind, line.id)
    BY <1>5 DEF Ignore, IsNotification, Owes
  <2> QED
    BY <1>1, <1>5, <2>1, <2>2 DEF Ignore, Serving, lifeVars
<1>6. CASE Handle
  BY <1>2, <1>6 DEF Handle, Serving, IsNotification, Owes
<1>7. CASE CallTool
  BY <1>1, <1>7 DEF CallTool, IsCall, Serving, IsNotification, Owes, BeginConnect, lifeVars
<1>8. CASE Connecting
  BY <1>1, <1>8, MainStays DEF Connecting, serverVars
<1>9. CASE Connected
  BY <1>1, <1>9 DEF Connected, Serving, lifeVars
<1>10. CASE CannotConnect \/ CallFails \/ ChromeAnswers
  BY <1>2, <1>10 DEF CannotConnect, CallFails, ChromeAnswers, Serving
<1>11. CASE ReaderGoes \/ Killed \/ \E peer \in Peers : FallsSilent(peer)
  <2>1. /\ UNCHANGED <<pc, ending, serve, line, read, due, out, status>>
        /\ stdout' \in BOOLEAN /\ silent' \subseteq Peers
    BY <1>11 DEF ReaderGoes, Killed, FallsSilent, lifeVars, serverVars
  <2> QED
    BY <1>1, <2>1
<1>12. CASE Others /\ UNCHANGED serverVars
  BY <1>1, <1>12, OthersStay DEF serverVars
<1>13. CASE UNCHANGED processVars
  BY <1>1, <1>13 DEF processVars, serverVars, lifeVars
<1> QED
  BY <1>3, <1>4, <1>5, <1>6, <1>7, <1>8, <1>9, <1>10, <1>11, <1>12, <1>13 DEF SNext, Serve

THEOREM ServerStays == SSpec => []SInv
<1>1. SInit => SInv
  <2> SUFFICES ASSUME SInit PROVE SInv
    OBVIOUS
  <2>1. LInv
    BY InitiallyL DEF SInit
  <2>2. NoLine \in [kind : Kinds, id : 0..MaxRead] /\ due \in Seq(0..MaxRead)
    BY ServerAssumption DEF SInit, NoLine, Kinds, Null
  <2>3. pc = "idle" /\ ~ending
    BY DEF SInit, LInit
  <2> QED
    BY <2>1, <2>2, <2>3, ServerAssumption DEF SInit, SInv, LInv, STypeOK, AtMostOneDue
<1>2. SInv /\ [SNext]_processVars => SInv'
  BY KeepsSInv
<1> QED
  BY <1>1, <1>2, PTL DEF SSpec

(* The server and the connection keep their types, and while no tool connects
   and nothing has ended the main goroutine is idle (server.go, manager.go). *)
THEOREM ServerTypesHold == SSpec => []STypeOK
<1>1. SInv => STypeOK
  BY DEF SInv
<1> QED
  BY <1>1, ServerStays, PTL

(* Whatever lines come and whatever becomes of their tools and of Chrome, when
   the next line is read each request has its one answer, in order (handle,
   handleToolsCall). *)
THEOREM OneAnswerEach == SSpec => []EachAnsweredOnce
<1>1. SInv => EachAnsweredOnce
  BY DEF SInv, AtMostOneDue, EachAnsweredOnce
<1> QED
  BY <1>1, ServerStays, PTL

(* No temporary profile is removed under a Chrome that still writes to it
   (Browser.Close). *)
THEOREM RemovalWaits == SSpec => []RemovedAfterExit
<1>1. SInv => RemovedAfterExit
  BY DEF SInv, LInv
<1> QED
  BY <1>1, ServerStays, PTL

(* However often connecting fails, and however the process ends by itself,
   there is one Chrome at most and nothing of it is left (Launch,
   productionConnect, Shutdown). *)
THEOREM NothingIsLeft == SSpec => []NothingLeft
<1>1. SInv => OneChrome
  BY LifecycleAssumption DEF SInv, LInv, OneByOne, Gone, OneChrome, Living, LTypeOK, Launches
<1>2. SInv => FailuresCleanUp
  <2> SUFFICES ASSUME SInv, pc = "idle", ~client
               PROVE  \A g \in Launches : Gone(g)
    BY DEF FailuresCleanUp, Gone, Living
  <2> QED
    BY LifecycleAssumption DEF SInv, LInv, LTypeOK, OneByOne, Latest, Gone, Living, Launches
<1>3. SInv => ExitLeavesNothing
  <2> SUFFICES ASSUME SInv, process = "exited"
               PROVE  (mode = "attach" => ~asked) /\ \A g \in Launches : Gone(g)
    BY DEF ExitLeavesNothing, Gone, Living
  <2> QED
    BY LifecycleAssumption DEF SInv, LInv, LTypeOK, OneByOne, Latest, Phases, Gone, Living,
       Launches
<1> QED
  BY <1>1, <1>2, <1>3, ServerStays, PTL DEF NothingLeft
=============================================================================
