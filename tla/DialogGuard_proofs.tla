------------------------- MODULE DialogGuard_proofs --------------------------
(***************************************************************************)
(* Proofs about DialogGuard, for any pages, tools and bounds: a recorded   *)
(* dialog is one that shows, a guard hears of the dialog its call opens,   *)
(* and what a tool returns is about its own call and its own page.         *)
(***************************************************************************)
EXTENDS DialogGuard, TLAPS

Messages == [kind : {"ok", "err", "opening", "closed"}, sess : Sessions, n : Nat]

\* The number a guard registers its waiter under.
Mine == IF pc = "send" THEN call + 1 ELSE call

\* How many calls a tool makes.
Calls(t) == Len(Script[t])

Guarding == pc \in {"send", "await"}

ToolTypes ==
    /\ pc \in {"idle", "check", "register", "send", "await", "look", "answer", "answering", "forget"}
    /\ pc # "idle" => tool \in Tools /\ sess \in Sessions /\ step \in 1..Len(Script[tool])
    /\ call \in Nat /\ opened \in 0..Len(origin) /\ found \in 0..Len(origin)
    /\ got \in {"none", "ok", "err"} /\ last.kind \in Kinds /\ last.dialog \in 0..Len(origin)

LoopTypes ==
    /\ dialogs \in [Sessions -> 0..Len(origin)]
    /\ waiters \subseteq Sessions \X (1..MaxCalls) /\ taken \subseteq Sessions \X (1..MaxCalls)
    /\ loop \in {"read", "take", "notify"} /\ held.dialog \in 0..Len(origin)
    /\ loop # "read" => held.dialog # 0 /\ held.sess \in Sessions

ChromeTypes ==
    /\ wire \in Seq(Messages)
    /\ showing \in [Sessions -> 0..Len(origin)] /\ executing \in [Sessions -> Nat]
    /\ queue \in [Sessions -> Seq(1..MaxCalls)]
    /\ answers \subseteq Sessions \X (1..MaxCalls)
    /\ origin \in Seq([sess : Sessions, by : Nat]) /\ Len(origin) <= MaxDialogs

Types == ToolTypes /\ LoopTypes /\ ChromeTypes

\* A tool has room for the calls it has not made yet.
Budget ==
    /\ call <= MaxCalls
    /\ pc \in {"check", "register", "send", "look", "answer"} => call + Calls(tool) - step < MaxCalls
    /\ pc \in {"await", "answering", "forget"} => call + Calls(tool) - step <= MaxCalls

\* Whatever carries the number of a call carries that of one that was made.
Numbers ==
    /\ \A s \in Sessions : executing[s] # 0 => executing[s] \in performed
    /\ \A s \in Sessions : \A i \in 1..Len(queue[s]) : queue[s][i] <= call
    /\ performed \subseteq 1..call
    /\ \A a \in answers : a[2] <= call
    /\ \A i \in 1..Len(wire) : wire[i].kind \in {"ok", "err"} => wire[i].n <= call
    /\ \A i \in 1..Len(origin) : origin[i].by <= call

\* Whatever names a dialog names one of its own page.
Own ==
    /\ \A s \in Sessions : dialogs[s] # 0 => origin[dialogs[s]].sess = s
    /\ opened # 0 => Guarding /\ origin[opened].sess = sess
    /\ pc \in {"answer", "answering", "forget"} => found # 0 /\ origin[found].sess = sess
    /\ last.dialog # 0 => origin[last.dialog].sess = last.sess
    /\ loop # "read" => origin[held.dialog].sess = held.sess
    /\ \A i \in 1..Len(wire) : wire[i].kind = "opening" =>
           wire[i].n \in 1..Len(origin) /\ origin[wire[i].n].sess = wire[i].sess

\* A successful reply to the call under way is one to a call that was performed.
Done ==
    /\ got # "none" => pc \in {"await", "answering"}
    /\ pc = "await" =>
        /\ \A a \in answers : a[2] # call
        /\ \A i \in 1..Len(wire) : wire[i].kind = "ok" /\ wire[i].n = call => call \in performed
        /\ got = "ok" => call \in performed
    /\ last.kind = "done" => last.call \in performed

\* The one waiter there ever is belongs to the guard under way; what the read
\* loop took may be older, and is then nobody's; and a guard that is not to hear
\* of a dialog has heard already.
Waiting ==
    /\ \A w \in waiters : Guarding /\ w = <<sess, Mine>>
    /\ \A w \in taken :
        /\ w[1] = held.sess /\ w[2] <= Mine
        /\ Guarding /\ w[2] = Mine => w[1] = sess
    /\ loop # "notify" => taken = {}
    /\ Guarding /\ How # "plain" => <<sess, Mine>> \in waiters \cup taken \/ opened # 0

\* A dialog of the call under way is recorded before the waiters are taken.
Heard ==
    /\ pc = "await" /\ <<sess, call>> \in waiters
    /\ dialogs[sess] # 0 /\ origin[dialogs[sess]].by = call
    => loop = "take" /\ held.sess = sess

IsEvent(m, s) == m.kind \in {"opening", "closed"} /\ m.sess = s

\* What has been said last of a page, on the wire or in the record, is so, but
\* for records handle_dialog has dropped.
Truth ==
    \A s \in Sessions :
        /\ (\A i \in 1..Len(wire) : ~IsEvent(wire[i], s)) => dialogs[s] \in {0, showing[s]}
        /\ \A i \in 1..Len(wire) :
               IsEvent(wire[i], s) /\ (\A j \in i + 1..Len(wire) : ~IsEvent(wire[j], s))
               => showing[s] = wire[i].n

IInv == Types /\ Budget /\ Numbers /\ Own /\ Done /\ Waiting /\ Heard /\ Truth
-----------------------------------------------------------------------------
(* Tools and sequences.                                                     *)

\* A tool makes at least one call, each in a way that is known.
LEMMA Scripts ==
  ASSUME NEW t \in DOMAIN Script
  PROVE  /\ Len(Script[t]) \in Nat /\ Len(Script[t]) >= 1 /\ Calls(t) \in Nat \ {0}
         /\ \A i \in 1..Len(Script[t]) : Script[t][i] \in {"guarded", "renderer", "plain", "answer"}
<1>1. t \in {"press_key", "click", "fill", "drag", "handle_dialog"}
  BY DEF Script, Calls
<1>2. CASE t = "press_key"
  BY <1>2 DEF Script, Calls
<1>3. CASE t = "click"
  BY <1>3 DEF Script, Calls
<1>4. CASE t = "fill"
  BY <1>4 DEF Script, Calls
<1>5. CASE t = "drag"
  BY <1>5 DEF Script, Calls
<1>6. CASE t = "handle_dialog"
  BY <1>6 DEF Script, Calls
<1> QED
  BY <1>1, <1>2, <1>3, <1>4, <1>5, <1>6

\* Where a call begins.
LEMMA Entries ==
  ASSUME NEW t \in Tools, NEW i \in 1..Len(Script[t])
  PROVE  /\ Entry(t, i) \in {"send", "look", "check"}
         /\ Entry(t, i) = "send" => Script[t][i] = "plain"
BY DialogGuardAssumption, Scripts DEF Entry

LEMMA Shift ==
  ASSUME NEW S, NEW w \in Seq(S), w # <<>>
  PROVE  /\ Head(w) = w[1] /\ w[1] \in S /\ Tail(w) \in Seq(S)
         /\ Len(Tail(w)) = Len(w) - 1 /\ Len(w) \in Nat \ {0}
         /\ \A i \in 1..Len(w) - 1 : Tail(w)[i] = w[i + 1]
OBVIOUS

LEMMA Push ==
  ASSUME NEW S, NEW w \in Seq(S), NEW m \in S
  PROVE  /\ Append(w, m) \in Seq(S) /\ Len(Append(w, m)) = Len(w) + 1 /\ Len(w) \in Nat
         /\ \A i \in 1..Len(w) : Append(w, m)[i] = w[i]
         /\ Append(w, m)[Len(w) + 1] = m
OBVIOUS

LEMMA PushTwo ==
  ASSUME NEW S, NEW w \in Seq(S), NEW m \in S, NEW n \in S
  PROVE  /\ w \o <<m, n>> \in Seq(S) /\ Len(w \o <<m, n>>) = Len(w) + 2 /\ Len(w) \in Nat
         /\ \A i \in 1..Len(w) : (w \o <<m, n>>)[i] = w[i]
         /\ (w \o <<m, n>>)[Len(w) + 1] = m /\ (w \o <<m, n>>)[Len(w) + 2] = n
OBVIOUS

LEMMA Elements ==
  ASSUME Types
  PROVE  /\ \A s \in Sessions : \A i \in 1..Len(queue[s]) : queue[s][i] \in 1..MaxCalls /\ queue[s][i] \in Nat
         /\ \A i \in 1..Len(wire) : wire[i] \in Messages /\ wire[i].n \in Nat /\ wire[i].sess \in Sessions
         /\ \A i \in 1..Len(origin) : origin[i].sess \in Sessions /\ origin[i].by \in Nat
<1>1. ASSUME NEW S, NEW w \in Seq(S) PROVE \A i \in 1..Len(w) : w[i] \in S
  OBVIOUS
<1>2. ASSUME NEW s \in Sessions, NEW i \in 1..Len(queue[s])
      PROVE  queue[s][i] \in 1..MaxCalls /\ queue[s][i] \in Nat
  <2>1. queue[s] \in Seq(1..MaxCalls)
    BY DEF Types, ChromeTypes
  <2>2. queue[s][i] \in 1..MaxCalls
    BY <2>1, <1>1
  <2> QED
    BY <2>2, DialogGuardAssumption
<1>3. ASSUME NEW i \in 1..Len(wire)
      PROVE  wire[i] \in Messages /\ wire[i].n \in Nat /\ wire[i].sess \in Sessions
  <2>1. wire[i] \in Messages
    BY <1>1 DEF Types, ChromeTypes
  <2> QED
    BY <2>1 DEF Messages
<1>4. ASSUME NEW i \in 1..Len(origin) PROVE origin[i].sess \in Sessions /\ origin[i].by \in Nat
  <2>1. origin[i] \in [sess : Sessions, by : Nat]
    BY <1>1 DEF Types, ChromeTypes
  <2> QED
    BY <2>1
<1> QED
  BY <1>2, <1>3, <1>4

LEMMA EventFields ==
  ASSUME NEW kind \in {"ok", "err", "opening", "closed"}, NEW s \in Sessions, NEW n \in Nat
  PROVE  /\ Event(kind, s, n) \in Messages /\ Event(kind, s, n).kind = kind
         /\ Event(kind, s, n).sess = s /\ Event(kind, s, n).n = n
BY DEF Event, Messages

-----------------------------------------------------------------------------
(* What has been said last of a page.                                       *)

\* A message is read: an event goes from the wire into the record.
LEMMA TruthRead ==
  ASSUME Types, Truth, wire # <<>>, wire' = Tail(wire), showing' = showing,
         \/ wire[1].kind \in {"ok", "err"} /\ dialogs' = dialogs
         \/ wire[1].kind = "opening" /\ dialogs' = [dialogs EXCEPT ![wire[1].sess] = wire[1].n]
         \/ wire[1].kind = "closed" /\ dialogs' = [dialogs EXCEPT ![wire[1].sess] = 0]
  PROVE  Truth'
<1>1. /\ Len(wire) \in Nat \ {0} /\ Len(wire') = Len(wire) - 1 /\ wire[1] \in Messages
      /\ \A i \in 1..Len(wire) - 1 : wire'[i] = wire[i + 1]
  BY Shift DEF Types, LoopTypes, ChromeTypes
<1> SUFFICES ASSUME NEW s \in Sessions
             PROVE  /\ (\A i \in 1..Len(wire') : ~IsEvent(wire'[i], s)) => dialogs'[s] \in {0, showing[s]}
                    /\ \A i \in 1..Len(wire') :
                          IsEvent(wire'[i], s) /\ (\A j \in i + 1..Len(wire') : ~IsEvent(wire'[j], s))
                          => showing[s] = wire'[i].n
  BY DEF Truth
<1>2. ASSUME \A i \in 1..Len(wire') : ~IsEvent(wire'[i], s)
      PROVE  dialogs'[s] \in {0, showing[s]}
  <2>1. \A j \in 2..Len(wire) : ~IsEvent(wire[j], s)
    <3> SUFFICES ASSUME NEW j \in 2..Len(wire) PROVE ~IsEvent(wire[j], s)
      OBVIOUS
    <3>1. j - 1 \in 1..Len(wire) - 1 /\ wire'[j - 1] = wire[j]
      BY <1>1
    <3> QED
      BY <3>1, <1>1, <1>2
  <2>2. CASE IsEvent(wire[1], s)
    <3>1. showing[s] = wire[1].n
      BY <2>1, <2>2, <1>1 DEF Truth
    <3> QED
      BY <3>1, <2>2, <1>1 DEF Types, LoopTypes, ChromeTypes, IsEvent, Messages
  <2>3. CASE ~IsEvent(wire[1], s)
    <3>1. dialogs'[s] = dialogs[s]
      BY <2>3, <1>1 DEF Types, LoopTypes, ChromeTypes, IsEvent, Messages
    <3>2. \A i \in 1..Len(wire) : ~IsEvent(wire[i], s)
      BY <2>1, <2>3, <1>1
    <3> QED
      BY <3>1, <3>2 DEF Truth
  <2> QED
    BY <2>2, <2>3
<1>3. ASSUME NEW i \in 1..Len(wire'), IsEvent(wire'[i], s),
             \A j \in i + 1..Len(wire') : ~IsEvent(wire'[j], s)
      PROVE  showing[s] = wire'[i].n
  <2>1. i + 1 \in 1..Len(wire) /\ wire'[i] = wire[i + 1]
    BY <1>1
  <2>2. \A j \in i + 2..Len(wire) : ~IsEvent(wire[j], s)
    <3> SUFFICES ASSUME NEW j \in i + 2..Len(wire) PROVE ~IsEvent(wire[j], s)
      OBVIOUS
    <3>1. j - 1 \in i + 1..Len(wire') /\ wire'[j - 1] = wire[j]
      BY <1>1
    <3> QED
      BY <3>1, <1>3
  <2> QED
    BY <2>1, <2>2, <1>3 DEF Truth
<1> QED
  BY <1>2, <1>3

\* A message is sent, and if it is an event says what shows now.
LEMMA TruthSaid ==
  ASSUME Types, Truth, dialogs' = dialogs, NEW m \in Messages,
         Len(wire') = Len(wire) + 1, wire'[Len(wire) + 1] = m,
         \A i \in 1..Len(wire) : wire'[i] = wire[i],
         \/ m.kind \in {"ok", "err"} /\ showing' = showing
         \/ m.kind \in {"opening", "closed"} /\ showing' = [showing EXCEPT ![m.sess] = m.n]
  PROVE  Truth'
<1>1. Len(wire) \in Nat
  BY DEF Types, LoopTypes, ChromeTypes
<1> SUFFICES ASSUME NEW s \in Sessions
             PROVE  /\ (\A i \in 1..Len(wire') : ~IsEvent(wire'[i], s)) => dialogs[s] \in {0, showing'[s]}
                    /\ \A i \in 1..Len(wire') :
                          IsEvent(wire'[i], s) /\ (\A j \in i + 1..Len(wire') : ~IsEvent(wire'[j], s))
                          => showing'[s] = wire'[i].n
  BY DEF Truth
<1>2. CASE IsEvent(m, s)
  <2>1. showing'[s] = m.n
    BY <1>2 DEF IsEvent, Types, LoopTypes, ChromeTypes
  <2> QED
    BY <1>1, <1>2, <2>1
<1>3. CASE ~IsEvent(m, s)
  <2>1. showing'[s] = showing[s]
    BY <1>3 DEF IsEvent, Types, LoopTypes, ChromeTypes, Messages
  <2>2. (\A i \in 1..Len(wire') : ~IsEvent(wire'[i], s)) => \A i \in 1..Len(wire) : ~IsEvent(wire[i], s)
    BY <1>1
  <2>3. ASSUME NEW i \in 1..Len(wire'), IsEvent(wire'[i], s),
               \A j \in i + 1..Len(wire') : ~IsEvent(wire'[j], s)
        PROVE  showing'[s] = wire'[i].n
    <3>1. i \in 1..Len(wire) /\ wire'[i] = wire[i]
      BY <1>1, <1>3, <2>3
    <3>2. \A j \in i + 1..Len(wire) : ~IsEvent(wire[j], s)
      BY <1>1, <2>3
    <3> QED
      BY <2>1, <2>3, <3>1, <3>2 DEF Truth
  <2> QED
    BY <2>1, <2>2, <2>3 DEF Truth
<1> QED
  BY <1>2, <1>3

\* The two messages a served answer makes, in either order.
LEMMA TruthServed ==
  ASSUME Types, Truth, dialogs' = dialogs, NEW s \in Sessions, NEW m \in Messages, NEW n \in Messages,
         Len(wire') = Len(wire) + 2, wire'[Len(wire) + 1] = m, wire'[Len(wire) + 2] = n,
         \A i \in 1..Len(wire) : wire'[i] = wire[i],
         \/ m.kind = "ok" /\ n.kind = "closed" /\ n.sess = s /\ n.n = 0
         \/ n.kind = "ok" /\ m.kind = "closed" /\ m.sess = s /\ m.n = 0,
         showing' = [showing EXCEPT ![s] = 0]
  PROVE  Truth'
<1>1. Len(wire) \in Nat
  BY DEF Types, LoopTypes, ChromeTypes
<1> SUFFICES ASSUME NEW q \in Sessions
             PROVE  /\ (\A i \in 1..Len(wire') : ~IsEvent(wire'[i], q)) => dialogs[q] \in {0, showing'[q]}
                    /\ \A i \in 1..Len(wire') :
                          IsEvent(wire'[i], q) /\ (\A j \in i + 1..Len(wire') : ~IsEvent(wire'[j], q))
                          => showing'[q] = wire'[i].n
  BY DEF Truth
<1>2. CASE q = s
  <2>1. showing'[q] = 0
    BY <1>2 DEF Types, LoopTypes, ChromeTypes
  <2>2. /\ IsEvent(m, q) => m.n = 0
        /\ IsEvent(n, q) => n.n = 0
        /\ IsEvent(m, q) \/ IsEvent(n, q)
    BY <1>2 DEF IsEvent
  <2>3. Len(wire) + 1 \in 1..Len(wire') /\ Len(wire) + 2 \in 1..Len(wire')
    BY <1>1
  <2>4. ~\A i \in 1..Len(wire') : ~IsEvent(wire'[i], q)
    BY <2>2, <2>3
  <2>5. ASSUME NEW i \in 1..Len(wire'), IsEvent(wire'[i], q),
               \A j \in i + 1..Len(wire') : ~IsEvent(wire'[j], q)
        PROVE  wire'[i].n = 0
    <3>1. i = Len(wire) + 1 \/ i = Len(wire) + 2
      <4>1. i \in 1..Len(wire) => Len(wire) + 1 \in i + 1..Len(wire') /\ Len(wire) + 2 \in i + 1..Len(wire')
        BY <1>1
      <4> QED
        BY <1>1, <4>1, <2>2, <2>5
    <3> QED
      BY <3>1, <2>2, <2>5
  <2> QED
    BY <2>1, <2>4, <2>5
<1>3. CASE q # s
  <2>1. showing'[q] = showing[q] /\ ~IsEvent(m, q) /\ ~IsEvent(n, q)
    BY <1>3 DEF IsEvent, Types, LoopTypes, ChromeTypes
  <2>2. (\A i \in 1..Len(wire') : ~IsEvent(wire'[i], q)) => \A i \in 1..Len(wire) : ~IsEvent(wire[i], q)
    BY <1>1
  <2>3. ASSUME NEW i \in 1..Len(wire'), IsEvent(wire'[i], q),
               \A j \in i + 1..Len(wire') : ~IsEvent(wire'[j], q)
        PROVE  showing'[q] = wire'[i].n
    <3>1. i \in 1..Len(wire) /\ wire'[i] = wire[i]
      BY <1>1, <2>1, <2>3
    <3>2. \A j \in i + 1..Len(wire) : ~IsEvent(wire[j], q)
      BY <1>1, <2>3
    <3> QED
      BY <2>1, <2>3, <3>1, <3>2 DEF Truth
  <2> QED
    BY <2>1, <2>2, <2>3 DEF Truth
<1> QED
  BY <1>2, <1>3

-----------------------------------------------------------------------------
(* The tool goroutine.                                                      *)

\* What a tool that ends returns.
LEMMA Finishes ==
  ASSUME NEW kind, NEW dialog, NEW c, Finish(kind, dialog, c)
  PROVE  /\ pc' = "idle" /\ last'.kind = kind /\ last'.dialog = dialog
         /\ last'.sess = sess /\ last'.call = c
BY DEF Finish

LEMMA Interrupts ==
  ASSUME NEW dialog, NEW c, Interrupted(dialog, c)
  PROVE  /\ pc' = "idle" /\ last'.kind \in Kinds \ {"done"} /\ last'.dialog = dialog
         /\ last'.sess = sess
BY Finishes DEF Interrupted, Kinds

LEMMA Keeps_Start ==
  ASSUME IInv, NEW t \in Tools, NEW s \in Sessions, Start(t, s)
  PROVE  IInv'
<1> USE DEF IInv, Types
<1>1. pc = "idle" /\ pc' \in {"send", "look", "check"} /\ sess' = s /\ tool' = t /\ step' = 1 /\ 1 \in 1..Len(Script[t])
  BY DialogGuardAssumption, Scripts, Entries DEF Start
<1>2. pc' = "send" => Script[t][1] = "plain"
  BY DialogGuardAssumption, Scripts, Entries DEF Start
<1>3. Calls(t) \in Nat \ {0} /\ call + Calls(t) <= MaxCalls
  BY DialogGuardAssumption, Scripts DEF Start, Calls
<1>4. UNCHANGED <<dialogs, waiters, call, opened, got, found, last, loop, held, taken, wire, showing, executing, queue, answers, origin, performed>>
  BY DEF Start, toolVars, loopVars, chromeVars
<1>5. ToolTypes'
  BY <1>1, <1>2, <1>3, <1>4 DEF ToolTypes, LoopTypes, ChromeTypes, Kinds, Start
<1>6. LoopTypes'
  BY <1>4 DEF LoopTypes
<1>7. ChromeTypes'
  BY <1>4 DEF ChromeTypes
<1>8. Budget'
  BY <1>1, <1>2, <1>3, <1>4, DialogGuardAssumption DEF Budget, ToolTypes, Start
<1>9. Numbers'
  BY <1>4 DEF Numbers
<1>10. Own'
  BY <1>1, <1>2, <1>3, <1>4 DEF Own, ToolTypes, LoopTypes, ChromeTypes, Guarding, Start
<1>11. Done'
  BY <1>1, <1>2, <1>3, <1>4 DEF Done, ToolTypes, LoopTypes, ChromeTypes, Numbers, Start
<1>12. Waiting'
  <2>1. call \in Nat /\ \A w \in waiters \cup taken : w \in Sessions \X Nat /\ w[1] \in Sessions /\ w[2] \in Nat
    BY DialogGuardAssumption DEF ToolTypes, LoopTypes
  <2> QED
    BY <2>1, <1>1, <1>2, <1>3, <1>4 DEF Waiting, Own, Mine, Guarding, How, Start
<1>13. Heard'
  BY <1>1, <1>2, <1>3, <1>4 DEF Heard, ToolTypes, LoopTypes, ChromeTypes, Own, Numbers, Start
<1>14. Truth'
  BY <1>4 DEF Truth
<1> QED
  BY <1>5, <1>6, <1>7, <1>8, <1>9, <1>10, <1>11, <1>12, <1>13, <1>14

LEMMA Keeps_CheckDialog ==
  ASSUME IInv, CheckDialog
  PROVE  IInv'
<1> USE DEF IInv, Types
<1>1. sess \in Sessions /\ tool \in Tools /\ step \in 1..Len(Script[tool])
  BY DEF CheckDialog, ToolTypes
<1>2. step \in 1..Calls(tool) /\ Calls(tool) \in Nat
  BY <1>1, DialogGuardAssumption, Scripts DEF Calls
<1>3. \/ dialogs[sess] # 0 /\ pc' = "idle" /\ last'.kind \in Kinds \ {"done"}
         /\ last'.dialog = dialogs[sess] /\ last'.sess = sess
      \/ pc' = "register" /\ last' = last
  BY Interrupts DEF CheckDialog
<1>4. UNCHANGED <<dialogs, waiters, tool, sess, step, call, opened, got, found, loop, held, taken, wire, showing, executing, queue, answers, origin, performed>>
  BY DEF CheckDialog, toolVars, loopVars, chromeVars
<1>5. ToolTypes'
  BY <1>1, <1>3, <1>4 DEF ToolTypes, LoopTypes, ChromeTypes, Kinds, CheckDialog
<1>6. LoopTypes'
  BY <1>4 DEF LoopTypes
<1>7. ChromeTypes'
  BY <1>4 DEF ChromeTypes
<1>8. Budget'
  BY <1>1, <1>2, <1>3, <1>4, DialogGuardAssumption DEF Budget, ToolTypes, CheckDialog
<1>9. Numbers'
  BY <1>4 DEF Numbers
<1>10. Own'
  BY <1>1, <1>3, <1>4 DEF Own, ToolTypes, LoopTypes, ChromeTypes, Guarding, CheckDialog
<1>11. Done'
  BY <1>1, <1>3, <1>4 DEF Done, ToolTypes, LoopTypes, ChromeTypes, Numbers, CheckDialog
<1>12. Waiting'
  <2>1. call \in Nat /\ \A w \in waiters \cup taken : w \in Sessions \X Nat /\ w[1] \in Sessions /\ w[2] \in Nat
    BY DialogGuardAssumption DEF ToolTypes, LoopTypes
  <2> QED
    BY <2>1, <1>1, <1>3, <1>4 DEF Waiting, Own, Mine, Guarding, How, CheckDialog
<1>13. Heard'
  BY <1>1, <1>3, <1>4 DEF Heard, ToolTypes, LoopTypes, ChromeTypes, Own, Numbers, CheckDialog
<1>14. Truth'
  BY <1>4 DEF Truth
<1> QED
  BY <1>5, <1>6, <1>7, <1>8, <1>9, <1>10, <1>11, <1>12, <1>13, <1>14

LEMMA Keeps_AddWaiter ==
  ASSUME IInv, AddWaiter
  PROVE  IInv'
<1> USE DEF IInv, Types
<1>1. sess \in Sessions /\ tool \in Tools /\ step \in 1..Len(Script[tool])
  BY DEF AddWaiter, ToolTypes
<1>2. step \in 1..Calls(tool) /\ Calls(tool) \in Nat
  BY <1>1, DialogGuardAssumption, Scripts DEF Calls
<1>3. call + 1 \in 1..MaxCalls
  BY <1>1, <1>2, DialogGuardAssumption DEF AddWaiter, Budget, ToolTypes
<1>4. UNCHANGED <<dialogs, tool, sess, step, call, opened, got, found, last, loop, held, taken, wire, showing, executing, queue, answers, origin, performed>>
  BY DEF AddWaiter, toolVars, loopVars, chromeVars
<1>5. ToolTypes'
  BY <1>1, <1>3, <1>4 DEF ToolTypes, LoopTypes, ChromeTypes, Kinds, AddWaiter, WithWaiter
<1>6. LoopTypes'
  BY <1>1, <1>3, <1>4 DEF LoopTypes, ToolTypes, ChromeTypes, AddWaiter, WithWaiter
<1>7. ChromeTypes'
  BY <1>4 DEF ChromeTypes
<1>8. Budget'
  BY <1>1, <1>2, <1>3, <1>4, DialogGuardAssumption DEF Budget, ToolTypes, AddWaiter, WithWaiter
<1>9. Numbers'
  BY <1>4 DEF Numbers
<1>10. Own'
  BY <1>1, <1>3, <1>4 DEF Own, ToolTypes, LoopTypes, ChromeTypes, Guarding, AddWaiter, WithWaiter
<1>11. Done'
  BY <1>1, <1>3, <1>4 DEF Done, ToolTypes, LoopTypes, ChromeTypes, Numbers, AddWaiter, WithWaiter
<1>12. Waiting'
  <2>1. call \in Nat /\ \A w \in waiters \cup taken : w \in Sessions \X Nat /\ w[1] \in Sessions /\ w[2] \in Nat
    BY DialogGuardAssumption DEF ToolTypes, LoopTypes
  <2> QED
    BY <2>1, <1>1, <1>3, <1>4 DEF Waiting, Own, Mine, Guarding, How, AddWaiter, WithWaiter
<1>13. Heard'
  BY <1>1, <1>3, <1>4 DEF Heard, ToolTypes, LoopTypes, ChromeTypes, Own, Numbers, AddWaiter, WithWaiter
<1>14. Truth'
  BY <1>4 DEF Truth
<1> QED
  BY <1>5, <1>6, <1>7, <1>8, <1>9, <1>10, <1>11, <1>12, <1>13, <1>14

LEMMA Keeps_Send ==
  ASSUME IInv, Send
  PROVE  IInv'
<1> USE DEF IInv, Types
<1>1. sess \in Sessions /\ tool \in Tools /\ step \in 1..Len(Script[tool])
  BY DEF Send, ToolTypes
<1>2. step \in 1..Calls(tool) /\ Calls(tool) \in Nat
  BY <1>1, DialogGuardAssumption, Scripts DEF Calls
<1>3. call + 1 \in 1..MaxCalls
  BY <1>1, <1>2, DialogGuardAssumption DEF Send, Budget, ToolTypes
<1>4. /\ queue' \in [Sessions -> Seq(1..MaxCalls)]
      /\ \A s \in Sessions : \A i \in 1..Len(queue'[s]) :
            queue'[s][i] = call + 1 \/ (i \in 1..Len(queue[s]) /\ queue'[s][i] = queue[s][i])
  <2>1. queue[sess] \in Seq(1..MaxCalls) /\ queue' = [queue EXCEPT ![sess] = Append(@, call + 1)]
    BY <1>1 DEF Send, ChromeTypes
  <2> DEFINE old == queue[sess]
             longer == Append(old, call + 1)
  <2>2. /\ longer \in Seq(1..MaxCalls) /\ Len(longer) = Len(old) + 1 /\ Len(old) \in Nat
        /\ \A i \in 1..Len(old) : longer[i] = old[i]
        /\ longer[Len(old) + 1] = call + 1
    BY <1>3, <2>1, Push
  <2>3. queue'[sess] = longer /\ \A s \in Sessions : s # sess => queue'[s] = queue[s]
    BY <1>1, <2>1 DEF ChromeTypes
  <2>4. queue' \in [Sessions -> Seq(1..MaxCalls)]
    BY <2>1, <2>2 DEF ChromeTypes
  <2> HIDE DEF longer, old
  <2>5. \A i \in 1..Len(longer) : longer[i] = call + 1 \/ (i \in 1..Len(old) /\ longer[i] = old[i])
    BY <2>2
  <2>6. old = queue[sess]
    BY DEF old
  <2> QED
    BY <2>3, <2>4, <2>5, <2>6
<1>5. UNCHANGED <<dialogs, waiters, tool, sess, step, opened, got, found, last, loop, held, taken, wire, showing, executing, answers, origin, performed>>
  BY DEF Send, toolVars, loopVars, chromeVars
<1>6. ToolTypes'
  BY <1>1, <1>3, <1>4, <1>5 DEF ToolTypes, LoopTypes, ChromeTypes, Kinds, Send
<1>7. LoopTypes'
  BY <1>5 DEF LoopTypes
<1>8. ChromeTypes'
  BY <1>1, <1>3, <1>4, <1>5 DEF ChromeTypes, ToolTypes, LoopTypes, Send
<1>9. Budget'
  <2>1. pc \in {"send", "answer"} /\ pc' \in {"await", "answering"} /\ UNCHANGED <<tool, step>> /\ call' = call + 1 /\ call \in Nat
    BY <1>5 DEF Send, ToolTypes
  <2> QED
    BY <1>2, <1>3, <2>1, DialogGuardAssumption DEF Budget
<1>10. Numbers'
  <2>1. call \in Nat /\ call' = call + 1 /\ UNCHANGED <<executing, performed, wire, origin, answers>>
    BY <1>5 DEF Send, ToolTypes
  <2>2. \A s \in Sessions : \A i \in 1..Len(queue[s]) : queue[s][i] \in Nat
    BY Elements
  <2>3. \A i \in 1..Len(wire) : wire[i].n \in Nat
    BY Elements
  <2>4. \A i \in 1..Len(origin) : origin[i].by \in Nat
    BY Elements
  <2>5. \A a \in answers : a[2] \in Nat
    BY DialogGuardAssumption DEF ChromeTypes
  <2>6. \A s \in Sessions : \A i \in 1..Len(queue[s]) : queue[s][i] <= call
    BY DEF Numbers
  <2>7. ASSUME NEW s \in Sessions, NEW i \in 1..Len(queue'[s]) PROVE queue'[s][i] <= call + 1
    <3>1. queue'[s][i] = call + 1 \/ (i \in 1..Len(queue[s]) /\ queue'[s][i] = queue[s][i])
      BY <1>4, <2>1
    <3>2. i \in 1..Len(queue[s]) => queue[s][i] \in Nat /\ queue[s][i] <= call
      BY <2>2, <2>6
    <3> QED
      BY <3>1, <3>2, <2>1
  <2>8. \A a \in answers' : a[2] <= call + 1
    BY <2>1, <2>5 DEF Send, Numbers
  <2> QED
    BY <2>1, <2>3, <2>4, <2>7, <2>8 DEF Numbers
<1>11. Own'
  BY <1>1, <1>3, <1>4, <1>5 DEF Own, ToolTypes, LoopTypes, ChromeTypes, Guarding, Send
<1>12. Done'
  BY <1>1, <1>3, <1>4, <1>5 DEF Done, ToolTypes, LoopTypes, ChromeTypes, Numbers, Send
<1>13. Waiting'
  <2>1. call \in Nat /\ \A w \in waiters \cup taken : w \in Sessions \X Nat /\ w[1] \in Sessions /\ w[2] \in Nat
    BY DialogGuardAssumption DEF ToolTypes, LoopTypes
  <2> QED
    BY <2>1, <1>1, <1>3, <1>4, <1>5 DEF Waiting, Own, Mine, Guarding, How, Send
<1>14. Heard'
  <2>1. sess' = sess /\ dialogs' = dialogs /\ origin' = origin /\ call' = call + 1 /\ call \in Nat
    BY DEF Send, ToolTypes
  <2>2. dialogs[sess] # 0 => dialogs[sess] \in 1..Len(origin)
    BY <1>1 DEF LoopTypes, ChromeTypes
  <2>3. dialogs[sess] # 0 => origin[dialogs[sess]].by <= call /\ origin[dialogs[sess]].by \in Nat
    BY <2>2, Elements DEF Numbers
  <2> QED
    BY <2>1, <2>3 DEF Heard
<1>15. Truth'
  BY <1>5 DEF Truth
<1> QED
  BY <1>6, <1>7, <1>8, <1>9, <1>10, <1>11, <1>12, <1>13, <1>14, <1>15

LEMMA Keeps_GotReply ==
  ASSUME IInv, GotReply
  PROVE  IInv'
<1> USE DEF IInv, Types
<1>1. sess \in Sessions /\ tool \in Tools /\ step \in 1..Len(Script[tool])
  BY DEF GotReply, ToolTypes
<1>2. step \in 1..Calls(tool) /\ Calls(tool) \in Nat
  BY <1>1, DialogGuardAssumption, Scripts DEF Calls
<1>3. \/ pc' \in {"send", "look", "check"} /\ last' = last /\ step < Len(Script[tool]) /\ step < Calls(tool) /\ step' = step + 1
         /\ (pc' = "send" => Script[tool][step'] = "plain")
      \/ pc' = "idle" /\ last'.kind \in {"done", "failed"} /\ last'.dialog = 0 /\ last'.sess = sess
         /\ (last'.kind = "done" => got = "ok" /\ last'.call = call) /\ step' = step
  BY <1>1, Entries, Finishes DEF GotReply, Calls
<1>4. UNCHANGED <<dialogs, tool, sess, call, found, loop, held, taken, wire, showing, executing, queue, answers, origin, performed>>
  BY DEF GotReply, toolVars, loopVars, chromeVars
<1>5. ToolTypes'
  <2>1. UNCHANGED <<tool, sess, call, found, origin>> /\ opened' = 0 /\ got' = "none" /\ origin \in Seq([sess : Sessions, by : Nat])
    BY <1>4 DEF GotReply, ChromeTypes
  <2> QED
    BY <1>1, <1>3, <2>1 DEF ToolTypes, Kinds
<1>6. LoopTypes'
  BY <1>1, <1>3, <1>4 DEF LoopTypes, ToolTypes, ChromeTypes, GotReply, RemoveWaiter
<1>7. ChromeTypes'
  BY <1>4 DEF ChromeTypes
<1>8. Budget'
  BY <1>1, <1>2, <1>3, <1>4, DialogGuardAssumption DEF Budget, ToolTypes, GotReply, RemoveWaiter
<1>9. Numbers'
  BY <1>4 DEF Numbers
<1>10. Own'
  BY <1>1, <1>3, <1>4 DEF Own, ToolTypes, LoopTypes, ChromeTypes, Guarding, GotReply, RemoveWaiter
<1>11. Done'
  BY <1>1, <1>3, <1>4 DEF Done, ToolTypes, LoopTypes, ChromeTypes, Numbers, GotReply, RemoveWaiter
<1>12. Waiting'
  <2>1. call \in Nat /\ \A w \in waiters \cup taken : w \in Sessions \X Nat /\ w[1] \in Sessions /\ w[2] \in Nat
    BY DialogGuardAssumption DEF ToolTypes, LoopTypes
  <2> QED
    BY <2>1, <1>1, <1>3, <1>4 DEF Waiting, Own, Mine, Guarding, How, GotReply, RemoveWaiter
<1>13. Heard'
  BY <1>1, <1>3, <1>4 DEF Heard, ToolTypes, LoopTypes, ChromeTypes, Own, Numbers, GotReply, RemoveWaiter
<1>14. Truth'
  BY <1>4 DEF Truth
<1> QED
  BY <1>5, <1>6, <1>7, <1>8, <1>9, <1>10, <1>11, <1>12, <1>13, <1>14

LEMMA Keeps_GotOpened ==
  ASSUME IInv, GotOpened
  PROVE  IInv'
<1> USE DEF IInv, Types
<1>1. sess \in Sessions /\ tool \in Tools /\ step \in 1..Len(Script[tool])
  BY DEF GotOpened, ToolTypes
<1>2. step \in 1..Calls(tool) /\ Calls(tool) \in Nat
  BY <1>1, DialogGuardAssumption, Scripts DEF Calls
<1>3. pc' = "idle" /\ last'.kind \in Kinds \ {"done"} /\ last'.dialog = opened /\ last'.sess = sess
  BY Interrupts DEF GotOpened
<1>4. UNCHANGED <<dialogs, tool, sess, step, call, found, loop, held, taken, wire, showing, executing, queue, answers, origin, performed>>
  BY DEF GotOpened, toolVars, loopVars, chromeVars
<1>5. ToolTypes'
  <2>1. UNCHANGED <<tool, sess, call, found, origin>> /\ opened' = 0 /\ got' = "none" /\ origin \in Seq([sess : Sessions, by : Nat]) /\ step' = step
    BY <1>4 DEF GotOpened, ChromeTypes
  <2> QED
    BY <1>1, <1>3, <2>1 DEF ToolTypes, Kinds
<1>6. LoopTypes'
  BY <1>1, <1>3, <1>4 DEF LoopTypes, ToolTypes, ChromeTypes, GotOpened, RemoveWaiter
<1>7. ChromeTypes'
  BY <1>4 DEF ChromeTypes
<1>8. Budget'
  BY <1>1, <1>2, <1>3, <1>4, DialogGuardAssumption DEF Budget, ToolTypes, GotOpened, RemoveWaiter
<1>9. Numbers'
  BY <1>4 DEF Numbers
<1>10. Own'
  BY <1>1, <1>3, <1>4 DEF Own, ToolTypes, LoopTypes, ChromeTypes, Guarding, GotOpened, RemoveWaiter
<1>11. Done'
  BY <1>1, <1>3, <1>4 DEF Done, ToolTypes, LoopTypes, ChromeTypes, Numbers, GotOpened, RemoveWaiter
<1>12. Waiting'
  <2>1. call \in Nat /\ \A w \in waiters \cup taken : w \in Sessions \X Nat /\ w[1] \in Sessions /\ w[2] \in Nat
    BY DialogGuardAssumption DEF ToolTypes, LoopTypes
  <2> QED
    BY <2>1, <1>1, <1>3, <1>4 DEF Waiting, Own, Mine, Guarding, How, GotOpened, RemoveWaiter
<1>13. Heard'
  BY <1>1, <1>3, <1>4 DEF Heard, ToolTypes, LoopTypes, ChromeTypes, Own, Numbers, GotOpened, RemoveWaiter
<1>14. Truth'
  BY <1>4 DEF Truth
<1> QED
  BY <1>5, <1>6, <1>7, <1>8, <1>9, <1>10, <1>11, <1>12, <1>13, <1>14

LEMMA Keeps_Timeout ==
  ASSUME IInv, Timeout
  PROVE  IInv'
<1> USE DEF IInv, Types
<1>1. sess \in Sessions /\ tool \in Tools /\ step \in 1..Len(Script[tool])
  BY DEF Timeout, Deadline, ToolTypes
<1>2. step \in 1..Calls(tool) /\ Calls(tool) \in Nat
  BY <1>1, DialogGuardAssumption, Scripts DEF Calls
<1>3. pc' = "idle" /\ last'.kind = "timeout" /\ last'.dialog = 0 /\ last'.sess = sess
  BY Finishes DEF Timeout
<1>4. UNCHANGED <<dialogs, tool, sess, step, call, found, loop, held, taken, wire, showing, executing, queue, answers, origin, performed>>
  BY DEF Timeout, toolVars, loopVars, chromeVars
<1>5. ToolTypes'
  BY <1>1, <1>3, <1>4 DEF ToolTypes, LoopTypes, ChromeTypes, Kinds, Timeout, Deadline, RemoveWaiter
<1>6. LoopTypes'
  BY <1>1, <1>3, <1>4 DEF LoopTypes, ToolTypes, ChromeTypes, Timeout, Deadline, RemoveWaiter
<1>7. ChromeTypes'
  BY <1>4 DEF ChromeTypes
<1>8. Budget'
  BY <1>1, <1>2, <1>3, <1>4, DialogGuardAssumption DEF Budget, ToolTypes, Timeout, Deadline, RemoveWaiter
<1>9. Numbers'
  BY <1>4 DEF Numbers
<1>10. Own'
  BY <1>1, <1>3, <1>4 DEF Own, ToolTypes, LoopTypes, ChromeTypes, Guarding, Timeout, Deadline, RemoveWaiter
<1>11. Done'
  BY <1>1, <1>3, <1>4 DEF Done, ToolTypes, LoopTypes, ChromeTypes, Numbers, Timeout, Deadline, RemoveWaiter
<1>12. Waiting'
  <2>1. call \in Nat /\ \A w \in waiters \cup taken : w \in Sessions \X Nat /\ w[1] \in Sessions /\ w[2] \in Nat
    BY DialogGuardAssumption DEF ToolTypes, LoopTypes
  <2> QED
    BY <2>1, <1>1, <1>3, <1>4 DEF Waiting, Own, Mine, Guarding, How, Timeout, Deadline, RemoveWaiter
<1>13. Heard'
  BY <1>1, <1>3, <1>4 DEF Heard, ToolTypes, LoopTypes, ChromeTypes, Own, Numbers, Timeout, Deadline, RemoveWaiter
<1>14. Truth'
  BY <1>4 DEF Truth
<1> QED
  BY <1>5, <1>6, <1>7, <1>8, <1>9, <1>10, <1>11, <1>12, <1>13, <1>14

LEMMA Keeps_LookForDialog ==
  ASSUME IInv, LookForDialog
  PROVE  IInv'
<1> USE DEF IInv, Types
<1>1. sess \in Sessions /\ tool \in Tools /\ step \in 1..Len(Script[tool])
  BY DEF LookForDialog, ToolTypes
<1>2. step \in 1..Calls(tool) /\ Calls(tool) \in Nat
  BY <1>1, DialogGuardAssumption, Scripts DEF Calls
<1>3. \/ pc' = "idle" /\ last'.kind = "dialog_not_open" /\ last'.dialog = 0 /\ last'.sess = sess /\ found' = found
      \/ dialogs[sess] # 0 /\ pc' = "answer" /\ last' = last /\ found' = dialogs[sess]
  BY Finishes DEF LookForDialog
<1>4. UNCHANGED <<dialogs, waiters, tool, sess, step, call, opened, got, loop, held, taken, wire, showing, executing, queue, answers, origin, performed>>
  BY DEF LookForDialog, toolVars, loopVars, chromeVars
<1>5. ToolTypes'
  BY <1>1, <1>3, <1>4 DEF ToolTypes, LoopTypes, ChromeTypes, Kinds, LookForDialog
<1>6. LoopTypes'
  BY <1>4 DEF LoopTypes
<1>7. ChromeTypes'
  BY <1>4 DEF ChromeTypes
<1>8. Budget'
  BY <1>1, <1>2, <1>3, <1>4, DialogGuardAssumption DEF Budget, ToolTypes, LookForDialog
<1>9. Numbers'
  BY <1>4 DEF Numbers
<1>10. Own'
  BY <1>1, <1>3, <1>4 DEF Own, ToolTypes, LoopTypes, ChromeTypes, Guarding, LookForDialog
<1>11. Done'
  BY <1>1, <1>3, <1>4 DEF Done, ToolTypes, LoopTypes, ChromeTypes, Numbers, LookForDialog
<1>12. Waiting'
  <2>1. call \in Nat /\ \A w \in waiters \cup taken : w \in Sessions \X Nat /\ w[1] \in Sessions /\ w[2] \in Nat
    BY DialogGuardAssumption DEF ToolTypes, LoopTypes
  <2> QED
    BY <2>1, <1>1, <1>3, <1>4 DEF Waiting, Own, Mine, Guarding, How, LookForDialog
<1>13. Heard'
  BY <1>1, <1>3, <1>4 DEF Heard, ToolTypes, LoopTypes, ChromeTypes, Own, Numbers, LookForDialog
<1>14. Truth'
  BY <1>4 DEF Truth
<1> QED
  BY <1>5, <1>6, <1>7, <1>8, <1>9, <1>10, <1>11, <1>12, <1>13, <1>14

LEMMA Keeps_AnswerDialog ==
  ASSUME IInv, AnswerDialog
  PROVE  IInv'
<1> USE DEF IInv, Types
<1>1. sess \in Sessions /\ tool \in Tools /\ step \in 1..Len(Script[tool])
  BY DEF AnswerDialog, ToolTypes
<1>2. step \in 1..Calls(tool) /\ Calls(tool) \in Nat
  BY <1>1, DialogGuardAssumption, Scripts DEF Calls
<1>3. call + 1 \in 1..MaxCalls
  BY <1>1, <1>2, DialogGuardAssumption DEF AnswerDialog, Budget, ToolTypes
<1>4. UNCHANGED <<dialogs, waiters, tool, sess, step, opened, got, found, last, loop, held, taken, wire, showing, executing, queue, origin, performed>>
  BY DEF AnswerDialog, toolVars, loopVars, chromeVars
<1>5. ToolTypes'
  BY <1>1, <1>3, <1>4 DEF ToolTypes, LoopTypes, ChromeTypes, Kinds, AnswerDialog
<1>6. LoopTypes'
  BY <1>4 DEF LoopTypes
<1>7. ChromeTypes'
  BY <1>1, <1>3, <1>4 DEF ChromeTypes, ToolTypes, LoopTypes, AnswerDialog
<1>8. Budget'
  <2>1. pc \in {"send", "answer"} /\ pc' \in {"await", "answering"} /\ UNCHANGED <<tool, step>> /\ call' = call + 1 /\ call \in Nat
    BY <1>4 DEF AnswerDialog, ToolTypes
  <2> QED
    BY <1>2, <1>3, <2>1, DialogGuardAssumption DEF Budget
<1>9. Numbers'
  <2>1. call \in Nat /\ call' = call + 1 /\ UNCHANGED <<executing, performed, wire, origin, queue>>
    BY <1>4 DEF AnswerDialog, ToolTypes
  <2>2. \A s \in Sessions : \A i \in 1..Len(queue[s]) : queue[s][i] \in Nat
    BY Elements
  <2>3. \A i \in 1..Len(wire) : wire[i].n \in Nat
    BY Elements
  <2>4. \A i \in 1..Len(origin) : origin[i].by \in Nat
    BY Elements
  <2>5. \A a \in answers : a[2] \in Nat
    BY DialogGuardAssumption DEF ChromeTypes
  <2>6. \A s \in Sessions : \A i \in 1..Len(queue[s]) : queue[s][i] <= call
    BY DEF Numbers
  <2>7. ASSUME NEW s \in Sessions, NEW i \in 1..Len(queue'[s]) PROVE queue'[s][i] <= call + 1
    <3>1. queue'[s][i] = call + 1 \/ (i \in 1..Len(queue[s]) /\ queue'[s][i] = queue[s][i])
      BY <1>3, <2>1
    <3>2. i \in 1..Len(queue[s]) => queue[s][i] \in Nat /\ queue[s][i] <= call
      BY <2>2, <2>6
    <3> QED
      BY <3>1, <3>2, <2>1
  <2>8. \A a \in answers' : a[2] <= call + 1
    BY <2>1, <2>5 DEF AnswerDialog, Numbers
  <2> QED
    BY <2>1, <2>3, <2>4, <2>7, <2>8 DEF Numbers
<1>10. Own'
  BY <1>1, <1>3, <1>4 DEF Own, ToolTypes, LoopTypes, ChromeTypes, Guarding, AnswerDialog
<1>11. Done'
  BY <1>1, <1>3, <1>4 DEF Done, ToolTypes, LoopTypes, ChromeTypes, Numbers, AnswerDialog
<1>12. Waiting'
  <2>1. call \in Nat /\ \A w \in waiters \cup taken : w \in Sessions \X Nat /\ w[1] \in Sessions /\ w[2] \in Nat
    BY DialogGuardAssumption DEF ToolTypes, LoopTypes
  <2> QED
    BY <2>1, <1>1, <1>3, <1>4 DEF Waiting, Own, Mine, Guarding, How, AnswerDialog
<1>13. Heard'
  BY <1>1, <1>3, <1>4 DEF Heard, ToolTypes, LoopTypes, ChromeTypes, Own, Numbers, AnswerDialog
<1>14. Truth'
  BY <1>4 DEF Truth
<1> QED
  BY <1>5, <1>6, <1>7, <1>8, <1>9, <1>10, <1>11, <1>12, <1>13, <1>14

LEMMA Keeps_AnswerReplied ==
  ASSUME IInv, AnswerReplied
  PROVE  IInv'
<1> USE DEF IInv, Types
<1>1. sess \in Sessions /\ tool \in Tools /\ step \in 1..Len(Script[tool])
  BY DEF AnswerReplied, ToolTypes
<1>2. step \in 1..Calls(tool) /\ Calls(tool) \in Nat
  BY <1>1, DialogGuardAssumption, Scripts DEF Calls
<1>3. \/ pc' = "forget" /\ last' = last
      \/ pc' = "idle" /\ last'.kind = "failed" /\ last'.dialog = found /\ last'.sess = sess
  BY Finishes DEF AnswerReplied
<1>4. UNCHANGED <<dialogs, waiters, tool, sess, step, call, opened, found, loop, held, taken, wire, showing, executing, queue, answers, origin, performed>>
  BY DEF AnswerReplied, toolVars, loopVars, chromeVars
<1>5. ToolTypes'
  BY <1>1, <1>3, <1>4 DEF ToolTypes, LoopTypes, ChromeTypes, Kinds, AnswerReplied
<1>6. LoopTypes'
  BY <1>4 DEF LoopTypes
<1>7. ChromeTypes'
  BY <1>4 DEF ChromeTypes
<1>8. Budget'
  BY <1>1, <1>2, <1>3, <1>4, DialogGuardAssumption DEF Budget, ToolTypes, AnswerReplied
<1>9. Numbers'
  BY <1>4 DEF Numbers
<1>10. Own'
  BY <1>1, <1>3, <1>4 DEF Own, ToolTypes, LoopTypes, ChromeTypes, Guarding, AnswerReplied
<1>11. Done'
  BY <1>1, <1>3, <1>4 DEF Done, ToolTypes, LoopTypes, ChromeTypes, Numbers, AnswerReplied
<1>12. Waiting'
  <2>1. call \in Nat /\ \A w \in waiters \cup taken : w \in Sessions \X Nat /\ w[1] \in Sessions /\ w[2] \in Nat
    BY DialogGuardAssumption DEF ToolTypes, LoopTypes
  <2> QED
    BY <2>1, <1>1, <1>3, <1>4 DEF Waiting, Own, Mine, Guarding, How, AnswerReplied
<1>13. Heard'
  BY <1>1, <1>3, <1>4 DEF Heard, ToolTypes, LoopTypes, ChromeTypes, Own, Numbers, AnswerReplied
<1>14. Truth'
  BY <1>4 DEF Truth
<1> QED
  BY <1>5, <1>6, <1>7, <1>8, <1>9, <1>10, <1>11, <1>12, <1>13, <1>14

LEMMA Keeps_ForgetDialog ==
  ASSUME IInv, ForgetDialog
  PROVE  IInv'
<1> USE DEF IInv, Types
<1>1. sess \in Sessions /\ tool \in Tools /\ step \in 1..Len(Script[tool])
  BY DEF ForgetDialog, ToolTypes
<1>2. step \in 1..Calls(tool) /\ Calls(tool) \in Nat
  BY <1>1, DialogGuardAssumption, Scripts DEF Calls
<1>3. pc' = "idle" /\ last'.kind = "handled" /\ last'.dialog = found /\ last'.sess = sess
  BY Finishes DEF ForgetDialog
<1>4. UNCHANGED <<waiters, tool, sess, step, call, opened, got, found, loop, held, taken, wire, showing, executing, queue, answers, origin, performed>>
  BY DEF ForgetDialog, toolVars, loopVars, chromeVars
<1>5. ToolTypes'
  BY <1>1, <1>3, <1>4 DEF ToolTypes, LoopTypes, ChromeTypes, Kinds, ForgetDialog, Unrecorded
<1>6. LoopTypes'
  <2>1. dialogs' = [dialogs EXCEPT ![sess] = 0]
    BY DEF ForgetDialog, Unrecorded
  <2>2. UNCHANGED <<waiters, taken, origin, loop, held>>
    BY <1>4
  <2>3. Len(origin) \in Nat
    BY DEF ChromeTypes
  <2> QED
    BY <1>1, <2>1, <2>2, <2>3 DEF LoopTypes
<1>7. ChromeTypes'
  BY <1>4 DEF ChromeTypes
<1>8. Budget'
  BY <1>1, <1>2, <1>3, <1>4, DialogGuardAssumption DEF Budget, ToolTypes, ForgetDialog, Unrecorded
<1>9. Numbers'
  BY <1>4 DEF Numbers
<1>10. Own'
  BY <1>1, <1>3, <1>4 DEF Own, ToolTypes, LoopTypes, ChromeTypes, Guarding, ForgetDialog, Unrecorded
<1>11. Done'
  BY <1>1, <1>3, <1>4 DEF Done, ToolTypes, LoopTypes, ChromeTypes, Numbers, ForgetDialog, Unrecorded
<1>12. Waiting'
  <2>1. call \in Nat /\ \A w \in waiters \cup taken : w \in Sessions \X Nat /\ w[1] \in Sessions /\ w[2] \in Nat
    BY DialogGuardAssumption DEF ToolTypes, LoopTypes
  <2> QED
    BY <2>1, <1>1, <1>3, <1>4 DEF Waiting, Own, Mine, Guarding, How, ForgetDialog, Unrecorded
<1>13. Heard'
  BY <1>1, <1>3, <1>4 DEF Heard, ToolTypes, LoopTypes, ChromeTypes, Own, Numbers, ForgetDialog, Unrecorded
<1>14. Truth'
  BY <1>1, <1>3, <1>4 DEF Truth, ToolTypes, LoopTypes, ChromeTypes, ForgetDialog, Unrecorded
<1> QED
  BY <1>5, <1>6, <1>7, <1>8, <1>9, <1>10, <1>11, <1>12, <1>13, <1>14

-----------------------------------------------------------------------------
(* The read loop.                                                           *)

LEMMA Keeps_CollectOpening ==
  ASSUME IInv, CollectOpening
  PROVE  IInv'
<1> USE DEF IInv, Types
<1>1. /\ Head(wire) = wire[1] /\ wire[1] \in Messages /\ 1 \in 1..Len(wire) /\ Len(wire) \in Nat
      /\ wire' \in Seq(Messages) /\ Len(wire') = Len(wire) - 1
      /\ \A i \in 1..Len(wire') : i + 1 \in 1..Len(wire) /\ wire'[i] = wire[i + 1]
  BY Shift DEF CollectOpening, ToolTypes, LoopTypes, ChromeTypes
<1>2. wire[1].sess \in Sessions /\ wire[1].n \in Nat
  BY <1>1 DEF Messages
<1>3. wire[1].n \in 1..Len(origin) /\ origin[wire[1].n].sess = wire[1].sess
  BY <1>1 DEF CollectOpening, Own
<1>4. UNCHANGED <<waiters, pc, tool, sess, step, call, opened, got, found, last, taken, showing, executing, queue, answers, origin, performed>>
  BY DEF CollectOpening, toolVars, loopVars, chromeVars
<1>5. ToolTypes'
  BY <1>4 DEF ToolTypes
<1>6. LoopTypes'
  <2>1. dialogs' = [dialogs EXCEPT ![wire[1].sess] = wire[1].n] /\ held' = [dialog |-> wire[1].n, sess |-> wire[1].sess]
    BY <1>1 DEF CollectOpening
  <2>2. held'.dialog = wire[1].n /\ held'.sess = wire[1].sess
    BY <2>1
  <2>3. UNCHANGED <<waiters, taken, origin>> /\ loop' = "take"
    BY <1>4 DEF CollectOpening
  <2>4. Len(origin) \in Nat
    BY DEF ChromeTypes
  <2> QED
    BY <1>2, <1>3, <2>1, <2>2, <2>3, <2>4 DEF LoopTypes
<1>7. ChromeTypes'
  BY <1>1, <1>2, <1>3, <1>4 DEF ChromeTypes, ToolTypes, LoopTypes, CollectOpening
<1>8. Budget'
  BY <1>4 DEF Budget
<1>9. Numbers'
  BY <1>1, <1>2, <1>3, <1>4 DEF Numbers, ToolTypes, LoopTypes, ChromeTypes, CollectOpening
<1>10. Own'
  BY <1>1, <1>2, <1>3, <1>4 DEF Own, ToolTypes, LoopTypes, ChromeTypes, Guarding, CollectOpening
<1>11. Done'
  BY <1>1, <1>2, <1>3, <1>4 DEF Done, ToolTypes, LoopTypes, ChromeTypes, Numbers, CollectOpening
<1>12. Waiting'
  <2>1. call \in Nat /\ \A w \in waiters \cup taken : w \in Sessions \X Nat /\ w[1] \in Sessions /\ w[2] \in Nat
    BY DialogGuardAssumption DEF ToolTypes, LoopTypes
  <2> QED
    BY <2>1, <1>1, <1>2, <1>3, <1>4 DEF Waiting, Own, Mine, Guarding, How, CollectOpening
<1>13. Heard'
  BY <1>1, <1>2, <1>3, <1>4 DEF Heard, ToolTypes, LoopTypes, ChromeTypes, Own, Numbers, CollectOpening
<1>14. Truth'
  BY <1>1, <1>4, TruthRead DEF CollectOpening
<1> QED
  BY <1>5, <1>6, <1>7, <1>8, <1>9, <1>10, <1>11, <1>12, <1>13, <1>14

LEMMA Keeps_CollectClosed ==
  ASSUME IInv, CollectClosed
  PROVE  IInv'
<1> USE DEF IInv, Types
<1>1. /\ Head(wire) = wire[1] /\ wire[1] \in Messages /\ 1 \in 1..Len(wire) /\ Len(wire) \in Nat
      /\ wire' \in Seq(Messages) /\ Len(wire') = Len(wire) - 1
      /\ \A i \in 1..Len(wire') : i + 1 \in 1..Len(wire) /\ wire'[i] = wire[i + 1]
  BY Shift DEF CollectClosed, ToolTypes, LoopTypes, ChromeTypes
<1>2. wire[1].sess \in Sessions /\ wire[1].n \in Nat
  BY <1>1 DEF Messages
<1>3. UNCHANGED <<waiters, pc, tool, sess, step, call, opened, got, found, last, loop, held, taken, showing, executing, queue, answers, origin, performed>>
  BY DEF CollectClosed, toolVars, loopVars, chromeVars
<1>4. ToolTypes'
  BY <1>3 DEF ToolTypes
<1>5. LoopTypes'
  <2>1. dialogs' = [dialogs EXCEPT ![wire[1].sess] = 0]
    BY <1>1 DEF CollectClosed, Unrecorded
  <2>2. UNCHANGED <<waiters, taken, origin, loop, held>>
    BY <1>3
  <2>3. Len(origin) \in Nat
    BY DEF ChromeTypes
  <2> QED
    BY <1>2, <2>1, <2>2, <2>3 DEF LoopTypes
<1>6. ChromeTypes'
  BY <1>1, <1>2, <1>3 DEF ChromeTypes, ToolTypes, LoopTypes, CollectClosed, Unrecorded
<1>7. Budget'
  BY <1>3 DEF Budget
<1>8. Numbers'
  BY <1>1, <1>2, <1>3 DEF Numbers, ToolTypes, LoopTypes, ChromeTypes, CollectClosed, Unrecorded
<1>9. Own'
  BY <1>1, <1>2, <1>3 DEF Own, ToolTypes, LoopTypes, ChromeTypes, Guarding, CollectClosed, Unrecorded
<1>10. Done'
  BY <1>1, <1>2, <1>3 DEF Done, ToolTypes, LoopTypes, ChromeTypes, Numbers, CollectClosed, Unrecorded
<1>11. Waiting'
  BY <1>3 DEF Waiting, Mine, Guarding, How
<1>12. Heard'
  BY <1>1, <1>2, <1>3 DEF Heard, ToolTypes, LoopTypes, ChromeTypes, Own, Numbers, CollectClosed, Unrecorded
<1>13. Truth'
  BY <1>1, <1>3, TruthRead DEF CollectClosed, Unrecorded
<1> QED
  BY <1>4, <1>5, <1>6, <1>7, <1>8, <1>9, <1>10, <1>11, <1>12, <1>13

LEMMA Keeps_ReadReply ==
  ASSUME IInv, ReadReply
  PROVE  IInv'
<1> USE DEF IInv, Types
<1>1. /\ Head(wire) = wire[1] /\ wire[1] \in Messages /\ 1 \in 1..Len(wire) /\ Len(wire) \in Nat
      /\ wire' \in Seq(Messages) /\ Len(wire') = Len(wire) - 1
      /\ \A i \in 1..Len(wire') : i + 1 \in 1..Len(wire) /\ wire'[i] = wire[i + 1]
  BY Shift DEF ReadReply, ToolTypes, LoopTypes, ChromeTypes
<1>2. wire[1].sess \in Sessions /\ wire[1].n \in Nat
  BY <1>1 DEF Messages
<1>3. UNCHANGED <<dialogs, waiters, pc, tool, sess, step, call, opened, found, last, loop, held, taken, showing, executing, queue, answers, origin, performed>>
  BY DEF ReadReply, toolVars, loopVars, chromeVars
<1>4. ToolTypes'
  BY <1>1, <1>2, <1>3 DEF ToolTypes, LoopTypes, ChromeTypes, Kinds, ReadReply, Awaits
<1>5. LoopTypes'
  BY <1>3 DEF LoopTypes
<1>6. ChromeTypes'
  BY <1>1, <1>2, <1>3 DEF ChromeTypes, ToolTypes, LoopTypes, ReadReply, Awaits
<1>7. Budget'
  BY <1>3 DEF Budget
<1>8. Numbers'
  BY <1>1, <1>2, <1>3 DEF Numbers, ToolTypes, LoopTypes, ChromeTypes, ReadReply, Awaits
<1>9. Own'
  BY <1>1, <1>2, <1>3 DEF Own, ToolTypes, LoopTypes, ChromeTypes, Guarding, ReadReply, Awaits
<1>10. Done'
  BY <1>1, <1>2, <1>3 DEF Done, ToolTypes, LoopTypes, ChromeTypes, Numbers, ReadReply, Awaits
<1>11. Waiting'
  BY <1>3 DEF Waiting, Mine, Guarding, How
<1>12. Heard'
  BY <1>3 DEF Heard
<1>13. Truth'
  BY <1>1, <1>3, TruthRead DEF ReadReply, Awaits
<1> QED
  BY <1>4, <1>5, <1>6, <1>7, <1>8, <1>9, <1>10, <1>11, <1>12, <1>13

LEMMA Keeps_TakeWaiters ==
  ASSUME IInv, TakeWaiters
  PROVE  IInv'
<1> USE DEF IInv, Types
<1>1. UNCHANGED <<dialogs, pc, tool, sess, step, call, opened, got, found, last, held, wire, showing, executing, queue, answers, origin, performed>>
  BY DEF TakeWaiters, toolVars, loopVars, chromeVars
<1>2. ToolTypes'
  BY <1>1 DEF ToolTypes
<1>3. LoopTypes'
  BY <1>1 DEF LoopTypes, ToolTypes, ChromeTypes, TakeWaiters, WaitersOf
<1>4. ChromeTypes'
  BY <1>1 DEF ChromeTypes
<1>5. Budget'
  BY <1>1 DEF Budget
<1>6. Numbers'
  BY <1>1 DEF Numbers
<1>7. Own'
  BY <1>1 DEF Own, ToolTypes, LoopTypes, ChromeTypes, Guarding, TakeWaiters, WaitersOf
<1>8. Done'
  BY <1>1 DEF Done
<1>9. Waiting'
  <2>1. call \in Nat /\ \A w \in waiters \cup taken : w \in Sessions \X Nat /\ w[1] \in Sessions /\ w[2] \in Nat
    BY DialogGuardAssumption DEF ToolTypes, LoopTypes
  <2> QED
    BY <2>1, <1>1 DEF Waiting, Own, Mine, Guarding, How, TakeWaiters, WaitersOf
<1>10. Heard'
  BY <1>1 DEF Heard, ToolTypes, LoopTypes, ChromeTypes, Own, Numbers, TakeWaiters, WaitersOf
<1>11. Truth'
  BY <1>1 DEF Truth
<1> QED
  BY <1>2, <1>3, <1>4, <1>5, <1>6, <1>7, <1>8, <1>9, <1>10, <1>11

LEMMA Keeps_NotifyWaiters ==
  ASSUME IInv, NotifyWaiters
  PROVE  IInv'
<1> USE DEF IInv, Types
<1>1. opened' = opened \/ (opened' = held.dialog /\ Guarding /\ held.sess = sess)
  <2>1. Guarding /\ (\E w \in taken : w[2] = Mine) => held.sess = sess
    BY DEF Waiting
  <2>2. opened' # opened => Guarding /\ opened' = held.dialog /\ \E w \in taken : w[2] = Mine
    BY DEF NotifyWaiters, Guarding, Mine
  <2> QED
    BY <2>1, <2>2
<1>2. Guarding /\ <<sess, Mine>> \in taken => opened' = held.dialog
  BY DEF NotifyWaiters, Guarding, Mine
<1>3. held.dialog # 0
  BY DEF NotifyWaiters, LoopTypes
<1>4. UNCHANGED <<dialogs, waiters, pc, tool, sess, step, call, got, found, last, held, wire, showing, executing, queue, answers, origin, performed>>
  BY DEF NotifyWaiters, toolVars, loopVars, chromeVars
<1>5. ToolTypes'
  BY <1>1, <1>2, <1>3, <1>4 DEF ToolTypes, LoopTypes, ChromeTypes, Kinds, NotifyWaiters
<1>6. LoopTypes'
  BY <1>1, <1>2, <1>3, <1>4 DEF LoopTypes, ToolTypes, ChromeTypes, NotifyWaiters
<1>7. ChromeTypes'
  BY <1>4 DEF ChromeTypes
<1>8. Budget'
  BY <1>4 DEF Budget
<1>9. Numbers'
  BY <1>4 DEF Numbers
<1>10. Own'
  <2>1. UNCHANGED <<dialogs, origin, pc, sess, found, last, held, wire>> /\ loop' = "read" /\ loop = "notify"
    BY <1>4 DEF NotifyWaiters
  <2> QED
    BY <1>1, <2>1 DEF Own, Guarding
<1>11. Done'
  BY <1>4 DEF Done
<1>12. Waiting'
  <2>1. UNCHANGED <<waiters, pc, sess, call, tool, step>> /\ taken' = {}
    BY <1>4 DEF NotifyWaiters
  <2> QED
    BY <1>1, <1>2, <1>3, <2>1 DEF Waiting, Guarding, Mine, How
<1>13. Heard'
  BY <1>1, <1>2, <1>3, <1>4 DEF Heard, ToolTypes, LoopTypes, ChromeTypes, Own, Numbers, NotifyWaiters
<1>14. Truth'
  BY <1>4 DEF Truth
<1> QED
  BY <1>5, <1>6, <1>7, <1>8, <1>9, <1>10, <1>11, <1>12, <1>13, <1>14

-----------------------------------------------------------------------------
(* Chrome.                                                                  *)

\* Calls are performed and go on; none appears that was not made.
CallsMoveOn ==
    /\ queue' \in [Sessions -> Seq(1..MaxCalls)]
    /\ \A s \in Sessions : \A i \in 1..Len(queue'[s]) : queue'[s][i] <= call
    /\ executing' \in [Sessions -> Nat]
    /\ \A s \in Sessions : executing'[s] # 0 => executing'[s] \in performed'
    /\ performed \subseteq performed' /\ performed' \subseteq 1..call
    /\ answers' \subseteq answers

\* Dialogs keep their numbers.
DialogsAdded ==
    /\ origin' \in Seq([sess : Sessions, by : Nat])
    /\ Len(origin') \in Nat /\ Len(origin) \in Nat /\ Len(origin) <= Len(origin') /\ Len(origin') <= MaxDialogs
    /\ \A i \in 1..Len(origin) : origin'[i] = origin[i]
    /\ \A i \in 1..Len(origin') : origin'[i].by <= call

\* What may be sent: a reply to a call that was made, and a good one to the call
\* under way only if that was performed; or an event that says what shows.
MaySay(m) ==
    /\ m \in Messages
    /\ \/ /\ m.kind \in {"ok", "err"} /\ m.n <= call /\ showing' = showing
          /\ m.kind = "ok" /\ pc = "await" /\ m.n = call => call \in performed'
       \/ /\ m.kind = "closed" /\ m.n = 0
          /\ showing' = [showing EXCEPT ![m.sess] = 0]
       \/ /\ m.kind = "opening" /\ m.n \in 1..Len(origin') /\ origin'[m.n].sess = m.sess
          /\ showing' = [showing EXCEPT ![m.sess] = m.n]

LEMMA DialogsBounded ==
  ASSUME DialogsAdded
  PROVE  \A n \in 1..Len(origin') : n \in 0..Len(origin')
BY DEF DialogsAdded

LEMMA Saying ==
  ASSUME IInv, NEW m, MaySay(m), wire' = Append(wire, m), CallsMoveOn, DialogsAdded,
         UNCHANGED <<dialogs, waiters, pc, tool, sess, step, call, opened, got, found, last, loop, held, taken>>
  PROVE  IInv'
<1> USE DEF IInv, Types
<1>1. /\ wire' \in Seq(Messages) /\ Len(wire') = Len(wire) + 1 /\ Len(wire) \in Nat /\ m \in Messages
      /\ wire'[Len(wire) + 1] = m
      /\ \A i \in 1..Len(wire) : wire'[i] = wire[i]
  BY Push DEF MaySay, ChromeTypes
<1>2. \A i \in 1..Len(wire') : i \in 1..Len(wire) \/ i = Len(wire) + 1
  BY <1>1
<1>3. m.sess \in Sessions /\ m.n \in Nat /\ m.kind \in {"ok", "err", "opening", "closed"}
  BY <1>1 DEF Messages
<1>4. \A d \in 1..Len(origin) : d \in 1..Len(origin') /\ origin'[d] = origin[d]
  BY DEF DialogsAdded
<1>5. 0..Len(origin) \subseteq 0..Len(origin') /\ 0 \in 0..Len(origin')
  BY DEF DialogsAdded
<1>6. ToolTypes'
  BY <1>5 DEF ToolTypes
<1>7. LoopTypes'
  BY <1>5 DEF LoopTypes
<1>8. ChromeTypes'
  <2>1. showing' \in [Sessions -> 0..Len(origin')]
    <3>1. showing \in [Sessions -> 0..Len(origin')]
      BY <1>5 DEF ChromeTypes
    <3>2. \/ showing' = showing
          \/ \E n \in 0..Len(origin') : showing' = [showing EXCEPT ![m.sess] = n]
      BY <1>5, DialogsBounded DEF MaySay
    <3> QED
      BY <1>3, <3>1, <3>2
  <2> QED
    BY <1>1, <2>1 DEF ChromeTypes, CallsMoveOn, DialogsAdded
<1>9. Budget'
  BY DEF Budget
<1>10. Numbers'
  <2>1. m.kind \in {"ok", "err"} => m.n <= call
    BY DEF MaySay
  <2>2. \A i \in 1..Len(wire') : wire'[i].kind \in {"ok", "err"} => wire'[i].n <= call
    BY <1>1, <1>2, <2>1 DEF Numbers
  <2>3. \A a \in answers' : a[2] <= call
    BY DEF Numbers, CallsMoveOn
  <2> QED
    BY <2>2, <2>3 DEF Numbers, CallsMoveOn, DialogsAdded
<1>11. Own'
  <2>1. \A d \in 1..Len(origin) : origin'[d].sess = origin[d].sess
    BY <1>4
  <2>2. \A s \in Sessions : dialogs[s] # 0 => origin'[dialogs[s]].sess = s
    <3>1. \A s \in Sessions : dialogs[s] # 0 => dialogs[s] \in 1..Len(origin)
      BY DEF LoopTypes, DialogsAdded
    <3> QED
      BY <2>1, <3>1 DEF Own
  <2>3. /\ opened # 0 => opened \in 1..Len(origin)
        /\ found # 0 => found \in 1..Len(origin)
        /\ last.dialog # 0 => last.dialog \in 1..Len(origin)
        /\ loop # "read" => held.dialog \in 1..Len(origin)
    BY DEF ToolTypes, LoopTypes, DialogsAdded
  <2>4. /\ opened # 0 => Guarding /\ origin'[opened].sess = sess
        /\ pc \in {"answer", "answering", "forget"} => found # 0 /\ origin'[found].sess = sess
        /\ last.dialog # 0 => origin'[last.dialog].sess = last.sess
        /\ loop # "read" => origin'[held.dialog].sess = held.sess
    BY <2>1, <2>3 DEF Own
  <2>5. m.kind = "opening" => m.n \in 1..Len(origin') /\ origin'[m.n].sess = m.sess
    BY DEF MaySay
  <2>6. ASSUME NEW i \in 1..Len(wire'), wire'[i].kind = "opening"
        PROVE  wire'[i].n \in 1..Len(origin') /\ origin'[wire'[i].n].sess = wire'[i].sess
    <3>1. CASE i \in 1..Len(wire)
      <4>1. wire'[i] = wire[i]
        BY <1>1, <3>1
      <4>2. wire[i].n \in 1..Len(origin) /\ origin[wire[i].n].sess = wire[i].sess
        BY <2>6, <3>1, <4>1 DEF Own
      <4> QED
        BY <1>4, <2>1, <4>1, <4>2
    <3>2. CASE i = Len(wire) + 1
      BY <1>1, <2>5, <2>6, <3>2
    <3> QED
      BY <1>2, <3>1, <3>2
  <2> QED
    BY <2>2, <2>4, <2>6 DEF Own, Guarding
<1>12. Done'
  <2>1. performed \subseteq performed' /\ answers' \subseteq answers
    BY DEF CallsMoveOn
  <2>2. pc = "await" => \A i \in 1..Len(wire') : wire'[i].kind = "ok" /\ wire'[i].n = call => call \in performed'
    <3> SUFFICES ASSUME pc = "await", NEW i \in 1..Len(wire'), wire'[i].kind = "ok", wire'[i].n = call
                 PROVE  call \in performed'
      OBVIOUS
    <3>1. CASE i \in 1..Len(wire)
      BY <1>1, <2>1, <3>1 DEF Done
    <3>2. CASE i = Len(wire) + 1
      BY <1>1, <3>2 DEF MaySay
    <3> QED
      BY <1>2, <3>1, <3>2
  <2> QED
    BY <2>1, <2>2 DEF Done
<1>13. Waiting'
  BY DEF Waiting, Mine, Guarding, How
<1>14. Heard'
  <2>1. pc = "await" /\ dialogs[sess] # 0 => dialogs[sess] \in 1..Len(origin)
    BY DEF ToolTypes, LoopTypes, DialogsAdded
  <2> QED
    BY <1>4, <2>1 DEF Heard
<1>15. Truth'
  <2>1. \/ m.kind \in {"ok", "err"} /\ showing' = showing
        \/ m.kind \in {"opening", "closed"} /\ showing' = [showing EXCEPT ![m.sess] = m.n]
    BY DEF MaySay
  <2> QED
    BY <1>1, <2>1, TruthSaid
<1> QED
  BY <1>6, <1>7, <1>8, <1>9, <1>10, <1>11, <1>12, <1>13, <1>14, <1>15

\* A dialog that is shown gets the next number.
LEMMA Showing ==
  ASSUME IInv, NEW s \in Sessions, NEW by \in Nat, by <= call, ShowDialog(s, by)
  PROVE  DialogsAdded /\ \E m : MaySay(m) /\ wire' = Append(wire, m)
<1> DEFINE new == [sess |-> s, by |-> by]
           m == Event("opening", s, Len(origin) + 1)
<1>1. /\ new \in [sess : Sessions, by : Nat] /\ new.sess = s /\ new.by = by
      /\ origin \in Seq([sess : Sessions, by : Nat]) /\ Len(origin) \in Nat /\ Len(origin) < MaxDialogs
      /\ origin' = Append(origin, new)
  BY DEF ShowDialog, IInv, Types, ChromeTypes
<1> HIDE DEF new
<1>2. /\ origin' \in Seq([sess : Sessions, by : Nat]) /\ Len(origin') = Len(origin) + 1
      /\ \A i \in 1..Len(origin) : origin'[i] = origin[i]
      /\ origin'[Len(origin) + 1] = new
  BY <1>1, Push
<1>3. DialogsAdded
  <2>1. ASSUME NEW i \in 1..Len(origin') PROVE origin'[i].by <= call
    <3>1. i \in 1..Len(origin) \/ i = Len(origin) + 1
      BY <1>1, <1>2
    <3> QED
      BY <1>1, <1>2, <3>1 DEF IInv, Numbers
  <2> QED
    BY <1>1, <1>2, <2>1, DialogGuardAssumption DEF DialogsAdded
<1>4. m \in Messages /\ m.kind = "opening" /\ m.sess = s /\ m.n = Len(origin) + 1
  BY <1>1, EventFields
<1>5. wire' = Append(wire, m) /\ showing' = [showing EXCEPT ![s] = Len(origin) + 1]
  BY DEF ShowDialog
<1> HIDE DEF m
<1>6. MaySay(m)
  BY <1>1, <1>2, <1>4, <1>5 DEF MaySay
<1> QED
  BY <1>3, <1>5, <1>6

LEMMA Staying ==
  ASSUME IInv, origin' = origin
  PROVE  DialogsAdded
<1>1. origin \in Seq([sess : Sessions, by : Nat]) /\ Len(origin) \in Nat /\ Len(origin) <= MaxDialogs
  BY DEF IInv, Types, ChromeTypes
<1> QED
  BY <1>1 DEF DialogsAdded, IInv, Numbers

LEMMA Idling ==
  ASSUME IInv, UNCHANGED <<queue, executing, performed>>, answers' \subseteq answers
  PROVE  CallsMoveOn
BY DEF CallsMoveOn, IInv, Types, ChromeTypes, Numbers

\* The page takes the first of the calls that wait for it.
LEMMA Performing ==
  ASSUME IInv, NEW s \in Sessions, queue[s] # <<>>,
         performed' = performed \cup {Head(queue[s])}, queue' = [queue EXCEPT ![s] = Tail(@)],
         answers' = answers,
         executing' = executing \/ executing' = [executing EXCEPT ![s] = Head(queue[s])]
  PROVE  CallsMoveOn /\ Head(queue[s]) \in performed' /\ Head(queue[s]) \in Nat /\ Head(queue[s]) <= call
<1> DEFINE old == queue[s]
<1>1. old \in Seq(1..MaxCalls)
  BY DEF IInv, Types, ChromeTypes
<1>2. old # <<>>
  OBVIOUS
<1>3. /\ queue' = [queue EXCEPT ![s] = Tail(old)]
      /\ queue \in [Sessions -> Seq(1..MaxCalls)] /\ call \in Nat /\ executing \in [Sessions -> Nat]
  BY DEF IInv, Types, ChromeTypes, ToolTypes
<1>4. \A i \in 1..Len(old) : old[i] <= call
  BY DEF IInv, Numbers
<1> HIDE DEF old
<1>5. /\ Head(old) = old[1] /\ old[1] \in 1..MaxCalls /\ Tail(old) \in Seq(1..MaxCalls)
      /\ Len(Tail(old)) = Len(old) - 1 /\ Len(old) \in Nat \ {0}
      /\ \A i \in 1..Len(old) - 1 : Tail(old)[i] = old[i + 1]
  BY <1>1, <1>2, Shift
<1>6. old[1] \in 1..call /\ old[1] \in Nat
  BY <1>3, <1>4, <1>5, DialogGuardAssumption
<1>7. queue' \in [Sessions -> Seq(1..MaxCalls)] /\ queue'[s] = Tail(old)
      /\ \A q \in Sessions : q # s => queue'[q] = queue[q]
  BY <1>3, <1>5
<1>8. \A i \in 1..Len(Tail(old)) : Tail(old)[i] <= call
  <2> SUFFICES ASSUME NEW i \in 1..Len(Tail(old)) PROVE Tail(old)[i] <= call
    OBVIOUS
  <2>1. i \in 1..Len(old) - 1 /\ i + 1 \in 1..Len(old)
    BY <1>5
  <2> QED
    BY <1>4, <1>5, <2>1
<1>9. \A q \in Sessions : \A i \in 1..Len(queue'[q]) : queue'[q][i] <= call
  BY <1>7, <1>8 DEF IInv, Numbers
<1>10. performed' = performed \cup {old[1]} /\ performed \subseteq 1..call
  BY <1>5 DEF old, IInv, Numbers
<1>11. executing' = executing \/ executing' = [executing EXCEPT ![s] = old[1]]
  BY <1>5 DEF old
<1>12. executing' \in [Sessions -> Nat] /\ \A q \in Sessions : executing'[q] = executing[q] \/ executing'[q] = old[1]
  BY <1>3, <1>6, <1>11
<1>13. \A q \in Sessions : executing'[q] # 0 => executing'[q] \in performed'
  BY <1>10, <1>12 DEF IInv, Numbers
<1>14. CallsMoveOn
  BY <1>6, <1>7, <1>9, <1>10, <1>12, <1>13 DEF CallsMoveOn
<1>15. Head(queue[s]) = old[1]
  BY <1>5 DEF old
<1> QED
  BY <1>3, <1>6, <1>10, <1>14, <1>15

LEMMA Keeps_Perform ==
  ASSUME IInv, NEW s \in Sessions, Perform(s)
  PROVE  IInv'
<1>1. UNCHANGED <<dialogs, waiters, pc, tool, sess, step, call, opened, got, found, last, loop, held, taken, answers>>
  BY DEF Perform, ShowDialog, toolVars, loopVars
<1>2. /\ queue[s] # <<>> /\ performed' = performed \cup {Head(queue[s])} /\ queue' = [queue EXCEPT ![s] = Tail(@)]
      /\ executing' = executing \/ executing' = [executing EXCEPT ![s] = Head(queue[s])]
  BY DEF Perform
<1>3. CallsMoveOn /\ Head(queue[s]) \in performed' /\ Head(queue[s]) \in Nat /\ Head(queue[s]) <= call
  BY <1>1, <1>2, Performing
<1>4. CASE ShowDialog(s, Head(queue[s]))
  BY <1>1, <1>3, <1>4, Showing, Saying
<1>5. CASE UNCHANGED <<showing, origin>> /\ \E kind \in {"ok", "err"} : wire' = Append(wire, Event(kind, s, Head(queue[s])))
  <2>1. PICK kind \in {"ok", "err"} : wire' = Append(wire, Event(kind, s, Head(queue[s])))
    BY <1>5
  <2> DEFINE m == Event(kind, s, Head(queue[s]))
  <2>2. m \in Messages /\ m.kind = kind /\ m.sess = s /\ m.n = Head(queue[s])
    BY <1>3, EventFields
  <2> HIDE DEF m
  <2>3. MaySay(m)
    BY <1>3, <1>5, <2>2 DEF MaySay
  <2>4. DialogsAdded
    BY <1>5, Staying
  <2>5. wire' = Append(wire, m)
    BY <2>1 DEF m
  <2> QED
    BY <1>1, <1>3, <2>3, <2>4, <2>5, Saying
<1> QED
  BY <1>4, <1>5 DEF Perform

LEMMA Keeps_Resume ==
  ASSUME IInv, NEW s \in Sessions, Resume(s)
  PROVE  IInv'
<1>1. UNCHANGED <<dialogs, waiters, pc, tool, sess, step, call, opened, got, found, last, loop, held, taken, answers,
                  showing, queue, origin, performed>>
  BY DEF Resume, toolVars, loopVars
<1> DEFINE m == Event("ok", s, executing[s])
<1>2. executing[s] \in performed /\ executing[s] \in Nat /\ executing[s] <= call
  BY DEF Resume, IInv, Types, ChromeTypes, ToolTypes, Numbers
<1>3. m \in Messages /\ m.kind = "ok" /\ m.sess = s /\ m.n = executing[s] /\ wire' = Append(wire, m)
  BY <1>2, EventFields DEF Resume
<1> HIDE DEF m
<1>4. MaySay(m)
  BY <1>1, <1>2, <1>3 DEF MaySay
<1>5. executing' \in [Sessions -> Nat] /\ \A q \in Sessions : executing'[q] # 0 => executing'[q] = executing[q]
  BY DEF Resume, IInv, Types, ChromeTypes
<1>6. CallsMoveOn
  BY <1>1, <1>5 DEF CallsMoveOn, IInv, Types, ChromeTypes, Numbers
<1>7. DialogsAdded
  BY <1>1, Staying
<1> QED
  BY <1>1, <1>3, <1>4, <1>6, <1>7, Saying

LEMMA Keeps_PageOpensDialog ==
  ASSUME IInv, NEW s \in Sessions, PageOpensDialog(s)
  PROVE  IInv'
<1>1. UNCHANGED <<dialogs, waiters, pc, tool, sess, step, call, opened, got, found, last, loop, held, taken, answers,
                  queue, executing, performed>>
  BY DEF PageOpensDialog, toolVars, loopVars
<1>2. executing[s] \in Nat /\ executing[s] <= call
  BY DEF IInv, Types, ChromeTypes, ToolTypes, Numbers
<1>3. CallsMoveOn
  BY <1>1, Idling
<1>4. ShowDialog(s, executing[s])
  BY DEF PageOpensDialog
<1> QED
  BY <1>1, <1>2, <1>3, <1>4, Showing, Saying

LEMMA Keeps_UserCloses ==
  ASSUME IInv, NEW s \in Sessions, UserCloses(s)
  PROVE  IInv'
<1>1. UNCHANGED <<dialogs, waiters, pc, tool, sess, step, call, opened, got, found, last, loop, held, taken, answers,
                  queue, executing, performed, origin>>
  BY DEF UserCloses, toolVars, loopVars
<1> DEFINE m == Event("closed", s, 0)
<1>2. m \in Messages /\ m.kind = "closed" /\ m.sess = s /\ m.n = 0 /\ wire' = Append(wire, m)
  BY EventFields DEF UserCloses
<1> HIDE DEF m
<1>3. MaySay(m)
  BY <1>2 DEF MaySay, UserCloses
<1>4. CallsMoveOn /\ DialogsAdded
  BY <1>1, Idling, Staying
<1> QED
  BY <1>1, <1>2, <1>3, <1>4, Saying

\* The two messages of an answer that closed a dialog leave nothing to a call.
LEMMA Serving ==
  ASSUME IInv, NEW s \in Sessions, NEW c \in Nat, <<s, c>> \in answers,
         NEW m, NEW n,
         \/ m = Event("closed", s, 0) /\ n = Event("ok", s, c)
         \/ m = Event("ok", s, c) /\ n = Event("closed", s, 0),
         wire' = wire \o <<m, n>>, showing' = [showing EXCEPT ![s] = 0], answers' \subseteq answers,
         UNCHANGED <<dialogs, waiters, pc, tool, sess, step, call, opened, got, found, last, loop, held, taken,
                     queue, executing, performed, origin>>
  PROVE  IInv'
<1>1. /\ m \in Messages /\ n \in Messages
      /\ m.kind \in {"ok", "closed"} /\ n.kind \in {"ok", "closed"}
      /\ m.kind = "ok" => m.n = c
      /\ n.kind = "ok" => n.n = c
      /\ \/ m.kind = "ok" /\ n.kind = "closed" /\ n.sess = s /\ n.n = 0
         \/ n.kind = "ok" /\ m.kind = "closed" /\ m.sess = s /\ m.n = 0
  BY EventFields
<1>2. wire \in Seq(Messages)
  BY DEF IInv, Types, ChromeTypes
<1>3. /\ wire' \in Seq(Messages) /\ Len(wire') = Len(wire) + 2 /\ Len(wire) \in Nat
      /\ \A i \in 1..Len(wire) : wire'[i] = wire[i]
      /\ wire'[Len(wire) + 1] = m /\ wire'[Len(wire) + 2] = n
  BY <1>1, <1>2, PushTwo
<1>4. \A i \in 1..Len(wire') : i \in 1..Len(wire) \/ i = Len(wire) + 1 \/ i = Len(wire) + 2
  <2>1. Len(wire') = Len(wire) + 2 /\ Len(wire) \in Nat
    BY <1>3
  <2> QED
    BY <2>1
<1>5. \A i \in 1..Len(wire') :
         \/ i \in 1..Len(wire) /\ wire'[i] = wire[i]
         \/ wire'[i].kind = "closed"
         \/ wire'[i].kind = "ok" /\ wire'[i].n = c
  BY <1>1, <1>3, <1>4
<1>6. c <= call /\ (pc = "await" => c # call)
  BY DEF IInv, Numbers, Done
<1>7. ToolTypes' /\ LoopTypes'
  BY DEF IInv, Types, ToolTypes, LoopTypes
<1>8. showing' \in [Sessions -> 0..Len(origin)]
  BY DEF IInv, Types, ChromeTypes
<1>9. ChromeTypes'
  BY <1>3, <1>8 DEF IInv, Types, ChromeTypes
<1>10. Budget' /\ Waiting' /\ Heard'
  BY DEF IInv, Budget, Waiting, Mine, Guarding, How, Heard
<1>11. Numbers'
  <2>1. \A i \in 1..Len(wire') : wire'[i].kind \in {"ok", "err"} => wire'[i].n <= call
    BY <1>5, <1>6 DEF IInv, Numbers
  <2>2. \A a \in answers' : a[2] <= call
    BY DEF IInv, Numbers
  <2> QED
    BY <2>1, <2>2 DEF IInv, Numbers
<1>12. Own'
  <2>1. \A i \in 1..Len(wire') : wire'[i].kind = "opening" =>
            wire'[i].n \in 1..Len(origin) /\ origin[wire'[i].n].sess = wire'[i].sess
    BY <1>5 DEF IInv, Own
  <2> QED
    BY <2>1 DEF IInv, Own, Guarding
<1>13. Done'
  <2>1. pc = "await" => \A i \in 1..Len(wire') : wire'[i].kind = "ok" /\ wire'[i].n = call => call \in performed
    BY <1>5, <1>6 DEF IInv, Done
  <2> QED
    BY <2>1 DEF IInv, Done
<1>14. Truth'
  BY <1>1, <1>3, TruthServed DEF IInv
<1> QED
  BY <1>7, <1>9, <1>10, <1>11, <1>12, <1>13, <1>14 DEF IInv, Types

LEMMA Keeps_ServeAnswer ==
  ASSUME IInv, NEW s \in Sessions, NEW c \in 1..MaxCalls, ServeAnswer(s, c)
  PROVE  IInv'
<1>1. UNCHANGED <<dialogs, waiters, pc, tool, sess, step, call, opened, got, found, last, loop, held, taken,
                  queue, executing, performed, origin>>
  BY DEF ServeAnswer, toolVars, loopVars
<1>2. <<s, c>> \in answers /\ answers' \subseteq answers /\ c \in Nat
  BY DialogGuardAssumption DEF ServeAnswer
<1>3. CASE showing[s] = 0
  <2> DEFINE m == Event("err", s, c)
  <2>1. m \in Messages /\ m.kind = "err" /\ m.n = c /\ wire' = Append(wire, m) /\ showing' = showing
    BY <1>2, <1>3, EventFields DEF ServeAnswer
  <2> HIDE DEF m
  <2>2. c <= call
    BY <1>2 DEF IInv, Numbers
  <2>3. MaySay(m)
    BY <2>1, <2>2 DEF MaySay
  <2>4. CallsMoveOn /\ DialogsAdded
    BY <1>1, <1>2, Idling, Staying
  <2> QED
    BY <1>1, <2>1, <2>3, <2>4, Saying
<1>4. CASE showing[s] # 0
  <2>1. showing' = [showing EXCEPT ![s] = 0]
    BY <1>4 DEF ServeAnswer
  <2>2. CASE wire' = wire \o <<Event("closed", s, 0), Event("ok", s, c)>>
    BY <1>1, <1>2, <2>1, <2>2, Serving
  <2>3. CASE wire' = wire \o <<Event("ok", s, c), Event("closed", s, 0)>>
    BY <1>1, <1>2, <2>1, <2>3, Serving
  <2> QED
    BY <1>4, <2>2, <2>3 DEF ServeAnswer
<1> QED
  BY <1>3, <1>4

-----------------------------------------------------------------------------
(* The invariant.                                                           *)

LEMMA IInv_Init ==
  ASSUME Init
  PROVE  IInv
<1>1. /\ dialogs = [s \in Sessions |-> 0] /\ waiters = {} /\ taken = {} /\ pc = "idle" /\ call = 0
      /\ opened = 0 /\ got = "none" /\ found = 0 /\ loop = "read" /\ wire = <<>>
      /\ showing = [s \in Sessions |-> 0] /\ executing = [s \in Sessions |-> 0]
      /\ queue = [s \in Sessions |-> <<>>] /\ answers = {} /\ origin = <<>> /\ performed = {}
  BY DEF Init
<1>2. held.dialog = 0 /\ last.kind = "none" /\ last.dialog = 0
  BY DEF Init, NoResult
<1>3. Len(origin) = 0 /\ Len(wire) = 0 /\ origin \in Seq([sess : Sessions, by : Nat]) /\ wire \in Seq(Messages)
  BY <1>1
<1>4. queue \in [Sessions -> Seq(1..MaxCalls)] /\ \A s \in Sessions : Len(queue[s]) = 0
  BY <1>1
<1>5. Types
  BY <1>1, <1>2, <1>3, <1>4, DialogGuardAssumption DEF Types, ToolTypes, LoopTypes, ChromeTypes, Kinds
<1>6. Budget /\ Numbers
  BY <1>1, <1>3, <1>4, DialogGuardAssumption DEF Budget, Numbers
<1>7. Own /\ Done /\ Waiting /\ Heard
  BY <1>1, <1>2, <1>3 DEF Own, Done, Waiting, Heard, Guarding
<1>8. ASSUME NEW s \in Sessions PROVE dialogs[s] = 0
  BY <1>1, Zenon
<1>9. \A i \in 1..Len(wire) : FALSE
  BY <1>3
<1>10. Truth
  BY <1>8, <1>9, Zenon DEF Truth
<1> QED
  BY <1>5, <1>6, <1>7, <1>10 DEF IInv

LEMMA IInv_Stutter ==
  ASSUME IInv, UNCHANGED vars
  PROVE  IInv'
<1>1. UNCHANGED <<dialogs, waiters, pc, tool, sess, step, call, opened, got, found, last, loop, held, taken, wire,
                  showing, executing, queue, answers, origin, performed>>
  BY DEF vars, toolVars, loopVars, chromeVars
<1>2. Types'
  BY <1>1 DEF IInv, Types, ToolTypes, LoopTypes, ChromeTypes
<1>3. Budget' /\ Numbers' /\ Own' /\ Done' /\ Waiting' /\ Heard' /\ Truth'
  BY <1>1 DEF IInv, Budget, Numbers, Own, Done, Waiting, Heard, Truth, Mine, Guarding, How
<1> QED
  BY <1>2, <1>3 DEF IInv

LEMMA IInv_Next ==
  ASSUME IInv, [Next]_vars
  PROVE  IInv'
<1>1. CASE \E t \in Tools, s \in Sessions : Start(t, s)
  BY <1>1, Keeps_Start
<1>2. CASE ToolStep
  BY <1>2, Keeps_CheckDialog, Keeps_AddWaiter, Keeps_Send, Keeps_GotReply, Keeps_GotOpened, Keeps_Timeout,
     Keeps_LookForDialog, Keeps_AnswerDialog, Keeps_AnswerReplied, Keeps_ForgetDialog DEF ToolStep
<1>3. CASE LoopStep
  BY <1>3, Keeps_CollectOpening, Keeps_CollectClosed, Keeps_TakeWaiters, Keeps_NotifyWaiters, Keeps_ReadReply
     DEF LoopStep
<1>4. ASSUME NEW s \in Sessions, ChromeStep(s) PROVE IInv'
  BY <1>4, Keeps_Perform, Keeps_Resume, Keeps_PageOpensDialog, Keeps_UserCloses, Keeps_ServeAnswer DEF ChromeStep
<1> QED
  BY <1>1, <1>2, <1>3, <1>4, IInv_Stutter DEF Next

\* The invariant holds throughout.
THEOREM InductiveHolds == Spec => []IInv
BY IInv_Init, IInv_Next, PTL DEF Spec

\* Every variable keeps its type, and no tool makes more calls than it was given.
THEOREM TypesHold == Spec => []TypeOK
<1>1. ASSUME IInv PROVE TypeOK
  <2>1. call \in 0..MaxCalls
    BY <1>1, DialogGuardAssumption DEF IInv, Types, ToolTypes, Budget
  <2>2. Len(origin) \in Nat /\ 0..Len(origin) \subseteq 0..MaxDialogs
    BY <1>1, DialogGuardAssumption DEF IInv, Types, ChromeTypes
  <2>3. performed \subseteq 1..MaxCalls
    BY <1>1, <2>1, DialogGuardAssumption DEF IInv, Numbers
  <2>4. executing \in [Sessions -> 0..MaxCalls]
    <3>1. ASSUME NEW s \in Sessions PROVE executing[s] \in 0..MaxCalls
      <4>1. CASE executing[s] = 0
        BY <4>1, DialogGuardAssumption
      <4>2. CASE executing[s] # 0
        <5>1. executing[s] \in performed
          BY <1>1, <4>2 DEF IInv, Numbers
        <5>2. executing[s] \in 1..MaxCalls
          BY <2>3, <5>1
        <5> QED
          BY <5>2, DialogGuardAssumption
      <4> QED
        BY <4>1, <4>2
    <3> QED
      BY <1>1, <3>1 DEF IInv, Types, ChromeTypes
  <2>5. dialogs \in [Sessions -> 0..MaxDialogs] /\ showing \in [Sessions -> 0..MaxDialogs]
    BY <1>1, <2>2 DEF IInv, Types, LoopTypes, ChromeTypes
  <2> QED
    BY <1>1, <2>1, <2>2, <2>3, <2>4, <2>5 DEF TypeOK, IInv, Types, ToolTypes, LoopTypes
<1> QED
  BY <1>1, InductiveHolds, PTL

\* A dialog recorded, with nothing more on its way, is the one the page shows
\* (collectors.go:137-150).
THEOREM RecordsShow == Spec => []NoPhantomDialog
<1>1. ASSUME IInv PROVE NoPhantomDialog
  <2> SUFFICES ASSUME AtRest, NEW s \in Sessions, dialogs[s] # 0 PROVE dialogs[s] = showing[s]
    BY DEF NoPhantomDialog
  <2>1. \A i \in 1..Len(wire) : ~IsEvent(wire[i], s)
    BY DEF AtRest
  <2> QED
    BY <1>1, <2>1 DEF IInv, Truth
<1> QED
  BY <1>1, InductiveHolds, PTL

\* A guard hears of the dialog its own call opens (dialogguard.go:36-48).
THEOREM GuardHears == Spec => []GuardHearsItsDialog
<1>1. ASSUME IInv PROVE GuardHearsItsDialog
  <2> SUFFICES ASSUME pc = "await", How # "plain", loop = "read",
                      dialogs[sess] # 0, origin[dialogs[sess]].by = call, opened = 0
               PROVE  FALSE
    BY DEF GuardHearsItsDialog
  <2>1. <<sess, call>> \in waiters
    BY <1>1 DEF IInv, Waiting, Guarding, Mine
  <2> QED
    BY <1>1, <2>1 DEF IInv, Heard
<1> QED
  BY <1>1, InductiveHolds, PTL

\* What a tool returns is about its own call and page, and no guard leaves a
\* waiter behind (dialogguard.go:26-37).
THEOREM CallsApart == Spec => []CallsAreSeparate
<1>1. ASSUME IInv PROVE CallsAreSeparate
  BY <1>1 DEF IInv, Own, Done, Waiting, Guarding, CallsAreSeparate, ResultsAreOwn, NoStaleWaiter
<1> QED
  BY <1>1, InductiveHolds, PTL

=============================================================================
