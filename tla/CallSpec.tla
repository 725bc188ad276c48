------------------------------ MODULE CallSpec ------------------------------
(***************************************************************************)
(* What internal/cdp promises the rest of the program: Call is a remote    *)
(* procedure call.  A call is started once and ends at most once; the      *)
(* result it hands back is the one Chrome computed for that very call; it  *)
(* may give up early only because its own context ended, because nobody    *)
(* listens for its answer any more, or because it was never sent.  There   *)
(* are no ids, no pending table, no channels and no read loop here: module *)
(* CdpClient has them, and implements this one.                            *)
(*                                                                         *)
(* Giving up does not undo the call: Chrome may still perform a call whose *)
(* caller has been told that its context ended, or that the client is      *)
(* closed.  The latter because the client stops listening on anything it   *)
(* cannot read, with the connection still up.                              *)
(***************************************************************************)
CONSTANTS Calls,        (* the invocations of Client.Call                   *)
          Bounded,      (* those whose context can end                      *)
          Unencodable,  (* those whose parameters cannot be marshalled      *)
          Results       (* what Chrome can answer                           *)

VARIABLES status,       (* status[c]: "idle", "open" or "ended"             *)
          answer,       (* answer[c]: what Chrome computed for c, if it did *)
          outcome,      (* outcome[c]: what Call returned                   *)
          sent,         (* the calls handed to the connection               *)
          up,           (* the connection to Chrome is there                *)
          heard         (* what Chrome says is still listened to            *)

specVars == <<status, answer, outcome, sent, up, heard>>

None == "none"

SpecInit ==
    /\ status = [c \in Calls |-> "idle"]
    /\ answer = [c \in Calls |-> None]
    /\ outcome = [c \in Calls |-> None]
    /\ sent = {}
    /\ up = TRUE /\ heard = TRUE

Start(c) ==
    /\ status[c] = "idle" /\ heard
    /\ status' = [status EXCEPT ![c] = "open"]
    /\ UNCHANGED <<answer, outcome, sent, up, heard>>

\* A call made when nobody listens any more fails at once, and is not sent.
Refuse(c) ==
    /\ status[c] = "idle" /\ ~heard
    /\ status' = [status EXCEPT ![c] = "ended"]
    /\ outcome' = [outcome EXCEPT ![c] = "closed"]
    /\ UNCHANGED <<answer, sent, up, heard>>

\* The connection takes the call.  It may never do so: Chrome may have stopped
\* reading.
Send(c) ==
    /\ status[c] = "open" /\ c \notin sent \cup Unencodable
    /\ sent' = sent \cup {c}
    /\ UNCHANGED <<status, answer, outcome, up, heard>>

\* Chrome performs the call, possibly after its caller gave up on it.
Perform(c, r) ==
    /\ up
    /\ c \in sent /\ answer[c] = None
    /\ answer' = [answer EXCEPT ![c] = r]
    /\ UNCHANGED <<status, outcome, sent, up, heard>>

Reportable(c) ==
    IF c \in sent
    THEN (IF answer[c] # None THEN {answer[c]} ELSE {})
         \cup (IF c \in Bounded THEN {"canceled"} ELSE {})
         \cup (IF heard THEN {} ELSE {"closed"})
    ELSE IF c \in Unencodable \/ ~up THEN {"unsent"} ELSE {}

End(c) ==
    /\ status[c] = "open"
    /\ \E o \in Reportable(c) : outcome' = [outcome EXCEPT ![c] = o]
    /\ status' = [status EXCEPT ![c] = "ended"]
    /\ UNCHANGED <<answer, sent, up, heard>>

Disconnect ==
    /\ up
    /\ up' = FALSE
    /\ UNCHANGED <<status, answer, outcome, sent, heard>>

\* The connection is gone, or Chrome said something that cannot be read.
StopListening ==
    /\ heard
    /\ heard' = FALSE
    /\ UNCHANGED <<status, answer, outcome, sent, up>>

SpecNext ==
    \/ Disconnect \/ StopListening
    \/ \E c \in Calls :
        Start(c) \/ Refuse(c) \/ Send(c) \/ End(c) \/ \E r \in Results : Perform(c, r)

(* A call that has something to report does not stay open for ever.  One    *)
(* that waits for the connection to take it may.                            *)
CallSpecification ==
    SpecInit /\ [][SpecNext]_specVars /\ \A c \in Calls : WF_specVars(End(c))
=============================================================================
