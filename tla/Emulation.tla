------------------------------ MODULE Emulation ------------------------------
(***************************************************************************)
(* emulate and resize_page (internal/tools/emulation.go) on one page.      *)
(* emulate works through its dimensions in a fixed order, one CDP call     *)
(* each, and gives up at the first argument it does not accept or call     *)
(* that fails; Chrome keeps what was set until then.  A value is "off", no *)
(* override, or one of a few settings.                                     *)
(***************************************************************************)
EXTENDS Naturals, Sequences

CONSTANT Overrides   (* values a dimension can be given                      *)

ASSUME EmulationAssumption == "off" \notin Overrides

\* The order of the calls.
Order == <<"colorScheme", "cpu", "network", "geolocation", "userAgent", "viewport", "touch",
           "headers">>
Dimensions == {Order[i] : i \in DOMAIN Order}

VARIABLES
    effective, \* Chrome: the overrides in force
    applied,   \* what the emulate call running reports so far, by dimension
    step,      \* the dimension it is at, 0 when idle
    outcome    \* how the last tool ended: "none", "ok", "error"

vars == <<effective, applied, step, outcome>>

Init ==
    /\ effective = [d \in Dimensions |-> "off"]
    /\ applied = <<>> /\ step = 0 /\ outcome = "none"

\* A page is attached: it has no overrides but the viewport of the configuration.
Attach(configured) ==
    /\ step = 0
    /\ effective' = [d \in Dimensions |->
                         IF d = "viewport" /\ configured THEN "config" ELSE "off"]
    /\ applied' = <<>> /\ outcome' = "none"
    /\ UNCHANGED step

Begin ==
    /\ step = 0
    /\ step' = 1 /\ applied' = <<>> /\ outcome' = "none"
    /\ UNCHANGED effective

\* One CDP call per dimension; an omitted argument is "off".
Advance ==
    IF step = Len(Order) THEN step' = 0 /\ outcome' = "ok"
    ELSE step' = step + 1 /\ UNCHANGED outcome

Report(d, v) == applied' = [e \in DOMAIN applied \cup {d} |-> IF e = d THEN v ELSE applied[e]]

\* Variant: the call is left out when the argument is.
SetIfGiven(d, v) ==
    IF v = "off" THEN UNCHANGED effective ELSE effective' = [effective EXCEPT ![d] = v]

SetOverride(d, v) == effective' = [effective EXCEPT ![d] = v]

\* Color scheme, CPU, network, geolocation, user agent: set or reset.
Plain == Dimensions \ {"viewport", "touch", "headers"}

ApplyPlain(v) ==
    /\ step # 0 /\ Order[step] \in Plain
    /\ SetOverride(Order[step], v)
    /\ Report(Order[step], v)
    /\ Advance

\* Without a viewport the metrics are cleared and the touch call does not happen.
ClearViewport ==
    /\ step # 0 /\ Order[step] = "viewport"
    /\ effective' = [effective EXCEPT !["viewport"] = "off"]
    /\ Report("viewport", "off")
    /\ step' = step + 2
    /\ UNCHANGED outcome

SetViewport(v) ==
    /\ step # 0 /\ Order[step] = "viewport"
    /\ effective' = [effective EXCEPT !["viewport"] = v]
    /\ Report("viewport", v)
    /\ Advance

\* Only after a viewport was set: touch follows the viewport's flag.
SetTouch(v) ==
    /\ step # 0 /\ Order[step] = "touch"
    /\ effective' = [effective EXCEPT !["touch"] = v]
    /\ Report("touch", v)
    /\ Advance

OmitHeaders ==
    /\ step # 0 /\ Order[step] = "headers"
    /\ UNCHANGED effective
    /\ Report("headers", "unchanged")
    /\ Advance

SetHeaders(v) ==
    /\ step # 0 /\ Order[step] = "headers"
    /\ effective' = [effective EXCEPT !["headers"] = v]
    /\ Report("headers", v)
    /\ Advance

\* The argument is refused, or the call fails.
GiveUp ==
    /\ step # 0
    /\ step' = 0 /\ outcome' = "error"
    /\ UNCHANGED <<effective, applied>>

\* resize_page sets the metrics alone.
ResizePage ==
    /\ step = 0
    /\ effective' = [effective EXCEPT !["viewport"] = "resized"]
    /\ outcome' = "none"
    /\ UNCHANGED <<applied, step>>

Emulate ==
    \/ Begin \/ ClearViewport \/ OmitHeaders \/ GiveUp \/ ResizePage
    \/ \E v \in Overrides \cup {"off"} : ApplyPlain(v) \/ SetTouch(v) \/ SetHeaders(v)
    \/ \E v \in Overrides : SetViewport(v)

Next == Emulate \/ \E configured \in BOOLEAN : Attach(configured)

Spec == Init /\ [][Next]_vars

-----------------------------------------------------------------------------
(* Properties *)

TypeOK ==
    /\ effective \in [Dimensions -> Overrides \cup {"off", "config", "resized"}]
    /\ DOMAIN applied \subseteq Dimensions
    /\ step \in 0..Len(Order)
    /\ outcome \in {"none", "ok", "error"}
    /\ \A i \in 1..Len(Order) : i < step /\ Order[i] # "touch" => Order[i] \in DOMAIN applied

\* After a call that succeeded, every dimension it reports is what is in force,
\* whatever earlier calls set, and whatever they left half done (emulate).
AppliedIsEffective ==
    outcome = "ok" =>
        \A d \in DOMAIN applied : applied[d] # "unchanged" => effective[d] = applied[d]

\* What README.md:66-67 says of emulate: an omitted parameter is reset.  After a
\* call that omitted the viewport, nothing of an earlier one is left.
OmittedIsReset ==
    outcome = "ok" /\ applied["viewport"] = "off" => effective["touch"] = "off"
=============================================================================
