------------------------------ MODULE CcidSlot ------------------------------
(***************************************************************************)
(* What a card reader promises its host, whatever happens between the      *)
(* reader and the card: a request that is understood is echoed and then    *)
(* answered, once, with its own sequence number and the state of the slot; *)
(* anything else is refused with a NAK.  A slot without a powered card     *)
(* exchanges nothing.                                                      *)
(***************************************************************************)
EXTENDS Naturals

CONSTANTS
    Requests,       \* what the host can ask; the field type says what for
    Ids,            \* the numbers of the host's requests, in the order it makes them
    Nothing         \* no request is being served

VARIABLES
    active,         \* the slot holds a powered card
    pending,        \* the request that has been echoed and not answered, or Nothing
    served,         \* the number of the last request that was echoed
    last,           \* the frame the reader has sent last
    off             \* the phone has switched itself off

vars == <<active, pending, served, last, off>>

\* A frame for the request with number id.
Frame(kind, id, isActive, failed) ==
    [kind |-> kind, id |-> id, active |-> isActive, failed |-> failed]

Nak == Frame("nak", 0, FALSE, FALSE)
NoFrame == Frame("none", 0, FALSE, FALSE)

Init == active = FALSE /\ pending = Nothing /\ served = 0 /\ last = NoFrame /\ off = FALSE

\* No request is served twice, none after a later one.
Accept(id) ==
    /\ ~off
    /\ pending = Nothing
    /\ id > served
    /\ served' = id
    /\ \E r \in Requests : pending' = [request |-> r, id |-> id]
    /\ last' = Frame("echo", id, FALSE, FALSE)
    /\ UNCHANGED <<active, off>>

Refuse ==
    /\ ~off
    /\ pending = Nothing
    /\ last' = Nak
    /\ UNCHANGED <<active, pending, served, off>>

\* The slots and results that can follow a request.
Outcome(type, isActive, failed) ==
    CASE type = "POWER_ON" -> failed = ~isActive
      [] type = "POWER_OFF" -> ~isActive /\ ~failed
      [] type \in {"TPDU", "PPS"} -> isActive = active /\ (failed \/ active)
      [] type \in {"SHORT", "UNKNOWN"} -> isActive = active /\ failed
      [] type = "SET_PARAMETERS" -> isActive = active
      [] OTHER -> isActive = active /\ ~failed

Answer ==
    /\ ~off
    /\ pending # Nothing
    /\ \E isActive, failed \in BOOLEAN :
         /\ Outcome(pending.request.type, isActive, failed)
         /\ last' = Frame("reply", pending.id, isActive, failed)
         /\ active' = isActive
    /\ pending' = Nothing
    /\ UNCHANGED served
    /\ off' = (pending.request.type = "ESCAPE_POWER_OFF")

Next == (\E id \in Ids : Accept(id)) \/ Refuse \/ Answer

Spec == Init /\ [][Next]_vars /\ WF_vars(Answer)
=============================================================================
