-------------------------------- MODULE AmvpCall --------------------------------
(***************************************************************************)
(* What the rest of libamvp may rely on when it makes one request of the    *)
(* AMVP server through src/src/amvp_transport.c: a call is made, the server *)
(* applies it at most once while it is pending, and it returns a result     *)
(* that says truthfully whether it was applied, unless a message of the     *)
(* call was lost on the way.  For the actions in Vague an error says        *)
(* nothing; the code owes that exception to DELETE.                         *)
(*                                                                          *)
(* AmvpTransport implements this specification; the session modules are     *)
(* written against it.                                                      *)
(***************************************************************************)
EXTENDS Naturals

CONSTANTS
    Actions,    \* the AMVP_NET_ACTIONs after network_action's grouping
    Vague,      \* those whose errors say nothing
    Results     \* AMVP_RESULT values of a call

VARIABLES
    action,     \* the call last made, "none" before the first
    applied,    \* how often the server has carried it out
    lost,       \* a message of this call was lost or damaged
    result      \* "pending", or what the last call returned

callVars == <<action, applied, lost, result>>

Init ==
    /\ action = "none"
    /\ applied = 0
    /\ lost = FALSE
    /\ result = "none"

Begin(a) ==
    /\ result # "pending"
    /\ action' = a
    /\ applied' = 0
    /\ lost' = FALSE
    /\ result' = "pending"

Apply ==
    /\ result = "pending"
    /\ applied = 0
    /\ applied' = 1
    /\ UNCHANGED <<action, lost, result>>

Lose ==
    /\ result = "pending"
    /\ lost' = TRUE
    /\ UNCHANGED <<action, applied, result>>

(* The result is honest.                                                    *)
Return(r) ==
    /\ result = "pending"
    /\ r = "AMVP_SUCCESS" => applied = 1
    /\ r # "AMVP_SUCCESS" /\ applied # 0 => lost \/ action \in Vague
    /\ result' = r
    /\ UNCHANGED <<action, applied, lost>>

Next ==
    \/ \E a \in Actions : Begin(a)
    \/ Apply
    \/ Lose
    \/ \E r \in Results : Return(r)

Spec == Init /\ [][Next]_callVars
================================================================================
