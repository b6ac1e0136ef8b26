-------------------------- MODULE SessionLifecycle --------------------------
(***************************************************************************)
(* What the store of IdP sessions promises to the rest of the server: a     *)
(* session is created once, is changed by atomic updates, ends once (it is  *)
(* deleted or expires), and nothing happens to it afterwards.               *)
(***************************************************************************)
EXTENDS Naturals

CONSTANTS Session, SAMLProvider, MaxTime

VARIABLES
    phase,           \* "unborn", "live" or "ended"
    participants,    \* SAML service providers a live session takes part in
    authenticatedAt

vars == <<phase, participants, authenticatedAt>>

Init ==
    /\ phase = [s \in Session |-> "unborn"]
    /\ participants = [s \in Session |-> {}]
    /\ authenticatedAt = [s \in Session |-> 0]

Create(s, at) ==
    /\ phase[s] = "unborn"
    /\ phase' = [phase EXCEPT ![s] = "live"]
    /\ authenticatedAt' = [authenticatedAt EXCEPT ![s] = at]
    /\ UNCHANGED participants

Reauthenticate(s, at) ==
    /\ phase[s] = "live" /\ authenticatedAt[s] <= at
    /\ authenticatedAt' = [authenticatedAt EXCEPT ![s] = at]
    /\ UNCHANGED <<phase, participants>>

AddParticipant(s, sp) ==
    /\ phase[s] = "live"
    /\ participants' = [participants EXCEPT ![s] = @ \cup {sp}]
    /\ UNCHANGED <<phase, authenticatedAt>>

\* Several sessions may expire at once.
End(S) ==
    /\ \A s \in S : phase[s] = "live"
    /\ phase' = [s \in Session |-> IF s \in S THEN "ended" ELSE phase[s]]
    /\ participants' = [s \in Session |-> IF s \in S THEN {} ELSE participants[s]]
    /\ authenticatedAt' = [s \in Session |-> IF s \in S THEN 0 ELSE authenticatedAt[s]]

Next ==
    \/ \E s \in Session, at \in 0 .. MaxTime : Create(s, at) \/ Reauthenticate(s, at)
    \/ \E s \in Session, sp \in SAMLProvider : AddParticipant(s, sp)
    \/ \E S \in SUBSET Session : End(S)

Spec == Init /\ [][Next]_vars
=============================================================================
