------------------------- MODULE RefreshTokenLedger -------------------------
(***************************************************************************)
(* What the store of offline grants promises to the token endpoint: a grant *)
(* is created once and ends once; a refresh token is added once, is removed *)
(* once and never comes back; every rotation puts a hash in force that has  *)
(* never been in force before, so a superseded token never works again.     *)
(***************************************************************************)
EXTENDS Naturals

CONSTANTS Grant, MaxTokens, MaxRotations

VARIABLES
    phase,     \* "unborn", "live" or "ended"
    appended,  \* how many refresh tokens the grant has ever had: they are 1 .. appended
    tokens,    \* those it has now
    current,   \* the hash in force of each token, 0 for its initial hash
    applied    \* hashes that rotations have put in force

vars == <<phase, appended, tokens, current, applied>>

TokenId == 1 .. MaxTokens

Init ==
    /\ phase = [g \in Grant |-> "unborn"]
    /\ appended = [g \in Grant |-> 0]
    /\ tokens = [g \in Grant |-> {}]
    /\ current = [g \in Grant |-> [t \in TokenId |-> 0]]
    /\ applied = {}

Create(g) ==
    /\ phase[g] = "unborn"
    /\ phase' = [phase EXCEPT ![g] = "live"]
    /\ appended' = [appended EXCEPT ![g] = 1]
    /\ tokens' = [tokens EXCEPT ![g] = {1}]
    /\ UNCHANGED <<current, applied>>

Add(g) ==
    /\ phase[g] = "live"
    /\ appended' = [appended EXCEPT ![g] = @ + 1]
    /\ tokens' = [tokens EXCEPT ![g] = @ \cup {appended[g] + 1}]
    /\ UNCHANGED <<phase, current, applied>>

Rotate(g, t, v) ==
    /\ phase[g] = "live" /\ t \in tokens[g] /\ v \notin applied
    /\ current' = [current EXCEPT ![g][t] = v]
    /\ applied' = applied \cup {v}
    /\ UNCHANGED <<phase, appended, tokens>>

\* The last tokens of a grant go with the grant.
RemoveTokens(g, T) ==
    /\ phase[g] = "live" /\ tokens[g] \ T # {}
    /\ tokens' = [tokens EXCEPT ![g] = @ \ T]
    /\ current' = [current EXCEPT ![g] = [t \in TokenId |-> IF t \in T THEN 0 ELSE @[t]]]
    /\ UNCHANGED <<phase, appended, applied>>

End(G) ==
    /\ \A g \in G : phase[g] = "live"
    /\ phase' = [g \in Grant |-> IF g \in G THEN "ended" ELSE phase[g]]
    /\ tokens' = [g \in Grant |-> IF g \in G THEN {} ELSE tokens[g]]
    /\ current' = [g \in Grant |-> IF g \in G THEN [t \in TokenId |-> 0] ELSE current[g]]
    /\ UNCHANGED <<appended, applied>>

Next ==
    \/ \E g \in Grant : Create(g) \/ Add(g)
    \/ \E g \in Grant, t \in TokenId, v \in 1 .. MaxRotations : Rotate(g, t, v)
    \/ \E g \in Grant : \E T \in SUBSET tokens[g] : RemoveTokens(g, T)
    \/ \E G \in SUBSET Grant : End(G)

Spec == Init /\ [][Next]_vars
=============================================================================
