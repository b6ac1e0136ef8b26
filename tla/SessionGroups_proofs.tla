-------------------------- MODULE SessionGroups_proofs --------------------------
(***************************************************************************)
(* What SessionGroups guarantees for any number of requests, sessions,      *)
(* codes and grants.                                                        *)
(***************************************************************************)
EXTENDS SessionGroups, TLAPS

USE GroupAssumption

----------------------------------------------------------------------------
(* The inductive invariant *)

SignOutPc   == {"listIdP", "listGrants", "delete"}
TerminatePc == {"terminateIdP", "terminateGrants"}
UsePc       == {"get", "getIdP", "update"}
CreatePc    == {"createIdP", "createGrant"}

\* Which operation a request is at, and what it is about
ControlOf(r) ==
    /\ pc[r] \in {"listClient", "revokeClient", "issue", "createGrant", "issued"} =>
           held[r] # None
    /\ pc[r] \in {"idle", "panic", "createIdP"} \cup TerminatePc => held[r] = None
    /\ pc[r] \in SignOutPc \cup {"panic"} => who[r] \in Listable
    /\ pc[r] \in UsePc \cup {"createGrant"} => who[r] \in Grant
    /\ pc[r] = "createIdP" => who[r] \in Session
    /\ pc[r] = "idle" \/ held[r] # None => goal[r] = {}
    /\ pc[r] = "issue" => ~(data[held[r]].single /\ offline[r])

\* What a request has in hand has been created, but for what it is about to create; of that
\* the entry is in the list, unless a List has dropped it.
BornOf(r) ==
    /\ held[r] \in born \cup {None}
    /\ goal[r] \subseteq born /\ idps[r] \subseteq born /\ todo[r] \subseteq born
    /\ queue[r] \subseteq born
    /\ IF pc[r] \in CreatePc
       THEN who[r] \in list \cup dropped \cup born
       ELSE who[r] \in born \cup {None}

\* Grants come from codes, codes from sessions.
Lineage ==
    /\ signedOut \subseteq born
    /\ \A g \in Grant : origin[g] # None => g \in born /\ origin[g] \in born
    /\ \A c \in Code : data[c] = NoData \/ (c \in born /\ data[c].by \in born \cup {None})

\* A session that is in no list was dropped from it while it was being created.
Entries == \A t \in stored \cap Listable : t \in list \cup dropped

\* What is left of the sessions that a sign-out, or a termination, is about is what it has
\* still to list or to delete.
SignOutOf(r) ==
    /\ goal[r] \cap dropped = {}
    /\ pc[r] \in SignOutPc => \A t \in goal[r] : IsSameSSOGroup(t, who[r])
    /\ pc[r] = "listGrants" => goal[r] \cap stored \cap Session \subseteq idps[r]
    /\ pc[r] = "delete" => goal[r] \cap stored \subseteq todo[r]
    /\ pc[r] = "terminateIdP" =>
           /\ who[r] = None \/ \A t \in goal[r] : ~IsSameSSOGroup(t, who[r])
           /\ goal[r] \cap stored \cap Session \subseteq todo[r]
    /\ pc[r] = "terminateGrants" => goal[r] \cap stored \subseteq todo[r]

\* A session that a sign-out has not found is gone, or was dropped.
FoundOf(r) ==
    /\ pc[r] = "listGrants" /\ who[r] \in (stored \ dropped) \cap Session => who[r] \in idps[r]
    /\ pc[r] = "delete" /\ ~found[r] => who[r] \notin stored \ dropped
    /\ pc[r] = "delete" /\ who[r] \in stored \ dropped => who[r] \in todo[r]
    /\ pc[r] = "panic" => who[r] \notin stored \ dropped

\* The IdP session of a grant is gone.
Bereft(g) == SSOGroupIDPSessionID(g) # None /\ SSOGroupIDPSessionID(g) \notin stored

\* A use of a grant that was signed out before does not get past the missing session.
DeadOf(r) ==
    dead[r] /\ pc[r] \in UsePc =>
        who[r] \notin stored \/ (Bereft(who[r]) /\ pc[r] \in {"get", "getIdP"})

InGroupOf(g, s) ==
    SSOGroupIDPSessionID(g) # None /\ SSOGroupIDPSessionID(g) = SSOGroupIDPSessionID(s)

\* A sign-out deletes sessions of one group, and has the grants of the group among them.
GroupOf(r) ==
    pc[r] = "delete" =>
        /\ \A t \in todo[r] : IsSameSSOGroup(t, who[r])
        /\ \A g \in stored \cap Grant :
               InGroupOf(g, who[r]) => g \in todo[r] \cup late \cup dropped

\* An exchange that revokes the grants of its client has every one in its queue, unless that was
\* issued or given the token behind its back, or dropped from the list.
SingleOf(r) ==
    Listed(r) =>
        /\ \A g \in stored \cap Grant : OfClient(g) => g \in queue[r] \cup unseen \cup dropped
        /\ pc[r] = "createGrant" => queue[r] = {}

\* A code from which a grant was issued is in the hands of the one request that issued it, or
\* gone.
CodeIsUsedOnce ==
    \A c \in Code \ shared :
        /\ \A r, q \in Request : held[r] = c /\ held[q] = c => r = q
        /\ \A g \in Grant : origin[g] = c =>
               /\ \A r \in Request : held[r] = c => pc[r] = "issued"
               /\ c \in stored => \E r \in Request : held[r] = c

\* Everything about one request
RequestInv(r) ==
    /\ ControlOf(r) /\ BornOf(r) /\ SignOutOf(r) /\ FoundOf(r) /\ DeadOf(r) /\ GroupOf(r)
    /\ SingleOf(r)

\* The types, in three parts
StoreTypes ==
    /\ born \subseteq Key /\ stored \subseteq born /\ list \subseteq Listable
    /\ data \in [Code -> Data]
    /\ \A c \in Code : data[c].by \in Session => ~data[c].single
    /\ origin \in [Grant -> Code \cup {None}] /\ joined \subseteq stored \cap Grant

Label == {"idle", "listIdP", "listGrants", "delete", "panic", "terminateIdP", "terminateGrants",
          "createIdP", "listClient", "revokeClient", "issue", "createGrant", "issued", "get",
          "getIdP", "update"}

LocalTypes ==
    /\ pc \in [Request -> Label]
    /\ who \in [Request -> Listable \cup {None}] /\ held \in [Request -> Code \cup {None}]
    /\ offline \in [Request -> BOOLEAN]
    /\ queue \in [Request -> SUBSET Grant] /\ idps \in [Request -> SUBSET Session]
    /\ todo \in [Request -> SUBSET Listable] /\ found \in [Request -> BOOLEAN]
    /\ goal \in [Request -> SUBSET Listable] /\ dead \in [Request -> BOOLEAN]

HistoryTypes ==
    /\ signedOut \subseteq Listable /\ accepted \subseteq Grant /\ late \subseteq Grant
    /\ unseen \subseteq Grant /\ dropped \subseteq Listable /\ shared \subseteq Code
    /\ failures \in Nat

\* What does not depend on the requests
StoreInv ==
    /\ StoreTypes /\ HistoryTypes /\ Lineage /\ Entries
    /\ SignOutIsComplete /\ SignedOutGroupIsDead /\ OrphanOnlyByRace
    /\ CodeUsedTwiceOnlyByOverlap

GroupInv ==
    /\ LocalTypes /\ StoreInv /\ CodeIsUsedOnce
    /\ \A r \in Request : RequestInv(r)

----------------------------------------------------------------------------
(* Proofs *)

\* The type invariant by kind of variable
LEMMA TypeParts == TypeOK <=> StoreTypes /\ LocalTypes /\ HistoryTypes
  BY DEF TypeOK, StoreTypes, LocalTypes, HistoryTypes, Label

\* The three kinds of keys are apart.
LEMMA Kinds ==
    /\ \A s \in Session : s \notin Grant /\ s \notin Code /\ s # None
    /\ \A g \in Grant : g \notin Session /\ g \notin Code /\ g # None
    /\ \A c \in Code : c \notin Session /\ c \notin Grant /\ c # None
  BY DEF Listable

\* How keys age: none comes back, and what a key stands for does not change.  What the histories
\* say of a key stays as long as the key.
Aged ==
    /\ born \subseteq born' /\ stored' \cap born \subseteq stored
    /\ \A g \in Grant \cap born : origin'[g] = origin[g]
    /\ \A c \in Code \cap born : data'[c] = data[c]
    /\ stored' \cap late \subseteq late' /\ stored' \cap dropped \subseteq dropped'
    /\ dropped' \cap born \subseteq dropped
    /\ list \cup dropped \subseteq list' \cup dropped' \cup born

\* A step that leaves the local variables of a request alone
Same(r) ==
    /\ pc'[r] = pc[r] /\ who'[r] = who[r] /\ held'[r] = held[r] /\ offline'[r] = offline[r]
    /\ queue'[r] = queue[r] /\ idps'[r] = idps[r] /\ todo'[r] = todo[r]
    /\ found'[r] = found[r] /\ goal'[r] = goal[r] /\ dead'[r] = dead[r]

\* The group of a session that has been created does not change.
LEMMA GroupStays ==
    ASSUME StoreTypes, Lineage, Aged
    PROVE  /\ \A g \in Grant \cap born : DataOf(g)' = DataOf(g)
           /\ \A s \in Listable \cap born : SSOGroupIDPSessionID(s)' = SSOGroupIDPSessionID(s)
           /\ \A s, t \in Listable \cap born :
                  /\ IsSameSSOGroup(s, t)' <=> IsSameSSOGroup(s, t)
                  /\ InGroupOf(s, t)' <=> InGroupOf(s, t)
  <1>1. ASSUME NEW g \in Grant \cap born
        PROVE  DataOf(g)' = DataOf(g)
    <2>1. origin'[g] = origin[g] /\ origin[g] \in Code \cup {None}
      BY DEF Aged, StoreTypes
    <2>2. origin[g] # None => origin[g] \in Code \cap born
      BY <2>1 DEF Lineage
    <2> QED
      BY <2>1, <2>2 DEF DataOf, Aged
  <1>2. ASSUME NEW s \in Listable \cap born
        PROVE  SSOGroupIDPSessionID(s)' = SSOGroupIDPSessionID(s)
    BY <1>1, <1>2 DEF SSOGroupIDPSessionID, Listable
  <1>3. ASSUME NEW s \in Listable \cap born, NEW t \in Listable \cap born
        PROVE  /\ IsSameSSOGroup(s, t)' <=> IsSameSSOGroup(s, t)
               /\ InGroupOf(s, t)' <=> InGroupOf(s, t)
    BY <1>2 DEF IsSameSSOGroup, InGroupOf
  <1> QED
    BY <1>1, <1>2, <1>3

\* What a group consists of
LEMMA GroupFacts ==
    ASSUME StoreTypes, Lineage
    PROVE  /\ \A s \in Session : SSOGroupIDPSessionID(s) = s
           /\ \A g \in Grant : DataOf(g) \in Data
           /\ \A g \in Grant : SSOGroupIDPSessionID(g) \in (Session \cap born) \cup {None}
           /\ \A s \in Listable : SSOGroupIDPSessionID(s) \in Session \cup {None}
  <1>1. \A s \in Session : SSOGroupIDPSessionID(s) = s
    BY DEF SSOGroupIDPSessionID
  <1>2. ASSUME NEW g \in Grant
        PROVE  DataOf(g) \in Data /\ DataOf(g).by \in born \cup {None}
    <2>0. NoData \in Data /\ NoData.by = None
      BY DEF NoData, Data
    <2>1. CASE origin[g] = None
      BY <2>0, <2>1 DEF DataOf
    <2>2. CASE origin[g] # None
      <3>1. origin[g] \in Code \cap born
        BY <2>2 DEF StoreTypes, Lineage
      <3>2. DataOf(g) = data[origin[g]]
        BY <2>2 DEF DataOf
      <3>3. data[origin[g]] = NoData \/ data[origin[g]].by \in born \cup {None}
        BY <3>1 DEF Lineage
      <3> QED
        BY <2>0, <3>1, <3>2, <3>3 DEF StoreTypes
    <2> QED
      BY <2>1, <2>2
  <1>3. \A g \in Grant : SSOGroupIDPSessionID(g) \in (Session \cap born) \cup {None}
    BY <1>2, Kinds DEF SSOGroupIDPSessionID
  <1>4. \A s \in Listable : SSOGroupIDPSessionID(s) \in Session \cup {None}
    BY <1>1, <1>3 DEF Listable
  <1> QED
    BY <1>1, <1>2, <1>3, <1>4

\* What has to go with a session is what is in its SSO group, and has not been dropped.
LEMMA AffectedFacts ==
    ASSUME StoreTypes, Lineage, NEW s \in Listable
    PROVE  /\ Affected(s) \subseteq Listable \cap stored
           /\ Affected(s) \cap dropped = {}
           /\ \A t \in Affected(s) : IsSameSSOGroup(t, s)
  <1> DEFINE idp == SSOGroupIDPSessionID(s)
  <1>1. idp \in Session \cup {None}
    BY GroupFacts
  <1>2. Affected(s) = (stored \ dropped)
                        \cap ({s} \cup IF idp = None THEN {} ELSE {idp} \cup Members(idp))
    BY DEF Affected
  <1>3. Members(idp) = {g \in Grant : SSOGroupIDPSessionID(g) = idp}
    BY DEF Members
  <1>4. \A t \in Session : SSOGroupIDPSessionID(t) = t
    BY GroupFacts
  <1>5. \A t : IsSameSSOGroup(t, s) <=>
                   t = s \/ (SSOGroupIDPSessionID(t) # None /\ SSOGroupIDPSessionID(t) = idp)
    BY DEF IsSameSSOGroup
  <1> HIDE DEF idp
  <1> QED
    BY <1>1, <1>2, <1>3, <1>4, <1>5 DEF Listable

\* A grant that a step adds, or gives a token of the client to: it is known to be late, or
\* unseen, to whom it has to be.
NewKeys(r) ==
    /\ \A g \in (stored' \ born) \cap Grant :
           pc[r] = "delete" /\ InGroupOf(g, who[r])' => g \in late'
    /\ \A g \in stored' \cap Grant :
           Listed(r) /\ OfClient(g)' /\ ~(g \in born /\ OfClient(g)) => g \in unseen'
    /\ Listed(r) => stored' \cap unseen \subseteq unseen'

\* What holds of a request goes on to hold while it does nothing.
LEMMA SameInv ==
    ASSUME StoreTypes, Lineage, LocalTypes, NEW r \in Request, RequestInv(r),
           Aged, Same(r), NewKeys(r)
    PROVE  RequestInv(r)'
  <1>1. /\ \A s \in Listable \cap born : SSOGroupIDPSessionID(s)' = SSOGroupIDPSessionID(s)
        /\ \A s, t \in Listable \cap born :
               /\ IsSameSSOGroup(s, t)' <=> IsSameSSOGroup(s, t)
               /\ InGroupOf(s, t)' <=> InGroupOf(s, t)
    BY GroupStays
  <1>2. /\ who[r] \in Listable \cup {None} /\ held[r] \in Code \cup {None}
        /\ goal[r] \subseteq Listable /\ todo[r] \subseteq Listable
    BY DEF LocalTypes
  <1>3. stored \subseteq born /\ born \subseteq Key
    BY DEF StoreTypes
  <1>4. BornOf(r) /\ ControlOf(r)
    BY DEF RequestInv
  <1>d. held[r] # None => data'[held[r]] = data[held[r]]
    BY <1>2, <1>4 DEF BornOf, Aged
  <1>5. ControlOf(r)'
    <2>1. pc[r] = "issue" => held[r] # None
      BY <1>4 DEF ControlOf
    <2> QED
      BY <1>4, <1>d, <2>1 DEF ControlOf, Same
  <1>6. BornOf(r)'
    BY <1>4 DEF BornOf, Same, Aged
  <1>w. PICK w : w = who[r]
    OBVIOUS
  <1>b. pc[r] \in SignOutPc \cup UsePc \cup {"panic"} => w \in Listable \cap born
    BY <1>4, <1>w, Kinds
       DEF ControlOf, BornOf, SignOutPc, UsePc, CreatePc, Listable
  <1>s. w \in born => (w \in stored' \ dropped' => w \in stored \ dropped)
    BY DEF Aged
  <1>7. SignOutOf(r)'
    <2>1. SignOutOf(r)
      BY DEF RequestInv
    <2>2. goal[r] \cap stored' \subseteq stored /\ goal[r] \cap dropped' = {}
      BY <1>4, <2>1 DEF BornOf, Aged, SignOutOf
    <2>3. w # None /\ w \in born =>
              \A t \in goal[r] : IsSameSSOGroup(t, w)' <=> IsSameSSOGroup(t, w)
      BY <1>1, <1>2, <1>4, <1>w DEF BornOf
    <2>4. pc[r] \in SignOutPc => w # None /\ w \in born
      BY <1>b, Kinds DEF Listable
    <2>5. pc[r] = "terminateIdP" => w = None \/ w \in born
      BY <1>4, <1>w DEF BornOf, CreatePc
    <2>6. /\ pc[r] \in SignOutPc => \A t \in goal[r] : IsSameSSOGroup(t, w)'
          /\ pc[r] = "terminateIdP" =>
                 w = None \/ \A t \in goal[r] : ~IsSameSSOGroup(t, w)'
      BY <1>w, <2>1, <2>3, <2>4, <2>5 DEF SignOutOf
    <2>7. who'[r] = w
      BY <1>w DEF Same
    <2>8. /\ pc[r] \in SignOutPc => \A t \in goal[r] : IsSameSSOGroup(t, who[r])'
          /\ pc[r] = "terminateIdP" =>
                 who'[r] = None \/ \A t \in goal[r] : ~IsSameSSOGroup(t, who[r])'
      BY <2>6, <2>7
    <2> QED
      BY <2>1, <2>2, <2>8 DEF SignOutOf, Same
  <1>8. FoundOf(r)'
    <2>1. FoundOf(r)
      BY DEF RequestInv
    <2> QED
      BY <1>b, <1>s, <1>w, <2>1 DEF FoundOf, Same, SignOutPc
  <1>9. DeadOf(r)'
    <2>1. DeadOf(r)
      BY DEF RequestInv
    <2> SUFFICES ASSUME dead[r], pc[r] \in UsePc
                 PROVE  w \notin stored' \/ (Bereft(w)' /\ pc[r] \in {"get", "getIdP"})
      BY <1>w DEF DeadOf, Same
    <2>2. w \in Grant /\ w \in born /\ w \in Listable
      BY <1>4, <1>b, <1>w DEF ControlOf
    <2>3. SSOGroupIDPSessionID(w) \in born \cup {None}
      BY <2>2, GroupFacts
    <2>4. SSOGroupIDPSessionID(w)' = SSOGroupIDPSessionID(w)
      BY <1>1, <2>2
    <2> QED
      BY <1>w, <2>1, <2>2, <2>3, <2>4 DEF DeadOf, Bereft, Aged
  <1>10. GroupOf(r)'
    <2>1. GroupOf(r)
      BY DEF RequestInv
    <2> SUFFICES ASSUME pc[r] = "delete"
                 PROVE  /\ \A t \in todo[r] : IsSameSSOGroup(t, w)'
                        /\ \A g \in stored' \cap Grant :
                               InGroupOf(g, w)' => g \in todo[r] \cup late' \cup dropped'
      BY <1>w DEF GroupOf, Same
    <2>2. w \in Listable \cap born
      BY <1>b DEF SignOutPc
    <2>3. todo[r] \subseteq born /\ \A t \in todo[r] : IsSameSSOGroup(t, w)
      BY <1>4, <1>w, <2>1 DEF GroupOf, BornOf
    <2>4. \A t \in todo[r] : IsSameSSOGroup(t, w)'
      BY <1>1, <1>2, <2>2, <2>3
    <2>5. ASSUME NEW g \in stored' \cap Grant, InGroupOf(g, w)'
          PROVE  g \in todo[r] \cup late' \cup dropped'
      <3>1. CASE g \in born
        <4>1. g \in stored /\ g \in Listable
          BY <2>5, <3>1 DEF Aged, Listable
        <4>2. InGroupOf(g, w)
          BY <1>1, <2>2, <2>5, <3>1, <4>1
        <4> QED
          BY <1>w, <2>1, <2>5, <4>1, <4>2 DEF GroupOf, Aged
      <3>2. CASE g \notin born
        BY <1>w, <2>5, <3>2 DEF NewKeys, Same
      <3> QED
        BY <3>1, <3>2
    <2> QED
      BY <2>4, <2>5
  <1>11. SingleOf(r)'
    <2>1. SingleOf(r)
      BY DEF RequestInv
    <2>2. Listed(r)' <=> Listed(r)
      BY <1>d DEF Listed, Same
    <2>3. ASSUME Listed(r), NEW g \in stored' \cap Grant, OfClient(g)'
          PROVE  g \in queue[r] \cup unseen' \cup dropped'
      <3>1. CASE g \in born /\ OfClient(g)
        <4>1. g \in stored
          BY <3>1 DEF Aged
        <4>2. g \in queue[r] \cup unseen \cup dropped
          BY <2>1, <2>3, <3>1, <4>1 DEF SingleOf
        <4> QED
          BY <2>3, <4>2 DEF NewKeys, Aged
      <3>2. CASE ~(g \in born /\ OfClient(g))
        BY <2>3, <3>2 DEF NewKeys
      <3> QED
        BY <3>1, <3>2
    <2> QED
      BY <2>1, <2>2, <2>3 DEF SingleOf, Same
  <1> QED
    BY <1>5, <1>6, <1>7, <1>8, <1>9, <1>10, <1>11 DEF RequestInv

\* A request that returns keeps nothing.
LEMMA ReturnInv ==
    ASSUME LocalTypes, NEW r \in Request, Return(r)
    PROVE  /\ LocalTypes' /\ RequestInv(r)'
           /\ pc'[r] = "idle" /\ held'[r] = None
           /\ \A q \in Request \ {r} : Same(q)
  <1>1. LocalTypes'
    BY DEF LocalTypes, Return, Forget, Label
  <1>2. \A q \in Request \ {r} : Same(q)
    BY DEF LocalTypes, Return, Forget, Same
  <1>3. /\ pc'[r] = "idle" /\ who'[r] = None /\ held'[r] = None
        /\ goal'[r] = {} /\ idps'[r] = {} /\ todo'[r] = {} /\ queue'[r] = {}
    BY DEF LocalTypes, Return, Forget
  <1>4. ControlOf(r)' /\ BornOf(r)'
    BY <1>3 DEF ControlOf, BornOf, SignOutPc, TerminatePc, UsePc, CreatePc
  <1>5. SignOutOf(r)' /\ FoundOf(r)' /\ DeadOf(r)' /\ GroupOf(r)' /\ SingleOf(r)'
    BY <1>3 DEF SignOutOf, FoundOf, DeadOf, GroupOf, SingleOf, Listed, SignOutPc, UsePc
  <1> QED
    BY <1>1, <1>2, <1>3, <1>4, <1>5 DEF RequestInv


\* A call changes the local variables of its request only.
LEMMA CallLocals ==
    ASSUME LocalTypes, StoreTypes, Lineage, NEW r \in Request, Call(r)
    PROVE  LocalTypes' /\ \A q \in Request \ {r} : Same(q)
  <1>1. ASSUME NEW s \in Listable, BeginSignOut(r, s)
        PROVE  LocalTypes' /\ \A q \in Request \ {r} : Same(q)
    <2>1. Affected(s) \subseteq Listable
      BY AffectedFacts
    <2>2. LocalTypes'
      BY <1>1, <2>1 DEF LocalTypes, BeginSignOut, InvalidateBegins, Label, exchange
    <2>3. \A q \in Request \ {r} : Same(q)
      BY <1>1 DEF LocalTypes, BeginSignOut, InvalidateBegins, Same, exchange
    <2> QED
      BY <2>2, <2>3
  <1>2. ASSUME NEW s \in Listable \cup {None}, BeginTerminate(r, s)
        PROVE  LocalTypes' /\ \A q \in Request \ {r} : Same(q)
    <2> DEFINE new == Others(Shown(Session), s)
               all == Others((stored \cap Listable) \ dropped, s)
    <2>0. new \subseteq Listable /\ all \subseteq Listable
      BY DEF Others, Shown, Listable
    <2>1. todo' = [todo EXCEPT ![r] = new] /\ goal' = [goal EXCEPT ![r] = all]
      BY <1>2 DEF BeginTerminate
    <2> HIDE DEF new, all
    <2>2. LocalTypes'
      BY <1>2, <2>0, <2>1 DEF LocalTypes, BeginTerminate, Goto, Label, exchange
    <2>3. \A q \in Request \ {r} : Same(q)
      BY <1>2, <2>1 DEF LocalTypes, BeginTerminate, Goto, Same, exchange
    <2> QED
      BY <2>2, <2>3
  <1>3. ASSUME NEW s \in Session, BeginLogin(r, s)
        PROVE  LocalTypes' /\ \A q \in Request \ {r} : Same(q)
    <2>1. LocalTypes'
      BY <1>3 DEF LocalTypes, BeginLogin, Goto, Label, Listable, exchange
    <2>2. \A q \in Request \ {r} : Same(q)
      BY <1>3 DEF LocalTypes, BeginLogin, Goto, Same, exchange
    <2> QED
      BY <2>1, <2>2
  <1>4. ASSUME NEW c \in Code, NEW refresh \in BOOLEAN, GetCodeGrant(r, c, refresh)
        PROVE  LocalTypes' /\ \A q \in Request \ {r} : Same(q)
    <2> DEFINE joins == refresh /\ data[c].by \in Grant
    <2>1. /\ \E l \in Label : pc' = [pc EXCEPT ![r] = l]
          /\ \E w \in Listable \cup {None} : who' = [who EXCEPT ![r] = w]
      BY <1>4 DEF GetCodeGrant, Branch, Label, Listable
    <2>2. /\ dead' = [dead EXCEPT ![r] = joins /\ IsDead(data[c].by)]
          /\ held' = [held EXCEPT ![r] = c] /\ offline' = [offline EXCEPT ![r] = refresh]
          /\ UNCHANGED <<queue, idps, todo, found, goal>>
      BY <1>4 DEF GetCodeGrant, Branch
    <2>3. (joins /\ IsDead(data[c].by)) \in BOOLEAN
      OBVIOUS
    <2> HIDE DEF joins
    <2>4. LocalTypes'
      BY <2>1, <2>2, <2>3 DEF LocalTypes
    <2>5. \A q \in Request \ {r} : Same(q)
      BY <2>1, <2>2 DEF LocalTypes, Same
    <2> QED
      BY <2>4, <2>5
  <1>5. ASSUME NEW g \in Grant, BeginUse(r, g)
        PROVE  LocalTypes' /\ \A q \in Request \ {r} : Same(q)
    <2>0. IsDead(g) \in BOOLEAN
      BY DEF IsDead
    <2>1. LocalTypes'
      BY <1>5, <2>0 DEF LocalTypes, BeginUse, Goto, Label, Listable, exchange
    <2>2. \A q \in Request \ {r} : Same(q)
      BY <1>5 DEF LocalTypes, BeginUse, Goto, Same, exchange
    <2> QED
      BY <2>1, <2>2
  <1> QED
    BY <1>1, <1>2, <1>3, <1>4, <1>5 DEF Call

\* A step that goes to a label and leaves the other local variables alone
LEMMA GoesLocals ==
    ASSUME LocalTypes, NEW r \in Request, NEW l \in Label,
           pc' = [pc EXCEPT ![r] = l], UNCHANGED locals
    PROVE  LocalTypes' /\ \A q \in Request \ {r} : Same(q)
  <1>1. LocalTypes'
    BY DEF LocalTypes, locals, exchange
  <1>2. \A q \in Request \ {r} : Same(q)
    BY DEF LocalTypes, locals, exchange, Same
  <1> QED
    BY <1>1, <1>2

\* So does a step.
LEMMA StepLocals ==
    ASSUME LocalTypes, StoreTypes, Lineage, NEW r \in Request, Step(r)
    PROVE  LocalTypes' /\ \A q \in Request \ {r} : Same(q)
  <1>1. CASE ListIdP(r)
    <2>0. Shown(Session) \subseteq Session
      BY DEF Shown
    <2>1. LocalTypes'
      BY <1>1, <2>0 DEF LocalTypes, ListIdP, Goto, Label, exchange
    <2>2. \A q \in Request \ {r} : Same(q)
      BY <1>1 DEF LocalTypes, ListIdP, Goto, Same, exchange
    <2> QED
      BY <2>1, <2>2
  <1>2. CASE ListGrants(r)
    <2> DEFINE listed == idps[r] \cup Shown(Grant)
               new == {t \in listed : IsSameSSOGroup(t, who[r])}
    <2>0. new \subseteq Listable /\ (who[r] \in listed) \in BOOLEAN
      BY DEF LocalTypes, Shown, Listable
    <2>1. todo' = [todo EXCEPT ![r] = new] /\ found' = [found EXCEPT ![r] = who[r] \in listed]
      BY <1>2 DEF ListGrants
    <2> HIDE DEF new, listed
    <2>2. LocalTypes'
      BY <1>2, <2>0, <2>1 DEF LocalTypes, ListGrants, Goto, Label, exchange
    <2>3. \A q \in Request \ {r} : Same(q)
      BY <1>2, <2>1 DEF LocalTypes, ListGrants, Goto, Same, exchange
    <2> QED
      BY <2>2, <2>3
  <1>3. CASE \E t \in Listable : DeleteOne(r, t) \/ TerminateDelete(r, t)
    <2>0. PICK t \in Listable : DeleteOne(r, t) \/ TerminateDelete(r, t)
      BY <1>3
    <2>1. LocalTypes'
      BY <2>0 DEF LocalTypes, DeleteOne, TerminateDelete, exchange
    <2>2. \A q \in Request \ {r} : Same(q)
      BY <2>0 DEF LocalTypes, DeleteOne, TerminateDelete, Same, exchange
    <2> QED
      BY <2>1, <2>2
  <1>4. CASE LogoutPanics(r)
    <2>1. LocalTypes'
      BY <1>4 DEF LocalTypes, LogoutPanics, Goto, Label, exchange
    <2>2. \A q \in Request \ {r} : Same(q)
      BY <1>4 DEF LocalTypes, LogoutPanics, Goto, Same, exchange
    <2> QED
      BY <2>1, <2>2
  <1>5. CASE Return(r)
    BY <1>5, ReturnInv
  <1>6. CASE TerminateListGrants(r)
    <2> DEFINE new == Others(Shown(Grant), who[r])
    <2>0. new \subseteq Listable
      BY DEF Others, Shown, Listable
    <2>1. todo' = [todo EXCEPT ![r] = new]
      BY <1>6 DEF TerminateListGrants
    <2> HIDE DEF new
    <2>2. LocalTypes'
      BY <1>6, <2>0, <2>1 DEF LocalTypes, TerminateListGrants, Goto, Label, exchange
    <2>3. \A q \in Request \ {r} : Same(q)
      BY <1>6 DEF LocalTypes, TerminateListGrants, Goto, Same, exchange
    <2> QED
      BY <2>2, <2>3
  <1>7. CASE ListClientOfflineGrants(r)
    <2> DEFINE new == {g \in Shown(Grant) : OfClient(g)}
    <2>0. new \subseteq Grant
      BY DEF Shown
    <2>1. queue' = [queue EXCEPT ![r] = new]
      BY <1>7 DEF ListClientOfflineGrants
    <2> HIDE DEF new
    <2>2. LocalTypes'
      BY <1>7, <2>0, <2>1 DEF LocalTypes, ListClientOfflineGrants, Goto, Label, exchange
    <2>3. \A q \in Request \ {r} : Same(q)
      BY <1>7 DEF LocalTypes, ListClientOfflineGrants, Goto, Same, exchange
    <2> QED
      BY <2>2, <2>3
  <1>8. CASE \E g \in Grant : RevokeClientGrant(r, g)
    <2>0. PICK g \in Grant : RevokeClientGrant(r, g)
      BY <1>8
    <2>1. LocalTypes'
      BY <2>0 DEF LocalTypes, RevokeClientGrant, InvalidateBegins, Label, Listable, exchange
    <2>2. \A q \in Request \ {r} : Same(q)
      BY <2>0 DEF LocalTypes, RevokeClientGrant, InvalidateBegins, Same, exchange
    <2> QED
      BY <2>1, <2>2
  <1>9. CASE ClientGrantRevoked(r)
    <2>1. LocalTypes'
      BY <1>9 DEF LocalTypes, ClientGrantRevoked, Goto, Label, exchange
    <2>2. \A q \in Request \ {r} : Same(q)
      BY <1>9 DEF LocalTypes, ClientGrantRevoked, Goto, Same, exchange
    <2> QED
      BY <2>1, <2>2
  <1>10. CASE \E g \in Grant : BeginIssue(r, g)
    <2>0. PICK g \in Grant : BeginIssue(r, g)
      BY <1>10
    <2>1. LocalTypes'
      BY <2>0 DEF LocalTypes, BeginIssue, Label, Listable, exchange
    <2>2. \A q \in Request \ {r} : Same(q)
      BY <2>0 DEF LocalTypes, BeginIssue, Same, exchange
    <2> QED
      BY <2>1, <2>2
  <1>11. CASE ~Return(r) /\ \/ IssueOfflineGrant(r) \/ IssueNothing(r) \/ GetOfflineGrant(r)
                            \/ AddRefreshToken(r)
    <2>1. \E l \in Label : pc' = [pc EXCEPT ![r] = l]
      BY <1>11 DEF IssueOfflineGrant, IssueNothing, GetOfflineGrant, AddRefreshToken, Goto, Label
    <2>2. UNCHANGED locals
      BY <1>11 DEF IssueOfflineGrant, IssueNothing, GetOfflineGrant, AddRefreshToken
    <2> QED
      BY <2>1, <2>2, GoesLocals
  <1>12. CASE \E s \in Session \cup {None} : CreateSession(r, s)
    <2>0. PICK s \in Session \cup {None} : CreateSession(r, s)
      BY <1>12
    <2>1. CASE s = None
      BY <2>0, <2>1, ReturnInv DEF CreateSession
    <2>2. CASE s # None
      <3>0. s \in Listable
        BY <2>2 DEF Listable
      <3>1. Affected(s) \subseteq Listable
        BY <3>0, AffectedFacts
      <3>2. LocalTypes'
        BY <2>0, <2>2, <3>0, <3>1
           DEF LocalTypes, CreateSession, InvalidateBegins, Label, exchange
      <3>3. \A q \in Request \ {r} : Same(q)
        BY <2>0, <2>2 DEF LocalTypes, CreateSession, InvalidateBegins, Same, exchange
      <3> QED
        BY <3>2, <3>3
    <2> QED
      BY <2>1, <2>2
  <1>13. SignOutReturns(r) \/ Recover(r) \/ TerminateReturns(r) \/ DeleteCodeGrant(r)
             \/ ExchangeFails(r) \/ UpdateGrant(r) \/ Crash(r) => Return(r)
    BY DEF SignOutReturns, Recover, TerminateReturns, DeleteCodeGrant, ExchangeFails,
           UpdateGrant, Crash
  <1> QED
    BY <1>1, <1>2, <1>3, <1>4, <1>5, <1>6, <1>7, <1>8, <1>9, <1>10, <1>11, <1>12, <1>13 DEF Step

----------------------------------------------------------------------------
(* Steps that leave the keys alone *)

\* The entries of the lists may change, but for those of keys that are stored.
Still ==
    /\ UNCHANGED <<stored, content, late, unseen>>
    /\ list \cup dropped \subseteq list' \cup dropped' \cup born
    /\ stored \cap list \subseteq list' /\ list' \subseteq Listable
    /\ dropped \subseteq dropped' /\ dropped' \cap born \subseteq dropped
    /\ dropped' \subseteq Listable

\* A List removes entries only of keys that are not there.
LEMMA CleansStill ==
    ASSUME StoreTypes, HistoryTypes, NEW S \in {Session, Grant}, Cleans(S),
           UNCHANGED <<stored, content, late, unseen>>
    PROVE  Still
  BY DEF StoreTypes, HistoryTypes, Cleans, Still, Listable

\* An entry is added, or none.
LEMMA EntryStill ==
    ASSUME StoreTypes, HistoryTypes, NEW S \in SUBSET Listable, list' = list \cup S,
           UNCHANGED <<stored, content, late, unseen, dropped>>
    PROVE  Still
  BY DEF StoreTypes, HistoryTypes, Still

LEMMA StoreStill ==
    ASSUME StoreTypes, HistoryTypes, UNCHANGED <<store, late, unseen, dropped>>
    PROVE  Still
  BY DEF StoreTypes, HistoryTypes, Still, store

\* What a group is follows from codes and from the grants issued for them.
LEMMA SameGroups ==
    ASSUME UNCHANGED <<data, origin>>
    PROVE  /\ \A g : DataOf(g)' = DataOf(g)
           /\ \A s : SSOGroupIDPSessionID(s)' = SSOGroupIDPSessionID(s)
           /\ \A s, t : IsSameSSOGroup(s, t)' <=> IsSameSSOGroup(s, t)
           /\ \A s, t : InGroupOf(s, t)' <=> InGroupOf(s, t)
  <1>1. \A g : DataOf(g)' = DataOf(g)
    BY DEF DataOf
  <1>2. \A s : SSOGroupIDPSessionID(s)' = SSOGroupIDPSessionID(s)
    BY <1>1 DEF SSOGroupIDPSessionID
  <1>3. /\ \A s, t : IsSameSSOGroup(s, t)' <=> IsSameSSOGroup(s, t)
        /\ \A s, t : InGroupOf(s, t)' <=> InGroupOf(s, t)
    BY <1>2 DEF IsSameSSOGroup, InGroupOf
  <1> QED
    BY <1>1, <1>2, <1>3

\* Groups, and which grants have a token of the client, stay with the keys.
LEMMA StillGroups ==
    ASSUME Still
    PROVE  /\ \A s : SSOGroupIDPSessionID(s)' = SSOGroupIDPSessionID(s)
           /\ \A s, t : IsSameSSOGroup(s, t)' <=> IsSameSSOGroup(s, t)
           /\ \A s, t : InGroupOf(s, t)' <=> InGroupOf(s, t)
           /\ \A g : OfClient(g)' <=> OfClient(g)
  <1>1. UNCHANGED <<data, origin, joined>>
    BY DEF Still, content
  <1>2. \A g : OfClient(g)' <=> OfClient(g)
    BY <1>1, SameGroups DEF OfClient
  <1> QED
    BY <1>1, <1>2, SameGroups

\* If the keys stay, nothing is born.
LEMMA StillAged ==
    ASSUME StoreTypes, Still
    PROVE  Aged /\ \A r \in Request : NewKeys(r)
  <1>1. Aged
    BY DEF StoreTypes, Still, Aged, content
  <1>2. \A g : OfClient(g)' <=> OfClient(g)
    BY StillGroups
  <1>3. stored' = stored /\ stored \subseteq born /\ unseen' = unseen
    BY DEF StoreTypes, Still
  <1>4. \A r \in Request : NewKeys(r)
    BY <1>2, <1>3 DEF NewKeys
  <1> QED
    BY <1>1, <1>4

\* Steps of requests that leave the keys alone keep the invariant of the store.
LEMMA StillStore ==
    ASSUME StoreInv, Still,
           signedOut' \subseteq Listable \cap born, signedOut' \cap stored = {},
           accepted' = {}, shared \subseteq shared', shared' \subseteq Code, failures' \in Nat
    PROVE  StoreInv'
  <1>1. StoreTypes' /\ HistoryTypes'
    BY DEF StoreInv, StoreTypes, HistoryTypes, Still, content
  <1>2. Lineage'
    BY DEF StoreInv, Lineage, Still, content
  <1>3. SignOutIsComplete' /\ SignedOutGroupIsDead'
    BY DEF SignOutIsComplete, SignedOutGroupIsDead, Still
  <1>4. OrphanOnlyByRace'
    BY StillGroups DEF StoreInv, OrphanOnlyByRace, Still
  <1>5. CodeUsedTwiceOnlyByOverlap'
    BY DEF StoreInv, CodeUsedTwiceOnlyByOverlap, Still, content
  <1>6. Entries'
    BY DEF StoreInv, Entries, Still
  <1> QED
    BY <1>1, <1>2, <1>3, <1>4, <1>5, <1>6 DEF StoreInv

\* Codes and their holders stay as they are.
LEMMA SameHolders ==
    ASSUME CodeIsUsedOnce, LocalTypes,
           stored' \cap Code \subseteq stored, origin' = origin, shared \subseteq shared',
           \A q \in Request : held'[q] = held[q],
           \A q \in Request : held[q] # None /\ pc[q] = "issued" => pc'[q] = "issued"
    PROVE  CodeIsUsedOnce'
  BY Kinds DEF CodeIsUsedOnce

\* What remains to be shown about a step of r that leaves the keys and the history alone
LEMMA StillInv ==
    ASSUME GroupInv, NEW r \in Request, Still, UNCHANGED <<signedOut, accepted>>,
           shared \subseteq shared', shared' \subseteq Code, failures' \in Nat,
           LocalTypes', \A q \in Request \ {r} : Same(q),
           RequestInv(r)', CodeIsUsedOnce'
    PROVE  GroupInv'
  <1>1. StoreInv'
    <2>1. /\ signedOut' \subseteq Listable \cap born /\ signedOut' \cap stored = {}
          /\ accepted' = {}
      BY DEF GroupInv, StoreInv, Lineage, HistoryTypes, SignOutIsComplete, SignedOutGroupIsDead
    <2> QED
      BY <2>1, StillStore DEF GroupInv
  <1>2. \A q \in Request \ {r} : RequestInv(q)'
    BY StillAged, SameInv DEF GroupInv, StoreInv
  <1> QED
    BY <1>1, <1>2 DEF GroupInv

\* The same, for steps that do not touch the code of an exchange
LEMMA StillInvUnshared ==
    ASSUME GroupInv, NEW r \in Request, Still,
           UNCHANGED <<signedOut, accepted, shared, failures>>,
           LocalTypes', \A q \in Request \ {r} : Same(q), RequestInv(r)',
           held'[r] = held[r], held[r] # None /\ pc[r] = "issued" => pc'[r] = "issued"
    PROVE  GroupInv'
  <1>1. CodeIsUsedOnce'
    <2>1. /\ \A q \in Request : held'[q] = held[q]
          /\ \A q \in Request : held[q] # None /\ pc[q] = "issued" => pc'[q] = "issued"
      BY DEF Same
    <2> QED
      BY <2>1, SameHolders DEF GroupInv, Still, content
  <1> QED
    BY <1>1, StillInv DEF GroupInv, StoreInv, HistoryTypes

\* Steps of no request that leave the keys alone keep everything.
LEMMA StillAll ==
    ASSUME GroupInv, Still, UNCHANGED <<signedOut, accepted, shared, failures, pc, locals>>
    PROVE  GroupInv'
  <1>1. LocalTypes' /\ \A q \in Request : Same(q)
    BY DEF GroupInv, LocalTypes, locals, exchange, Same
  <1>2. /\ signedOut' \subseteq Listable \cap born /\ signedOut' \cap stored = {}
        /\ accepted' = {} /\ shared' \subseteq Code /\ failures' \in Nat
    BY DEF GroupInv, StoreInv, Lineage, HistoryTypes, SignOutIsComplete, SignedOutGroupIsDead
  <1>3. StoreInv'
    BY <1>2, StillStore DEF GroupInv
  <1>4. \A q \in Request : RequestInv(q)'
    BY <1>1, StillAged, SameInv DEF GroupInv, StoreInv
  <1>5. CodeIsUsedOnce'
    BY <1>1, SameHolders DEF GroupInv, Same, Still, content
  <1> QED
    BY <1>1, <1>3, <1>4, <1>5 DEF GroupInv

\* What the history of a step that changes none of it still is
LEMMA HistoryKept ==
    ASSUME GroupInv
    PROVE  /\ signedOut \subseteq Listable \cap born /\ signedOut \cap stored = {}
           /\ accepted = {} /\ shared \subseteq Code /\ failures \in Nat
  BY DEF GroupInv, StoreInv, HistoryTypes, Lineage, SignOutIsComplete, SignedOutGroupIsDead

\* What remains to be shown about a step with which r returns and that leaves the keys alone
LEMMA ReturnsInv ==
    ASSUME GroupInv, NEW r \in Request, Return(r), Still,
           signedOut' \subseteq Listable \cap born, signedOut' \cap stored = {},
           accepted' = {}, shared \subseteq shared', shared' \subseteq Code, failures' \in Nat,
           held[r] # None /\ pc[r] = "issued" => held[r] \in shared'
    PROVE  GroupInv'
  <1>0. LocalTypes /\ StoreTypes /\ Lineage /\ StoreInv /\ CodeIsUsedOnce
    BY DEF GroupInv, StoreInv
  <1>1. /\ LocalTypes' /\ RequestInv(r)' /\ held'[r] = None
        /\ \A q \in Request \ {r} : Same(q)
    BY <1>0, ReturnInv
  <1>2. StoreInv'
    BY <1>0, StillStore
  <1>3. Aged /\ \A q \in Request : NewKeys(q)
    BY <1>0, StillAged
  <1>4. \A q \in Request \ {r} : RequestInv(q)'
    BY <1>0, <1>1, <1>3, SameInv DEF GroupInv
  <1>5. CodeIsUsedOnce'
    <2> SUFFICES ASSUME NEW d \in Code, d \notin shared'
                 PROVE  /\ \A p, q \in Request : held'[p] = d /\ held'[q] = d => p = q
                        /\ \A g \in Grant : origin[g] = d =>
                               /\ \A q \in Request : held'[q] = d => pc'[q] = "issued"
                               /\ d \in stored => \E q \in Request : held'[q] = d
      BY DEF CodeIsUsedOnce, Still, content
    <2>1. d \notin shared /\ d # None
      BY Kinds
    <2>2. \A q \in Request \ {r} : held'[q] = held[q] /\ pc'[q] = pc[q]
      BY <1>1 DEF Same
    <2>3. CASE held[r] = d
      <3>1. pc[r] # "issued"
        BY <2>1, <2>3
      <3>2. \A g \in Grant : origin[g] # d
        BY <1>0, <2>1, <2>3, <3>1 DEF CodeIsUsedOnce
      <3>3. \A p, q \in Request : held[p] = d /\ held[q] = d => p = q
        BY <1>0, <2>1 DEF CodeIsUsedOnce
      <3> QED
        BY <1>1, <2>1, <2>2, <3>2, <3>3
    <2>4. CASE held[r] # d
      <3>1. \A q \in Request : held'[q] = d <=> held[q] = d
        BY <1>1, <2>1, <2>2, <2>4
      <3>2. \A q \in Request : held'[q] = d => pc'[q] = pc[q]
        BY <1>1, <2>1, <2>2
      <3> QED
        BY <1>0, <2>1, <3>1, <3>2 DEF CodeIsUsedOnce
    <2> QED
      BY <2>3, <2>4
  <1> QED
    BY <1>1, <1>2, <1>4, <1>5 DEF GroupInv

\* The same, for steps that change no history
LEMMA ReturnsQuietly ==
    ASSUME GroupInv, NEW r \in Request, Return(r), Still,
           UNCHANGED <<signedOut, accepted, shared, failures>>, pc[r] # "issued"
    PROVE  GroupInv'
  BY HistoryKept, ReturnsInv

----------------------------------------------------------------------------
(* The calls *)

\* A sign-out begins with everything it is about in its goal.
LEMMA BeginSignOutInv ==
    ASSUME GroupInv, NEW r \in Request, Call(r), NEW s \in Listable, BeginSignOut(r, s)
    PROVE  GroupInv'
  <1>0. LocalTypes /\ StoreTypes /\ HistoryTypes /\ Lineage /\ RequestInv(r)
    BY DEF GroupInv, StoreInv
  <1>1. LocalTypes' /\ \A q \in Request \ {r} : Same(q)
    BY <1>0, CallLocals
  <1>h. UNCHANGED <<store, late, unseen, dropped, signedOut, accepted, shared, failures>>
    BY DEF BeginSignOut, history
  <1>2. Still /\ UNCHANGED <<signedOut, accepted, shared, failures>>
    BY <1>0, <1>h, StoreStill
  <1>3. /\ pc[r] = "idle" /\ pc'[r] = "listIdP" /\ who'[r] = s
        /\ goal'[r] = Affected(s) /\ held'[r] = held[r] /\ s \in stored
        /\ idps'[r] = idps[r] /\ todo'[r] = todo[r] /\ queue'[r] = queue[r]
    BY <1>0 DEF BeginSignOut, InvalidateBegins, LocalTypes, exchange
  <1>4. held[r] = None
    BY <1>0, <1>3 DEF RequestInv, ControlOf
  <1>5. ControlOf(r)'
    BY <1>3, <1>4 DEF ControlOf, SignOutPc, TerminatePc, UsePc
  <1>6. BornOf(r)'
    BY <1>0, <1>h, <1>3, <1>4, AffectedFacts
       DEF BornOf, store, content, StoreTypes, RequestInv, CreatePc
  <1>7. SignOutOf(r)'
    <2>1. \A t \in Affected(s) : IsSameSSOGroup(t, s)'
      BY <1>0, <1>2, AffectedFacts, StillGroups
    <2>2. Affected(s) \cap dropped' = {}
      BY <1>0, <1>h, AffectedFacts
    <2> QED
      BY <1>3, <2>1, <2>2 DEF SignOutOf
  <1>8. FoundOf(r)' /\ DeadOf(r)' /\ GroupOf(r)' /\ SingleOf(r)'
    BY <1>3, <1>4 DEF FoundOf, DeadOf, GroupOf, SingleOf, Listed, UsePc
  <1>9. RequestInv(r)'
    BY <1>5, <1>6, <1>7, <1>8 DEF RequestInv
  <1> QED
    BY <1>1, <1>2, <1>3, <1>9, StillInvUnshared

\* A termination begins with everything but the group of the current session in its goal.
LEMMA BeginTerminateInv ==
    ASSUME GroupInv, NEW r \in Request, Call(r),
           NEW s \in Listable \cup {None}, BeginTerminate(r, s)
    PROVE  GroupInv'
  <1>0. LocalTypes /\ StoreTypes /\ HistoryTypes /\ Lineage /\ Entries /\ RequestInv(r)
    BY DEF GroupInv, StoreInv
  <1>1. LocalTypes' /\ \A q \in Request \ {r} : Same(q)
    BY <1>0, CallLocals
  <1>2. /\ Cleans(Session)
        /\ UNCHANGED <<stored, content, late, unseen, signedOut, accepted, shared, failures>>
    BY DEF BeginTerminate
  <1>3. Still
    BY <1>0, <1>2, CleansStill
  <1> DEFINE all == Others((stored \cap Listable) \ dropped, s)
             new == Others(Shown(Session), s)
  <1>4. /\ pc[r] = "idle" /\ pc'[r] = "terminateIdP" /\ who'[r] = s
        /\ goal'[r] = all /\ held'[r] = held[r] /\ s \in stored \cup {None}
        /\ todo'[r] = new /\ idps'[r] = idps[r] /\ queue'[r] = queue[r]
    BY <1>0 DEF BeginTerminate, Goto, LocalTypes, exchange
  <1>5. held[r] = None
    BY <1>0, <1>4 DEF RequestInv, ControlOf
  <1>6. /\ all \subseteq stored \ dropped /\ new \subseteq stored
        /\ s # None => \A t \in all : ~IsSameSSOGroup(t, s)
        /\ all \cap Session \subseteq new
    BY <1>0 DEF Others, Shown, Entries, Listable
  <1> HIDE DEF all, new
  <1>7. ControlOf(r)'
    BY <1>4, <1>5 DEF ControlOf, SignOutPc, TerminatePc, UsePc
  <1>8. BornOf(r)'
    BY <1>0, <1>2, <1>4, <1>5, <1>6 DEF BornOf, content, StoreTypes, RequestInv, CreatePc
  <1>9. SignOutOf(r)'
    <2>1. s # None => \A t \in all : ~IsSameSSOGroup(t, s)'
      BY <1>3, <1>6, StillGroups
    <2>2. all \cap dropped' = {}
      BY <1>0, <1>3, <1>6 DEF Still, StoreTypes
    <2>3. goal'[r] \cap stored' \cap Session \subseteq todo'[r]
      BY <1>2, <1>4, <1>6
    <2>4. who'[r] = None \/ \A t \in goal'[r] : ~IsSameSSOGroup(t, who[r])'
      BY <1>4, <2>1
    <2> QED
      BY <1>4, <2>2, <2>3, <2>4 DEF SignOutOf, SignOutPc
  <1>10. FoundOf(r)' /\ DeadOf(r)' /\ GroupOf(r)' /\ SingleOf(r)'
    BY <1>4, <1>5 DEF FoundOf, DeadOf, GroupOf, SingleOf, Listed, UsePc
  <1>11. RequestInv(r)'
    BY <1>7, <1>8, <1>9, <1>10 DEF RequestInv
  <1> QED
    BY <1>1, <1>2, <1>3, <1>4, <1>11, StillInvUnshared

\* A grant that is dead when its use begins is gone, or its session is.
LEMMA IsDeadFacts ==
    ASSUME GroupInv, NEW g \in Grant
    PROVE  IsDead(g) => g \notin stored \/ Bereft(g)
  <1>1. g \in signedOut => g \notin stored
    BY DEF GroupInv, StoreInv, SignOutIsComplete
  <1>2. None \notin signedOut
    BY Kinds DEF GroupInv, StoreInv, HistoryTypes, Listable
  <1>3. SSOGroupIDPSessionID(g) \in signedOut => Bereft(g)
    BY <1>2 DEF GroupInv, StoreInv, SignOutIsComplete, Bereft
  <1> QED
    BY <1>1, <1>3 DEF IsDead

\* The use of a grant that is dead already begins without its session.
LEMMA BeginUseInv ==
    ASSUME GroupInv, NEW r \in Request, Call(r), NEW g \in Grant, BeginUse(r, g)
    PROVE  GroupInv'
  <1>0. LocalTypes /\ StoreTypes /\ HistoryTypes /\ Lineage /\ RequestInv(r)
    BY DEF GroupInv, StoreInv
  <1>1. LocalTypes' /\ \A q \in Request \ {r} : Same(q)
    BY <1>0, CallLocals
  <1>h. UNCHANGED <<store, late, unseen, dropped, signedOut, accepted, shared, failures>>
    BY DEF BeginUse, history
  <1>2. Still
    BY <1>0, <1>h, StoreStill
  <1>3. /\ pc[r] = "idle" /\ pc'[r] = "get" /\ who'[r] = g /\ g \in born
        /\ goal'[r] = goal[r] /\ held'[r] = held[r] /\ idps'[r] = idps[r]
        /\ todo'[r] = todo[r] /\ queue'[r] = queue[r] /\ dead'[r] = IsDead(g)
    BY <1>0 DEF BeginUse, Goto, LocalTypes, exchange
  <1>4. held[r] = None /\ goal[r] = {}
    BY <1>0, <1>3 DEF RequestInv, ControlOf
  <1>5. ControlOf(r)'
    BY <1>3, <1>4 DEF ControlOf, SignOutPc, TerminatePc, UsePc
  <1>6. BornOf(r)'
    BY <1>0, <1>h, <1>3, <1>4 DEF BornOf, store, content, StoreTypes, RequestInv, CreatePc
  <1>7. DeadOf(r)'
    <2>1. IsDead(g) => g \notin stored \/ Bereft(g)
      BY IsDeadFacts
    <2>2. Bereft(g)' <=> Bereft(g)
      BY <1>2, StillGroups DEF Bereft, Still
    <2>3. stored' = stored
      BY <1>2 DEF Still
    <2> QED
      BY <1>3, <2>1, <2>2, <2>3 DEF DeadOf
  <1>8. SignOutOf(r)' /\ FoundOf(r)' /\ GroupOf(r)' /\ SingleOf(r)'
    BY <1>3, <1>4 DEF SignOutOf, FoundOf, GroupOf, SingleOf, Listed, SignOutPc
  <1>9. RequestInv(r)'
    BY <1>5, <1>6, <1>7, <1>8 DEF RequestInv
  <1> QED
    BY <1>1, <1>2, <1>h, <1>3, <1>9, StillInvUnshared

\* A login begins with the entry of its session.
LEMMA BeginLoginInv ==
    ASSUME GroupInv, NEW r \in Request, Call(r), NEW s \in Session, BeginLogin(r, s)
    PROVE  GroupInv'
  <1>0. LocalTypes /\ StoreTypes /\ HistoryTypes /\ Lineage /\ RequestInv(r)
    BY DEF GroupInv, StoreInv
  <1>1. LocalTypes' /\ \A q \in Request \ {r} : Same(q)
    BY <1>0, CallLocals
  <1>2. /\ list' = list \cup {s}
        /\ UNCHANGED <<stored, content, late, unseen, dropped, signedOut, accepted, shared,
                       failures>>
    BY DEF BeginLogin, history
  <1>3. Still
    <2>1. {s} \in SUBSET Listable
      BY DEF Listable
    <2> QED
      BY <1>0, <1>2, <2>1, EntryStill
  <1>4. /\ pc[r] = "idle" /\ pc'[r] = "createIdP" /\ who'[r] = s
        /\ goal'[r] = goal[r] /\ held'[r] = held[r] /\ idps'[r] = idps[r]
        /\ todo'[r] = todo[r] /\ queue'[r] = queue[r] /\ dead'[r] = dead[r]
    BY <1>0 DEF BeginLogin, Goto, LocalTypes, exchange
  <1>5. held[r] = None /\ goal[r] = {}
    BY <1>0, <1>4 DEF RequestInv, ControlOf
  <1>6. ControlOf(r)'
    BY <1>4, <1>5 DEF ControlOf, SignOutPc, TerminatePc, UsePc
  <1>7. BornOf(r)'
    BY <1>0, <1>2, <1>4, <1>5 DEF BornOf, content, StoreTypes, RequestInv, CreatePc
  <1>8. SignOutOf(r)' /\ FoundOf(r)' /\ DeadOf(r)' /\ GroupOf(r)' /\ SingleOf(r)'
    BY <1>4, <1>5
       DEF SignOutOf, FoundOf, DeadOf, GroupOf, SingleOf, Listed, SignOutPc, UsePc
  <1>9. RequestInv(r)'
    BY <1>6, <1>7, <1>8 DEF RequestInv
  <1> QED
    BY <1>1, <1>2, <1>3, <1>4, <1>9, StillInvUnshared

\* The exchange of a code begins.
LEMMA GetCodeGrantInv ==
    ASSUME GroupInv, NEW r \in Request, Call(r), NEW c \in Code, NEW refresh \in BOOLEAN,
           GetCodeGrant(r, c, refresh)
    PROVE  GroupInv'
  <1>0. /\ LocalTypes /\ StoreTypes /\ HistoryTypes /\ Lineage /\ RequestInv(r)
        /\ CodeIsUsedOnce
    BY DEF GroupInv, StoreInv
  <1>1. LocalTypes' /\ \A q \in Request \ {r} : Same(q)
    BY <1>0, CallLocals
  <1>h. UNCHANGED <<store, late, unseen, dropped, signedOut, accepted, failures>>
    BY DEF GetCodeGrant, Branch
  <1>2. Still
    BY <1>0, <1>h, StoreStill
  <1> DEFINE joins == refresh /\ data[c].by \in Grant
  <1>p. PICK b : b = data[c].by
    OBVIOUS
  <1>3. /\ pc[r] = "idle" /\ held'[r] = c /\ c \in stored /\ offline'[r] = refresh
        /\ goal'[r] = goal[r] /\ idps'[r] = idps[r] /\ todo'[r] = todo[r]
        /\ queue'[r] = queue[r]
        /\ shared' = IF \E q \in Request : held[q] = c THEN shared \cup {c} ELSE shared
    BY <1>0 DEF GetCodeGrant, Branch, LocalTypes
  <1>4. held[r] = None /\ goal[r] = {} /\ c # None
    BY <1>0, <1>3, Kinds DEF RequestInv, ControlOf
  <1>5. /\ pc'[r] = IF joins THEN "get"
                    ELSE IF refresh /\ data[c].single THEN "listClient" ELSE "issue"
        /\ who'[r] = IF joins THEN b ELSE None
        /\ dead'[r] = (joins /\ IsDead(b))
    BY <1>0, <1>p DEF GetCodeGrant, Branch, LocalTypes
  <1>6. data' = data /\ born' = born /\ c \in born /\ stored' = stored
    BY <1>0, <1>h, <1>3 DEF store, content, StoreTypes
  <1>7. joins => b \in Grant /\ b \in born
    <2>1. b \in born \cup {None} \/ data[c] = NoData
      BY <1>0, <1>p DEF Lineage
    <2> QED
      BY <1>p, <2>1, Kinds DEF NoData
  <1> HIDE DEF joins
  <1>8. ControlOf(r)'
    BY <1>3, <1>4, <1>5, <1>6, <1>7 DEF ControlOf, SignOutPc, TerminatePc, UsePc
  <1>9. BornOf(r)'
    BY <1>0, <1>3, <1>4, <1>5, <1>6, <1>7 DEF BornOf, RequestInv, CreatePc
  <1>10. DeadOf(r)'
    <2> SUFFICES ASSUME joins, IsDead(b)
                 PROVE  pc'[r] = "get" /\ (b \notin stored' \/ Bereft(b)')
      BY <1>5 DEF DeadOf, UsePc
    <2>1. b \notin stored \/ Bereft(b)
      BY <1>7, IsDeadFacts
    <2>2. Bereft(b)' <=> Bereft(b)
      BY <1>2, StillGroups DEF Bereft, Still
    <2> QED
      BY <1>5, <1>6, <2>1, <2>2
  <1>11. SignOutOf(r)' /\ FoundOf(r)' /\ GroupOf(r)' /\ SingleOf(r)'
    BY <1>3, <1>4, <1>5 DEF SignOutOf, FoundOf, GroupOf, SingleOf, Listed, SignOutPc
  <1>12. RequestInv(r)'
    BY <1>8, <1>9, <1>10, <1>11 DEF RequestInv
  <1>13. CodeIsUsedOnce'
    <2> SUFFICES ASSUME NEW d \in Code, d \notin shared'
                 PROVE  /\ \A p, q \in Request : held'[p] = d /\ held'[q] = d => p = q
                        /\ \A g \in Grant : origin[g] = d =>
                               /\ \A q \in Request : held'[q] = d => pc'[q] = "issued"
                               /\ d \in stored => \E q \in Request : held'[q] = d
      BY <1>2 DEF CodeIsUsedOnce, Still, content
    <2>1. d \notin shared
      BY <1>3
    <2>2. \A q \in Request \ {r} : held'[q] = held[q] /\ pc'[q] = pc[q]
      BY <1>1 DEF Same
    <2>3. CASE d = c
      <3>1. \A q \in Request : held[q] # c
        BY <1>3, <2>3
      <3>2. \A g \in Grant : origin[g] # c
        BY <1>0, <1>3, <2>1, <2>3, <3>1 DEF CodeIsUsedOnce
      <3> QED
        BY <2>2, <2>3, <3>1, <3>2
    <2>4. CASE d # c
      <3>1. \A q \in Request : held'[q] = d <=> held[q] = d
        BY <1>3, <1>4, <2>2, <2>4, Kinds
      <3>2. \A q \in Request : held'[q] = d => pc'[q] = pc[q]
        BY <1>3, <2>2, <2>4
      <3> QED
        BY <1>0, <2>1, <3>1, <3>2 DEF CodeIsUsedOnce
    <2> QED
      BY <2>3, <2>4
  <1>14. failures' \in Nat /\ shared \subseteq shared' /\ shared' \subseteq Code
    BY <1>0, <1>h, <1>3 DEF HistoryTypes
  <1> QED
    BY <1>1, <1>2, <1>h, <1>12, <1>13, <1>14, StillInv

\* A request that accesses its session makes sure that it has an entry.
LEMMA AccessSessionInv ==
    ASSUME GroupInv, NEW s \in Session, AccessSession(s)
    PROVE  GroupInv'
  <1>1. /\ list' = list \cup {s}
        /\ UNCHANGED <<stored, content, late, unseen, dropped>>
        /\ UNCHANGED <<signedOut, accepted, shared, failures, pc, locals>>
    BY DEF AccessSession, history
  <1>2. Still
    <2>1. {s} \in SUBSET Listable
      BY DEF Listable
    <2> QED
      BY <1>1, <2>1, EntryStill DEF GroupInv, StoreInv
  <1> QED
    BY <1>1, <1>2, StillAll

\* A List of its own changes nothing but entries.
LEMMA ListInv ==
    ASSUME GroupInv, NEW S \in {Session, Grant}, List(S)
    PROVE  GroupInv'
  <1>1. /\ Cleans(S) /\ UNCHANGED <<stored, content, late, unseen>>
        /\ UNCHANGED <<signedOut, accepted, shared, failures, pc, locals>>
    BY DEF List
  <1>2. Still
    BY <1>1, CleansStill DEF GroupInv, StoreInv
  <1> QED
    BY <1>1, <1>2, StillAll

\* A login adds an IdP session and, if there was one before, begins to revoke that.
LEMMA CreateSessionInv ==
    ASSUME GroupInv, NEW r \in Request, Step(r), NEW previous \in Session \cup {None},
           CreateSession(r, previous)
    PROVE  GroupInv'
  <1>0. LocalTypes /\ StoreTypes /\ Lineage /\ RequestInv(r) /\ StoreInv
    BY DEF GroupInv, StoreInv
  <1>1. LocalTypes' /\ \A q \in Request \ {r} : Same(q)
    BY <1>0, StepLocals
  <1>w. PICK s : s = who[r]
    OBVIOUS
  <1>2. /\ pc[r] = "createIdP" /\ s \notin born
        /\ stored' = stored \cup {s} /\ born' = born \cup {s}
        /\ UNCHANGED <<list, data, origin, joined, signedOut, accepted, late, unseen, dropped,
                       shared, failures>>
    BY <1>w DEF CreateSession, history
  <1>3. s \in Session /\ s \in list \cup dropped /\ held[r] = None
    BY <1>0, <1>2, <1>w DEF RequestInv, ControlOf, BornOf, CreatePc
  <1>g. \A g : OfClient(g)' <=> OfClient(g)
    BY <1>2, SameGroups DEF OfClient
  <1>4. Aged /\ \A q \in Request : NewKeys(q)
    <2>1. Aged
      BY <1>0, <1>2 DEF Aged, StoreTypes
    <2>2. stored' \cap Grant = stored \cap Grant /\ stored \subseteq born
      BY <1>0, <1>2, <1>3, Kinds DEF StoreTypes
    <2>3. \A q \in Request : NewKeys(q)
      BY <1>2, <1>g, <2>2 DEF NewKeys
    <2> QED
      BY <2>1, <2>3
  <1>5. \A q \in Request \ {r} : RequestInv(q)'
    BY <1>0, <1>1, <1>4, SameInv DEF GroupInv
  <1>6. StoreInv'
    <2>1. StoreTypes' /\ HistoryTypes'
      BY <1>0, <1>2, <1>3 DEF StoreInv, StoreTypes, HistoryTypes, Key, Listable
    <2>2. Lineage'
      BY <1>0, <1>2 DEF Lineage
    <2>3. SignOutIsComplete' /\ SignedOutGroupIsDead'
      BY <1>0, <1>2 DEF StoreInv, Lineage, SignOutIsComplete, SignedOutGroupIsDead
    <2>4. \A g \in Grant : SSOGroupIDPSessionID(g)' = SSOGroupIDPSessionID(g)
      BY <1>2, SameGroups
    <2>5. OrphanOnlyByRace'
      BY <1>0, <1>2, <1>3, <2>4, Kinds DEF StoreInv, OrphanOnlyByRace
    <2>6. CodeUsedTwiceOnlyByOverlap'
      BY <1>0, <1>2 DEF StoreInv, CodeUsedTwiceOnlyByOverlap
    <2>7. Entries'
      BY <1>0, <1>2, <1>3 DEF StoreInv, Entries
    <2> QED
      BY <2>1, <2>2, <2>3, <2>5, <2>6, <2>7 DEF StoreInv
  <1>7. CASE previous = None
    <2>1. RequestInv(r)' /\ held'[r] = None
      BY <1>0, <1>7, ReturnInv DEF CreateSession
    <2>2. /\ \A q \in Request : held'[q] = held[q]
          /\ \A q \in Request : held[q] # None /\ pc[q] = "issued" => pc'[q] = "issued"
      BY <1>1, <1>2, <1>3, <2>1 DEF Same
    <2>3. CodeIsUsedOnce'
      BY <1>0, <1>2, <1>3, <2>2, SameHolders, Kinds DEF GroupInv
    <2> QED
      BY <1>1, <1>5, <1>6, <2>1, <2>3 DEF GroupInv
  <1>8. CASE previous # None
    <2>0. previous \in Listable /\ previous \in born
      BY <1>8 DEF CreateSession, Listable
    <2>1. /\ pc'[r] = "listIdP" /\ who'[r] = previous /\ goal'[r] = Affected(previous)
          /\ held'[r] = held[r] /\ idps'[r] = idps[r] /\ todo'[r] = todo[r]
          /\ queue'[r] = queue[r]
      BY <1>0, <1>8 DEF CreateSession, InvalidateBegins, LocalTypes, exchange
    <2>2. ControlOf(r)'
      BY <1>3, <2>0, <2>1 DEF ControlOf, SignOutPc, TerminatePc, UsePc
    <2>3. /\ Affected(previous) \subseteq Listable \cap born
          /\ Affected(previous) \cap dropped' = {}
          /\ \A t \in Affected(previous) : IsSameSSOGroup(t, previous)
      BY <1>0, <1>2, <2>0, AffectedFacts DEF StoreTypes
    <2>4. BornOf(r)'
      BY <1>0, <1>2, <2>0, <2>1, <2>3 DEF BornOf, RequestInv, CreatePc
    <2>5. \A t \in Affected(previous) : IsSameSSOGroup(t, previous)'
      BY <1>2, <2>3, SameGroups
    <2>6. SignOutOf(r)'
      BY <2>1, <2>3, <2>5 DEF SignOutOf
    <2>7. FoundOf(r)' /\ DeadOf(r)' /\ GroupOf(r)' /\ SingleOf(r)'
      BY <1>3, <2>1 DEF FoundOf, DeadOf, GroupOf, SingleOf, Listed, UsePc
    <2>8. RequestInv(r)'
      BY <2>2, <2>4, <2>6, <2>7 DEF RequestInv
    <2>9. /\ \A q \in Request : held'[q] = held[q]
          /\ \A q \in Request : held[q] # None /\ pc[q] = "issued" => pc'[q] = "issued"
      BY <1>1, <1>2, <2>1 DEF Same
    <2>10. CodeIsUsedOnce'
      BY <1>0, <1>2, <1>3, <2>9, SameHolders, Kinds DEF GroupInv
    <2> QED
      BY <1>1, <1>5, <1>6, <2>8, <2>10 DEF GroupInv
  <1> QED
    BY <1>7, <1>8

\* A new code has no grants.
LEMMA CreateCodeGrantInv ==
    ASSUME GroupInv, NEW c \in Code, NEW d \in CodeData, CreateCodeGrant(c, d)
    PROVE  GroupInv'
  <1>0. LocalTypes /\ StoreTypes /\ Lineage /\ StoreInv /\ CodeIsUsedOnce
    BY DEF GroupInv, StoreInv
  <1>1. /\ c \notin born /\ d.by \in born \cup {None} /\ d \in Data
        /\ (d.by \in Session => ~d.single)
    BY DEF CreateCodeGrant, CodeData
  <1>2. /\ stored' = stored \cup {c} /\ born' = born \cup {c} /\ data' = [data EXCEPT ![c] = d]
        /\ UNCHANGED <<list, origin, joined, signedOut, accepted, late, unseen, dropped, shared,
                       failures>>
    BY DEF CreateCodeGrant, history
  <1>3. LocalTypes' /\ \A q \in Request : Same(q)
    BY <1>0 DEF CreateCodeGrant, locals, exchange, LocalTypes, Same
  <1>4. \A x \in Code : x # c => data'[x] = data[x]
    BY <1>0, <1>2 DEF StoreTypes
  <1>5. \A g \in Grant : origin[g] # c
    BY <1>0, <1>1, Kinds DEF Lineage
  <1>6. \A g \in Grant : DataOf(g)' = DataOf(g)
    <2> SUFFICES ASSUME NEW g \in Grant PROVE DataOf(g)' = DataOf(g)
      OBVIOUS
    <2>1. origin[g] # c /\ origin[g] \in Code \cup {None}
      BY <1>0, <1>5 DEF StoreTypes
    <2> QED
      BY <1>2, <1>4, <2>1 DEF DataOf
  <1>7. Aged
    BY <1>0, <1>1, <1>2, <1>4 DEF Aged, StoreTypes
  <1>8. \A q \in Request : NewKeys(q)
    <2>1. stored' \cap Grant = stored \cap Grant /\ stored \subseteq born
      BY <1>0, <1>2, Kinds DEF StoreTypes
    <2>2. \A g \in Grant : OfClient(g)' <=> OfClient(g)
      BY <1>2, <1>6 DEF OfClient
    <2> QED
      BY <1>2, <2>1, <2>2 DEF NewKeys
  <1>9. \A q \in Request : RequestInv(q)'
    BY <1>0, <1>3, <1>7, <1>8, SameInv DEF GroupInv
  <1>10. CodeIsUsedOnce'
    <2> SUFFICES ASSUME NEW x \in Code, x \notin shared
                 PROVE  /\ \A p, q \in Request : held'[p] = x /\ held'[q] = x => p = q
                        /\ \A g \in Grant : origin[g] = x =>
                               /\ \A q \in Request : held'[q] = x => pc'[q] = "issued"
                               /\ x \in stored' => \E q \in Request : held'[q] = x
      BY <1>2 DEF CodeIsUsedOnce
    <2>1. \A q \in Request : held'[q] = held[q] /\ pc'[q] = pc[q]
      BY <1>3 DEF Same
    <2>2. x \in stored' => x \in stored \/ x = c
      BY <1>2
    <2> QED
      BY <1>0, <1>5, <2>1, <2>2 DEF CodeIsUsedOnce
  <1>11. StoreInv'
    <2>1. StoreTypes'
      BY <1>0, <1>1, <1>2, <1>4 DEF StoreTypes, Key
    <2>2. HistoryTypes'
      BY <1>0, <1>2 DEF StoreInv, HistoryTypes
    <2>3. Lineage'
      <3>1. data'[c] = d
        BY <1>0, <1>2 DEF StoreTypes
      <3>2. signedOut' \subseteq born'
        BY <1>0, <1>2 DEF Lineage
      <3>3. \A g \in Grant : origin'[g] # None => g \in born' /\ origin'[g] \in born'
        BY <1>0, <1>2 DEF Lineage
      <3>4. \A x \in Code : data'[x] = NoData \/ (x \in born' /\ data'[x].by \in born' \cup {None})
        BY <1>0, <1>1, <1>2, <1>4, <3>1 DEF Lineage
      <3> QED
        BY <3>2, <3>3, <3>4 DEF Lineage
    <2>4. SignOutIsComplete' /\ SignedOutGroupIsDead'
      BY <1>0, <1>1, <1>2 DEF StoreInv, Lineage, SignOutIsComplete, SignedOutGroupIsDead
    <2>5. \A g \in Grant : SSOGroupIDPSessionID(g)' = SSOGroupIDPSessionID(g)
      BY <1>6 DEF SSOGroupIDPSessionID
    <2>6. OrphanOnlyByRace'
      BY <1>0, <1>2, <2>5, Kinds DEF StoreInv, OrphanOnlyByRace
    <2>7. CodeUsedTwiceOnlyByOverlap'
      BY <1>0, <1>2 DEF StoreInv, CodeUsedTwiceOnlyByOverlap
    <2>8. Entries'
      BY <1>0, <1>2, Kinds DEF StoreInv, Entries, Listable
    <2> QED
      BY <2>1, <2>2, <2>3, <2>4, <2>6, <2>7, <2>8 DEF StoreInv
  <1> QED
    BY <1>3, <1>9, <1>10, <1>11 DEF GroupInv

----------------------------------------------------------------------------
(* The steps of a sign-out *)

\* An exchange that has listed the grants of its client goes on to know of every one.
LEMMA StillSingle ==
    ASSUME Still, NEW r \in Request, SingleOf(r), Listed(r)' => Listed(r),
           queue'[r] = queue[r], pc'[r] # "createGrant"
    PROVE  SingleOf(r)'
  <1>1. \A g : OfClient(g)' <=> OfClient(g)
    BY StillGroups
  <1> QED
    BY <1>1 DEF SingleOf, Still

\* The IdP sessions of the goal that are left are among the ones listed.
LEMMA ListIdPInv ==
    ASSUME GroupInv, NEW r \in Request, Step(r), ListIdP(r)
    PROVE  GroupInv'
  <1>0. LocalTypes /\ StoreTypes /\ HistoryTypes /\ Lineage /\ Entries /\ RequestInv(r)
    BY DEF GroupInv, StoreInv
  <1>1. LocalTypes' /\ \A q \in Request \ {r} : Same(q)
    BY <1>0, StepLocals
  <1>2. /\ Cleans(Session)
        /\ UNCHANGED <<stored, content, late, unseen, signedOut, accepted, shared, failures>>
    BY DEF ListIdP
  <1>3. Still
    BY <1>0, <1>2, CleansStill
  <1>w. PICK w : w = who[r]
    OBVIOUS
  <1>4. /\ pc[r] = "listIdP" /\ pc'[r] = "listGrants" /\ who'[r] = w
        /\ goal'[r] = goal[r] /\ held'[r] = held[r] /\ idps'[r] = Shown(Session)
        /\ todo'[r] = todo[r] /\ queue'[r] = queue[r]
    BY <1>0, <1>w DEF ListIdP, Goto, LocalTypes, exchange
  <1>5. ControlOf(r)'
    BY <1>0, <1>4, <1>w DEF RequestInv, ControlOf, SignOutPc, TerminatePc, UsePc
  <1>6. BornOf(r)'
    <2>1. Shown(Session) \subseteq born /\ born' = born
      BY <1>0, <1>2 DEF Shown, StoreTypes, content
    <2> QED
      BY <1>0, <1>4, <1>w, <2>1 DEF BornOf, RequestInv, CreatePc
  <1>7. \A t \in Session : t \in stored \ dropped => t \in Shown(Session)
    BY <1>0 DEF Entries, Shown, Listable
  <1>8. SignOutOf(r)'
    <2>1. /\ goal[r] \cap dropped = {}
          /\ \A t \in goal[r] : IsSameSSOGroup(t, w)
      BY <1>0, <1>4, <1>w DEF RequestInv, SignOutOf, SignOutPc
    <2>2. \A t \in goal[r] : IsSameSSOGroup(t, w)'
      BY <1>3, <2>1, StillGroups
    <2>3. goal[r] \cap dropped' = {}
      BY <1>0, <1>3, <2>1 DEF Still, RequestInv, BornOf
    <2>4. goal'[r] \cap stored' \cap Session \subseteq idps'[r]
      BY <1>2, <1>4, <1>7, <2>1
    <2> QED
      BY <1>4, <2>2, <2>3, <2>4 DEF SignOutOf
  <1>9. FoundOf(r)'
    BY <1>2, <1>3, <1>4, <1>7 DEF FoundOf, Still
  <1>10. DeadOf(r)' /\ GroupOf(r)'
    BY <1>4 DEF DeadOf, GroupOf, UsePc
  <1>11. SingleOf(r)'
    <2>1. SingleOf(r) /\ (Listed(r)' => Listed(r))
      BY <1>0, <1>4 DEF RequestInv, Listed
    <2> QED
      BY <1>3, <1>4, <2>1, StillSingle
  <1>12. RequestInv(r)'
    BY <1>5, <1>6, <1>8, <1>9, <1>10, <1>11 DEF RequestInv
  <1> QED
    BY <1>1, <1>2, <1>3, <1>4, <1>12, StillInvUnshared

\* What is left of the goal is among what is to be deleted.
LEMMA ListGrantsInv ==
    ASSUME GroupInv, NEW r \in Request, Step(r), ListGrants(r)
    PROVE  GroupInv'
  <1>0. LocalTypes /\ StoreTypes /\ HistoryTypes /\ Lineage /\ Entries /\ RequestInv(r)
    BY DEF GroupInv, StoreInv
  <1>1. LocalTypes' /\ \A q \in Request \ {r} : Same(q)
    BY <1>0, StepLocals
  <1>2. /\ Cleans(Grant)
        /\ UNCHANGED <<stored, content, late, unseen, signedOut, accepted, shared, failures>>
    BY DEF ListGrants
  <1>3. Still
    BY <1>0, <1>2, CleansStill
  <1>w. PICK w : w = who[r]
    OBVIOUS
  <1> DEFINE listed == idps[r] \cup Shown(Grant)
             same == {t \in listed : IsSameSSOGroup(t, w)}
  <1>4. /\ pc[r] = "listGrants" /\ pc'[r] = "delete" /\ who'[r] = w
        /\ goal'[r] = goal[r] /\ held'[r] = held[r] /\ idps'[r] = {}
        /\ queue'[r] = queue[r]
    BY <1>0, <1>w DEF ListGrants, Goto, LocalTypes, exchange
  <1>5. todo'[r] = same
    BY <1>0, <1>w DEF ListGrants, LocalTypes
  <1>6. found'[r] = (w \in listed)
    BY <1>0, <1>w DEF ListGrants, LocalTypes
  <1>7. w \in Listable /\ w \in born
    BY <1>0, <1>4, <1>w, Kinds DEF RequestInv, ControlOf, BornOf, SignOutPc, CreatePc, Listable
  <1>8. /\ listed \subseteq born
        /\ \A g \in stored \cap Grant : g \in listed \cup dropped
    BY <1>0 DEF RequestInv, BornOf, StoreTypes, Entries, Shown, Listable
  <1>9. /\ goal[r] \cap dropped = {} /\ goal[r] \subseteq born
        /\ \A t \in goal[r] : IsSameSSOGroup(t, w)
    BY <1>0, <1>4, <1>w DEF RequestInv, SignOutOf, BornOf, SignOutPc
  <1>10. goal[r] \cap stored \subseteq listed
    <2>1. goal[r] \cap stored \cap Session \subseteq idps[r] /\ goal[r] \subseteq Listable
      BY <1>0, <1>4 DEF RequestInv, SignOutOf, LocalTypes
    <2> QED
      BY <1>8, <1>9, <2>1 DEF Listable
  <1>11. w \in stored \ dropped => w \in listed
    <2>1. w \in (stored \ dropped) \cap Session => w \in idps[r]
      BY <1>0, <1>4, <1>w DEF RequestInv, FoundOf
    <2> QED
      BY <1>7, <1>8, <2>1 DEF Listable
  <1> HIDE DEF listed
  <1>12. ControlOf(r)'
    BY <1>0, <1>4, <1>w DEF RequestInv, ControlOf, SignOutPc, TerminatePc, UsePc
  <1>13. BornOf(r)'
    BY <1>0, <1>2, <1>4, <1>5, <1>7, <1>8 DEF BornOf, content, RequestInv, CreatePc
  <1>14. /\ \A t : IsSameSSOGroup(t, w)' <=> IsSameSSOGroup(t, w)
         /\ \A t : InGroupOf(t, w)' <=> InGroupOf(t, w)
    BY <1>3, StillGroups
  <1>d. dropped \subseteq dropped' /\ dropped' \cap born \subseteq dropped
    BY <1>3 DEF Still
  <1>15. SignOutOf(r)'
    <2>1. goal'[r] \cap stored' \subseteq todo'[r]
      BY <1>2, <1>4, <1>5, <1>9, <1>10
    <2>2. \A t \in goal[r] : IsSameSSOGroup(t, w)'
      BY <1>9, <1>14
    <2>3. goal[r] \cap dropped' = {}
      BY <1>9, <1>d
    <2> HIDE DEF same
    <2> QED
      BY <1>4, <2>1, <2>2, <2>3 DEF SignOutOf
  <1>16. FoundOf(r)'
    <2>1. w \in listed => w \in same
      BY DEF IsSameSSOGroup
    <2> HIDE DEF same
    <2> QED
      BY <1>2, <1>4, <1>5, <1>6, <1>11, <1>d, <2>1 DEF FoundOf
  <1>17. DeadOf(r)'
    BY <1>4 DEF DeadOf, UsePc
  <1>18. GroupOf(r)'
    <2>1. \A t \in same : IsSameSSOGroup(t, w)'
      BY <1>14
    <2>2. \A g : InGroupOf(g, w) => IsSameSSOGroup(g, w)
      BY DEF InGroupOf, IsSameSSOGroup
    <2>3. \A g \in stored' \cap Grant : InGroupOf(g, w)' => g \in same \cup dropped'
      BY <1>2, <1>8, <1>14, <1>d, <2>2
    <2> HIDE DEF same
    <2> QED
      BY <1>4, <1>5, <2>1, <2>3 DEF GroupOf
  <1>19. SingleOf(r)'
    <2>1. SingleOf(r) /\ (Listed(r)' => Listed(r))
      BY <1>0, <1>4 DEF RequestInv, Listed
    <2> QED
      BY <1>3, <1>4, <2>1, StillSingle
  <1>20. RequestInv(r)'
    BY <1>12, <1>13, <1>15, <1>16, <1>17, <1>18, <1>19 DEF RequestInv
  <1> QED
    BY <1>1, <1>2, <1>3, <1>4, <1>20, StillInvUnshared

\* A sign-out that returns has nothing left to delete: its goal is gone.
LEMMA SignOutReturnsInv ==
    ASSUME GroupInv, NEW r \in Request, SignOutReturns(r)
    PROVE  GroupInv'
  <1>0. LocalTypes /\ StoreTypes /\ HistoryTypes /\ RequestInv(r)
    BY DEF GroupInv, StoreInv
  <1>1. /\ pc[r] = "delete" /\ todo[r] = {} /\ Return(r) /\ signedOut' = signedOut \cup goal[r]
        /\ UNCHANGED <<store, late, unseen, dropped, accepted, shared, failures>>
    BY DEF SignOutReturns
  <1>2. Still
    BY <1>0, <1>1, StoreStill
  <1>3. goal[r] \subseteq Listable \cap born /\ goal[r] \cap stored = {}
    BY <1>0, <1>1 DEF LocalTypes, RequestInv, BornOf, SignOutOf
  <1>4. signedOut' \subseteq Listable \cap born /\ signedOut' \cap stored = {}
    BY <1>1, <1>3, HistoryKept
  <1> QED
    BY <1>1, <1>2, <1>4, HistoryKept, ReturnsInv

\* A logout that has not found its session panics: that is gone, or was dropped.
LEMMA LogoutPanicsInv ==
    ASSUME GroupInv, NEW r \in Request, Step(r), LogoutPanics(r)
    PROVE  GroupInv'
  <1>0. LocalTypes /\ StoreTypes /\ HistoryTypes /\ Lineage /\ RequestInv(r)
    BY DEF GroupInv, StoreInv
  <1>1. LocalTypes' /\ \A q \in Request \ {r} : Same(q)
    BY <1>0, StepLocals
  <1>2. UNCHANGED <<store, late, unseen, dropped, signedOut, accepted, shared, failures>>
    BY DEF LogoutPanics, history
  <1>3. Still
    BY <1>0, <1>2, StoreStill
  <1>w. PICK w : w = who[r]
    OBVIOUS
  <1>4. /\ pc[r] = "delete" /\ held[r] = None /\ ~found[r]
        /\ pc'[r] = "panic" /\ who'[r] = w /\ held'[r] = held[r] /\ goal'[r] = {}
        /\ idps'[r] = idps[r] /\ todo'[r] = todo[r] /\ queue'[r] = queue[r]
    BY <1>0, <1>w DEF LogoutPanics, Goto, LocalTypes, exchange
  <1>5. ControlOf(r)'
    BY <1>0, <1>4, <1>w DEF RequestInv, ControlOf, SignOutPc, TerminatePc, UsePc
  <1>6. BornOf(r)'
    BY <1>0, <1>2, <1>4, <1>w DEF BornOf, store, content, RequestInv, CreatePc
  <1>7. FoundOf(r)'
    <2>1. w \notin stored' \ dropped'
      BY <1>0, <1>2, <1>4, <1>w DEF RequestInv, FoundOf, store
    <2> QED
      BY <1>4, <2>1 DEF FoundOf
  <1>8. SignOutOf(r)' /\ DeadOf(r)' /\ GroupOf(r)' /\ SingleOf(r)'
    BY <1>4 DEF SignOutOf, DeadOf, GroupOf, SingleOf, Listed, SignOutPc, UsePc
  <1>9. RequestInv(r)'
    BY <1>5, <1>6, <1>7, <1>8 DEF RequestInv
  <1> QED
    BY <1>1, <1>2, <1>3, <1>4, <1>9, StillInvUnshared

\* The recovery from a panic only forgets.
LEMMA RecoverInv ==
    ASSUME GroupInv, NEW r \in Request, Recover(r)
    PROVE  GroupInv'
  <1>1. /\ Return(r) /\ pc[r] # "issued"
        /\ UNCHANGED <<store, late, unseen, dropped, signedOut, accepted, shared, failures>>
    BY DEF Recover, history
  <1>2. Still
    BY <1>1, StoreStill DEF GroupInv, StoreInv
  <1> QED
    BY <1>1, <1>2, ReturnsQuietly

----------------------------------------------------------------------------
(* The steps of a termination *)

\* The IdP sessions of the goal are gone; the grants that are left are to be deleted.
LEMMA TerminateListGrantsInv ==
    ASSUME GroupInv, NEW r \in Request, Step(r), TerminateListGrants(r)
    PROVE  GroupInv'
  <1>0. LocalTypes /\ StoreTypes /\ HistoryTypes /\ Lineage /\ Entries /\ RequestInv(r)
    BY DEF GroupInv, StoreInv
  <1>1. LocalTypes' /\ \A q \in Request \ {r} : Same(q)
    BY <1>0, StepLocals
  <1>2. /\ Cleans(Grant)
        /\ UNCHANGED <<stored, content, late, unseen, signedOut, accepted, shared, failures>>
    BY DEF TerminateListGrants
  <1>3. Still
    BY <1>0, <1>2, CleansStill
  <1>w. PICK w : w = who[r]
    OBVIOUS
  <1> DEFINE new == Others(Shown(Grant), w)
  <1>4. /\ pc[r] = "terminateIdP" /\ pc'[r] = "terminateGrants" /\ todo[r] = {}
        /\ who'[r] = None /\ goal'[r] = goal[r] /\ held'[r] = held[r] /\ idps'[r] = idps[r]
        /\ queue'[r] = queue[r] /\ todo'[r] = new
    BY <1>0, <1>w DEF TerminateListGrants, Goto, LocalTypes, exchange
  <1>5. held[r] = None
    BY <1>0, <1>4 DEF RequestInv, ControlOf, TerminatePc
  <1>6. ControlOf(r)'
    BY <1>0, <1>4, <1>5 DEF RequestInv, ControlOf, SignOutPc, TerminatePc, UsePc
  <1>7. BornOf(r)'
    <2>1. new \subseteq born /\ born' = born
      BY <1>0, <1>2 DEF Others, Shown, StoreTypes, content
    <2> HIDE DEF new
    <2> QED
      BY <1>0, <1>4, <2>1 DEF BornOf, RequestInv, CreatePc
  <1>8. SignOutOf(r)'
    <2>1. /\ goal[r] \cap dropped = {} /\ goal[r] \subseteq born /\ goal[r] \subseteq Listable
          /\ w = None \/ \A t \in goal[r] : ~IsSameSSOGroup(t, w)
          /\ goal[r] \cap stored \cap Session = {}
      BY <1>0, <1>4, <1>w DEF RequestInv, SignOutOf, BornOf, LocalTypes
    <2>2. goal[r] \cap stored \subseteq new
      BY <1>0, <2>1 DEF Others, Shown, Entries, Listable
    <2> HIDE DEF new
    <2>3. goal[r] \cap dropped' = {}
      BY <1>3, <2>1 DEF Still
    <2> QED
      BY <1>2, <1>4, <2>2, <2>3 DEF SignOutOf, SignOutPc
  <1>9. FoundOf(r)' /\ DeadOf(r)' /\ GroupOf(r)' /\ SingleOf(r)'
    BY <1>4, <1>5 DEF FoundOf, DeadOf, GroupOf, SingleOf, Listed, UsePc
  <1>10. RequestInv(r)'
    BY <1>6, <1>7, <1>8, <1>9 DEF RequestInv
  <1> QED
    BY <1>1, <1>2, <1>3, <1>4, <1>10, StillInvUnshared

\* A termination has nothing left to delete: its goal is gone.
LEMMA TerminateReturnsInv ==
    ASSUME GroupInv, NEW r \in Request, TerminateReturns(r)
    PROVE  GroupInv'
  <1>0. LocalTypes /\ StoreTypes /\ HistoryTypes /\ RequestInv(r)
    BY DEF GroupInv, StoreInv
  <1>1. /\ pc[r] = "terminateGrants" /\ todo[r] = {} /\ Return(r)
        /\ signedOut' = signedOut \cup goal[r]
        /\ UNCHANGED <<store, late, unseen, dropped, accepted, shared, failures>>
    BY DEF TerminateReturns
  <1>2. Still
    BY <1>0, <1>1, StoreStill
  <1>3. goal[r] \subseteq Listable \cap born /\ goal[r] \cap stored = {}
    BY <1>0, <1>1 DEF LocalTypes, RequestInv, BornOf, SignOutOf
  <1>4. signedOut' \subseteq Listable \cap born /\ signedOut' \cap stored = {}
    BY <1>1, <1>3, HistoryKept
  <1> QED
    BY <1>1, <1>2, <1>4, HistoryKept, ReturnsInv

----------------------------------------------------------------------------
(* The steps of an exchange *)

\* Every grant of the client is in the queue, but for those dropped from the list.
LEMMA ListClientOfflineGrantsInv ==
    ASSUME GroupInv, NEW r \in Request, Step(r), ListClientOfflineGrants(r)
    PROVE  GroupInv'
  <1>0. LocalTypes /\ StoreTypes /\ HistoryTypes /\ Lineage /\ Entries /\ RequestInv(r)
    BY DEF GroupInv, StoreInv
  <1>1. LocalTypes' /\ \A q \in Request \ {r} : Same(q)
    BY <1>0, StepLocals
  <1>2. /\ Cleans(Grant)
        /\ UNCHANGED <<stored, content, late, unseen, signedOut, accepted, shared, failures>>
    BY DEF ListClientOfflineGrants
  <1>3. Still
    BY <1>0, <1>2, CleansStill
  <1> DEFINE new == {g \in Shown(Grant) : OfClient(g)}
  <1>4. /\ pc[r] = "listClient" /\ pc'[r] = "revokeClient" /\ who'[r] = who[r]
        /\ goal'[r] = goal[r] /\ held'[r] = held[r] /\ idps'[r] = idps[r]
        /\ todo'[r] = todo[r] /\ queue'[r] = new
    BY <1>0 DEF ListClientOfflineGrants, Goto, LocalTypes, exchange
  <1>5. ControlOf(r)'
    BY <1>0, <1>4 DEF RequestInv, ControlOf, SignOutPc, TerminatePc, UsePc
  <1>6. BornOf(r)'
    <2>1. new \subseteq born /\ born' = born
      BY <1>0, <1>2 DEF Shown, StoreTypes, content
    <2> HIDE DEF new
    <2> QED
      BY <1>0, <1>4, <2>1 DEF BornOf, RequestInv, CreatePc
  <1>7. SingleOf(r)'
    <2>1. \A g \in stored \cap Grant : OfClient(g) => g \in new \cup dropped
      BY <1>0 DEF Entries, Shown, Listable
    <2> HIDE DEF new
    <2>2. \A g : OfClient(g)' <=> OfClient(g)
      BY <1>3, StillGroups
    <2>3. stored' = stored /\ dropped \subseteq dropped'
      BY <1>3 DEF Still
    <2> QED
      BY <1>4, <2>1, <2>2, <2>3 DEF SingleOf
  <1>8. SignOutOf(r)'
    <2>1. goal[r] = {}
      BY <1>0, <1>4 DEF RequestInv, ControlOf
    <2> QED
      BY <1>4, <2>1 DEF SignOutOf, SignOutPc
  <1>9. FoundOf(r)' /\ DeadOf(r)' /\ GroupOf(r)'
    BY <1>4 DEF FoundOf, DeadOf, GroupOf, UsePc
  <1>10. RequestInv(r)'
    BY <1>5, <1>6, <1>7, <1>8, <1>9 DEF RequestInv
  <1> QED
    BY <1>1, <1>2, <1>3, <1>4, <1>10, StillInvUnshared

\* The sign-out that an exchange begins owes nothing: goal is empty.
LEMMA RevokeClientGrantInv ==
    ASSUME GroupInv, NEW r \in Request, Step(r), NEW g \in Grant, RevokeClientGrant(r, g)
    PROVE  GroupInv'
  <1>0. LocalTypes /\ StoreTypes /\ HistoryTypes /\ Lineage /\ RequestInv(r)
    BY DEF GroupInv, StoreInv
  <1>1. LocalTypes' /\ \A q \in Request \ {r} : Same(q)
    BY <1>0, StepLocals
  <1>2. UNCHANGED <<store, late, unseen, dropped, signedOut, accepted, shared, failures>>
    BY DEF RevokeClientGrant, history
  <1>3. Still
    BY <1>0, <1>2, StoreStill
  <1>4. /\ pc[r] = "revokeClient" /\ pc'[r] = "listIdP" /\ g \in queue[r]
        /\ who'[r] = g /\ goal'[r] = goal[r] /\ held'[r] = held[r] /\ idps'[r] = idps[r]
        /\ todo'[r] = todo[r] /\ queue'[r] = queue[r]
    BY <1>0 DEF RevokeClientGrant, InvalidateBegins, LocalTypes, exchange
  <1>5. held[r] # None /\ goal[r] = {} /\ g \in Listable /\ g \in born
    BY <1>0, <1>4 DEF RequestInv, ControlOf, BornOf, Listable
  <1>6. ControlOf(r)'
    BY <1>0, <1>4, <1>5 DEF RequestInv, ControlOf, SignOutPc, TerminatePc, UsePc
  <1>7. BornOf(r)'
    BY <1>0, <1>2, <1>4, <1>5 DEF BornOf, store, content, RequestInv, CreatePc
  <1>8. SingleOf(r)'
    <2>1. SingleOf(r) /\ Listed(r)
      BY <1>0, <1>4, <1>5 DEF RequestInv, Listed
    <2> QED
      BY <1>3, <1>4, <2>1, StillSingle
  <1>9. SignOutOf(r)' /\ FoundOf(r)' /\ DeadOf(r)' /\ GroupOf(r)'
    BY <1>4, <1>5 DEF SignOutOf, FoundOf, DeadOf, GroupOf, UsePc
  <1>10. RequestInv(r)'
    BY <1>6, <1>7, <1>8, <1>9 DEF RequestInv
  <1> QED
    BY <1>1, <1>2, <1>3, <1>4, <1>10, StillInvUnshared

\* A grant leaves the queue when it is gone, or when it was dropped from the list.
LEMMA ClientGrantRevokedInv ==
    ASSUME GroupInv, NEW r \in Request, Step(r), ClientGrantRevoked(r)
    PROVE  GroupInv'
  <1>0. LocalTypes /\ StoreTypes /\ HistoryTypes /\ Lineage /\ RequestInv(r)
    BY DEF GroupInv, StoreInv
  <1>1. LocalTypes' /\ \A q \in Request \ {r} : Same(q)
    BY <1>0, StepLocals
  <1>2. UNCHANGED <<store, late, unseen, dropped, signedOut, accepted, shared, failures>>
    BY DEF ClientGrantRevoked, history
  <1>3. Still
    BY <1>0, <1>2, StoreStill
  <1>4. /\ pc[r] = "delete" /\ todo[r] = {} /\ held[r] # None /\ pc'[r] = "revokeClient"
        /\ who'[r] = None /\ goal'[r] = goal[r] /\ held'[r] = held[r] /\ idps'[r] = idps[r]
        /\ todo'[r] = todo[r] /\ queue'[r] = queue[r] \ {who[r]}
    BY <1>0 DEF ClientGrantRevoked, Goto, LocalTypes, exchange
  <1>5. goal[r] = {}
    BY <1>0, <1>4 DEF RequestInv, ControlOf
  <1>6. ControlOf(r)'
    BY <1>0, <1>4, <1>5 DEF RequestInv, ControlOf, SignOutPc, TerminatePc, UsePc
  <1>7. BornOf(r)'
    BY <1>0, <1>2, <1>4 DEF BornOf, store, content, RequestInv, CreatePc
  <1>8. SingleOf(r)'
    <2>1. \A g \in stored \cap Grant : OfClient(g) => g \in queue[r] \cup unseen \cup dropped
      BY <1>0, <1>4 DEF RequestInv, SingleOf, Listed
    <2>2. who[r] \notin stored \ dropped
      BY <1>0, <1>4 DEF RequestInv, FoundOf
    <2>3. \A g : OfClient(g)' <=> OfClient(g)
      BY <1>3, StillGroups
    <2>4. stored' = stored /\ unseen' = unseen /\ dropped' = dropped
      BY <1>2 DEF store
    <2> QED
      BY <1>4, <2>1, <2>2, <2>3, <2>4 DEF SingleOf
  <1>9. SignOutOf(r)' /\ FoundOf(r)' /\ DeadOf(r)' /\ GroupOf(r)'
    BY <1>4, <1>5 DEF SignOutOf, FoundOf, DeadOf, GroupOf, SignOutPc, UsePc
  <1>10. RequestInv(r)'
    BY <1>6, <1>7, <1>8, <1>9 DEF RequestInv
  <1> QED
    BY <1>1, <1>2, <1>3, <1>4, <1>10, StillInvUnshared

\* The entry of a new grant comes first.  When the grants of the client had to be revoked, its
\* exchange has nothing left in its queue.
LEMMA BeginIssueInv ==
    ASSUME GroupInv, NEW r \in Request, Step(r), NEW g \in Grant, BeginIssue(r, g)
    PROVE  GroupInv'
  <1>0. LocalTypes /\ StoreTypes /\ HistoryTypes /\ Lineage /\ RequestInv(r)
    BY DEF GroupInv, StoreInv
  <1>1. LocalTypes' /\ \A q \in Request \ {r} : Same(q)
    BY <1>0, StepLocals
  <1>2. /\ list' = list \cup {g}
        /\ UNCHANGED <<stored, content, late, unseen, dropped, signedOut, accepted, shared,
                       failures>>
    BY DEF BeginIssue, history
  <1>3. Still
    <2>1. {g} \in SUBSET Listable
      BY DEF Listable
    <2> QED
      BY <1>0, <1>2, <2>1, EntryStill
  <1>4. /\ pc[r] = "issue" \/ (pc[r] = "revokeClient" /\ queue[r] = {})
        /\ pc'[r] = "createGrant" /\ who'[r] = g /\ goal'[r] = goal[r]
        /\ held'[r] = held[r] /\ offline'[r] = offline[r] /\ idps'[r] = idps[r]
        /\ todo'[r] = todo[r] /\ queue'[r] = queue[r]
    BY <1>0 DEF BeginIssue, AllRevoked, LocalTypes, exchange
  <1>5. held[r] # None /\ goal[r] = {}
    BY <1>0, <1>4 DEF RequestInv, ControlOf
  <1>6. ControlOf(r)'
    BY <1>4, <1>5 DEF ControlOf, SignOutPc, TerminatePc, UsePc
  <1>7. BornOf(r)'
    BY <1>0, <1>2, <1>4 DEF BornOf, content, RequestInv, CreatePc
  <1>8. SingleOf(r)'
    <2>1. CASE pc[r] = "issue"
      <3>1. ~(data[held[r]].single /\ offline[r]) /\ data' = data
        BY <1>0, <1>2, <2>1 DEF RequestInv, ControlOf, content
      <3> QED
        BY <1>4, <3>1 DEF SingleOf, Listed
    <2>2. CASE pc[r] = "revokeClient" /\ queue[r] = {}
      <3>1. \A h \in stored \cap Grant : OfClient(h) => h \in unseen \cup dropped
        BY <1>0, <1>5, <2>2 DEF RequestInv, SingleOf, Listed
      <3>2. \A h : OfClient(h)' <=> OfClient(h)
        BY <1>3, StillGroups
      <3> QED
        BY <1>2, <1>4, <2>2, <3>1, <3>2 DEF SingleOf
    <2> QED
      BY <1>4, <2>1, <2>2
  <1>9. SignOutOf(r)' /\ FoundOf(r)' /\ DeadOf(r)' /\ GroupOf(r)'
    BY <1>4, <1>5 DEF SignOutOf, FoundOf, DeadOf, GroupOf, SignOutPc, UsePc
  <1>10. RequestInv(r)'
    BY <1>6, <1>7, <1>8, <1>9 DEF RequestInv
  <1> QED
    BY <1>1, <1>2, <1>3, <1>4, <1>10, StillInvUnshared

\* An exchange that issues no grant leaves everything as it is.
LEMMA IssueNothingInv ==
    ASSUME GroupInv, NEW r \in Request, Step(r), IssueNothing(r)
    PROVE  GroupInv'
  <1>0. LocalTypes /\ StoreTypes /\ HistoryTypes /\ Lineage /\ RequestInv(r)
    BY DEF GroupInv, StoreInv
  <1>1. LocalTypes' /\ \A q \in Request \ {r} : Same(q)
    BY <1>0, StepLocals
  <1>2. UNCHANGED <<store, late, unseen, dropped, signedOut, accepted, shared, failures>>
    BY DEF IssueNothing, history
  <1>3. Still
    BY <1>0, <1>2, StoreStill
  <1>4. CASE Return(r)
    BY <1>2, <1>3, <1>4, ReturnsQuietly DEF IssueNothing
  <1>5. CASE Goto(r, "issue", "issued") /\ UNCHANGED locals
    <2>1. /\ pc[r] = "issue" /\ pc'[r] = "issued" /\ who'[r] = who[r] /\ goal'[r] = goal[r]
          /\ held'[r] = held[r] /\ idps'[r] = idps[r] /\ todo'[r] = todo[r]
          /\ queue'[r] = queue[r]
      BY <1>0, <1>5 DEF Goto, LocalTypes, locals, exchange
    <2>2. goal[r] = {}
      BY <1>0, <2>1 DEF RequestInv, ControlOf
    <2>3. ControlOf(r)'
      BY <1>0, <2>1 DEF RequestInv, ControlOf, SignOutPc, TerminatePc, UsePc
    <2>4. BornOf(r)'
      BY <1>0, <1>2, <2>1 DEF BornOf, store, content, RequestInv, CreatePc
    <2>5. SignOutOf(r)' /\ FoundOf(r)' /\ DeadOf(r)' /\ GroupOf(r)' /\ SingleOf(r)'
      BY <2>1, <2>2
         DEF SignOutOf, FoundOf, DeadOf, GroupOf, SingleOf, Listed, SignOutPc, UsePc
    <2>6. RequestInv(r)'
      BY <2>3, <2>4, <2>5 DEF RequestInv
    <2> QED
      BY <1>1, <1>2, <1>3, <2>1, <2>6, StillInvUnshared
  <1> QED
    BY <1>4, <1>5 DEF IssueNothing

\* When a step of the exchange fails, its code is known as shared.
LEMMA ExchangeFailsInv ==
    ASSUME GroupInv, NEW r \in Request, ExchangeFails(r)
    PROVE  GroupInv'
  <1>0. LocalTypes /\ StoreTypes /\ HistoryTypes /\ RequestInv(r)
    BY DEF GroupInv, StoreInv
  <1>1. /\ Return(r) /\ UNCHANGED <<store, late, unseen, dropped, signedOut, accepted>>
        /\ shared' = shared \cup {held[r]} /\ failures' = failures + 1 /\ pc[r] = "issued"
    BY DEF ExchangeFails
  <1>2. Still
    BY <1>0, <1>1, StoreStill
  <1>3. held[r] \in Code
    BY <1>0, <1>1 DEF LocalTypes, RequestInv, ControlOf
  <1> QED
    BY <1>1, <1>2, <1>3, HistoryKept, ReturnsInv

\* A crash only forgets; the exchange of a code that has its grant is past crashing.
LEMMA CrashInv ==
    ASSUME GroupInv, NEW r \in Request, Crash(r)
    PROVE  GroupInv'
  <1>1. /\ Return(r)
        /\ UNCHANGED <<store, late, unseen, dropped, signedOut, accepted, shared>>
        /\ failures' = failures + 1 /\ pc[r] # "issued"
    BY DEF Crash, history
  <1>2. Still
    BY <1>1, StoreStill DEF GroupInv, StoreInv
  <1> QED
    BY <1>1, <1>2, HistoryKept, ReturnsInv

----------------------------------------------------------------------------
(* The steps of a use *)

\* A dead grant does not get past the check of its session.
LEMMA GetOfflineGrantInv ==
    ASSUME GroupInv, NEW r \in Request, Step(r), GetOfflineGrant(r)
    PROVE  GroupInv'
  <1>0. LocalTypes /\ StoreTypes /\ HistoryTypes /\ Lineage /\ RequestInv(r)
    BY DEF GroupInv, StoreInv
  <1>1. /\ pc[r] \in {"get", "getIdP"}
        /\ UNCHANGED <<store, late, unseen, dropped, signedOut, accepted, shared, failures>>
    BY DEF GetOfflineGrant, history
  <1>2. Still
    BY <1>0, <1>1, StoreStill
  <1>3. CASE Return(r)
    BY <1>1, <1>2, <1>3, ReturnsQuietly
  <1>4. CASE ~Return(r)
    <2>w. PICK w : w = who[r]
      OBVIOUS
    <2>1. LocalTypes' /\ \A q \in Request \ {r} : Same(q)
      BY <1>0, StepLocals
    <2>2. /\ UNCHANGED locals
          /\ (IF pc[r] = "get" THEN w ELSE SSOGroupIDPSessionID(w)) \in stored
      BY <1>4, <2>w DEF GetOfflineGrant
    <2>3. pc'[r] = IF pc[r] = "get" /\ SSOGroupIDPSessionID(w) # None
                   THEN "getIdP" ELSE "update"
      BY <1>0, <1>4, <2>w DEF GetOfflineGrant, LocalTypes
    <2>4. /\ who'[r] = w /\ held'[r] = held[r] /\ goal'[r] = goal[r]
          /\ idps'[r] = idps[r] /\ todo'[r] = todo[r] /\ queue'[r] = queue[r]
          /\ dead'[r] = dead[r]
      BY <2>2, <2>w DEF locals, exchange
    <2>5. pc'[r] \in {"getIdP", "update"}
      BY <2>3
    <2>6. ControlOf(r)'
      BY <1>0, <1>1, <2>4, <2>5, <2>w
         DEF RequestInv, ControlOf, SignOutPc, TerminatePc, UsePc
    <2>7. BornOf(r)'
      BY <1>0, <1>1, <2>4, <2>5, <2>w DEF BornOf, store, content, RequestInv, CreatePc
    <2>8. DeadOf(r)'
      <3>1. (Bereft(w)' <=> Bereft(w)) /\ stored' = stored
        BY <1>2, StillGroups DEF Still, Bereft
      <3>2. dead[r] => w \notin stored \/ Bereft(w)
        BY <1>0, <1>1, <2>w DEF RequestInv, DeadOf, UsePc
      <3>3. dead[r] /\ w \in stored => pc'[r] = "getIdP"
        BY <1>1, <2>2, <2>3, <3>2 DEF Bereft
      <3> QED
        BY <2>4, <3>1, <3>2, <3>3 DEF DeadOf
    <2>9. SignOutOf(r)'
      <3>1. goal[r] \cap dropped' = {}
        BY <1>0, <1>1 DEF RequestInv, SignOutOf
      <3> QED
        BY <2>4, <2>5, <3>1 DEF SignOutOf, SignOutPc
    <2>10. FoundOf(r)' /\ GroupOf(r)' /\ SingleOf(r)'
      BY <2>5 DEF FoundOf, GroupOf, SingleOf, Listed
    <2>11. RequestInv(r)'
      BY <2>6, <2>7, <2>8, <2>9, <2>10 DEF RequestInv
    <2> QED
      BY <1>1, <1>2, <2>1, <2>4, <2>11, StillInvUnshared
  <1> QED
    BY <1>3, <1>4

\* A grant that was found dead is not accepted; the entry of one that is there is set.
LEMMA UpdateFacts ==
    ASSUME GroupInv, NEW r \in Request, Update(r)
    PROVE  /\ pc[r] = "update" /\ accepted' = accepted
           /\ list' = list \cup IF who[r] \in stored THEN {who[r]} ELSE {}
           /\ (IF who[r] \in stored THEN {who[r]} ELSE {}) \in SUBSET Listable
  <1>0. RequestInv(r)
    BY DEF GroupInv
  <1>1. pc[r] = "update" /\ who[r] \in Listable
    BY <1>0 DEF Update, RequestInv, ControlOf, UsePc, Listable
  <1>2. ~(who[r] \in stored /\ dead[r])
    BY <1>0, <1>1 DEF RequestInv, DeadOf, UsePc
  <1> QED
    BY <1>1, <1>2 DEF Update

\* A use returns.
LEMMA UpdateGrantInv ==
    ASSUME GroupInv, NEW r \in Request, UpdateGrant(r)
    PROVE  GroupInv'
  <1>1. /\ Return(r) /\ Update(r)
        /\ UNCHANGED <<stored, content, late, unseen, dropped, signedOut, shared, failures>>
    BY DEF UpdateGrant
  <1>2. Still
    BY <1>1, UpdateFacts, EntryStill DEF GroupInv, StoreInv
  <1> QED
    BY <1>1, <1>2, UpdateFacts, ReturnsQuietly

\* A token of the client with one session is added to a grant, which is then unseen if an
\* exchange has listed the grants before.
LEMMA AddRefreshTokenInv ==
    ASSUME GroupInv, NEW r \in Request, Step(r), AddRefreshToken(r)
    PROVE  GroupInv'
  <1>0. /\ LocalTypes /\ StoreTypes /\ HistoryTypes /\ Lineage /\ Entries /\ StoreInv
        /\ CodeIsUsedOnce /\ RequestInv(r)
    BY DEF GroupInv, StoreInv
  <1>w. PICK g : g = who[r]
    OBVIOUS
  <1> DEFINE ofClient == g \in stored /\ data[held[r]].single
  <1>1. /\ Update(r) /\ held[r] # None
        /\ joined' = IF ofClient THEN joined \cup {g} ELSE joined
        /\ unseen' = IF ofClient /\ ~OfClient(g) /\ \E q \in Request : Listed(q)
                     THEN unseen \cup {g} ELSE unseen
        /\ UNCHANGED <<stored, born, data, origin, late, dropped, signedOut, shared, failures>>
    BY <1>w DEF AddRefreshToken
  <1>2. pc[r] = "update" /\ accepted' = accepted
    BY <1>1, UpdateFacts
  <1>3. CASE g \notin stored
    <2>1. Return(r)
      BY <1>3, <1>w DEF AddRefreshToken
    <2>2. UNCHANGED <<stored, content, late, unseen, dropped>>
      BY <1>1, <1>3 DEF content
    <2>3. Still
      BY <1>0, <1>1, <2>2, UpdateFacts, EntryStill
    <2> QED
      BY <1>1, <1>2, <2>1, <2>3, ReturnsQuietly
  <1>4. CASE g \in stored
    <2>1. /\ pc'[r] = "issued" /\ UNCHANGED locals
          /\ LocalTypes' /\ \A q \in Request \ {r} : Same(q)
      BY <1>0, <1>4, <1>w, StepLocals DEF AddRefreshToken, Goto, LocalTypes
    <2>2. /\ who'[r] = g /\ held'[r] = held[r] /\ goal'[r] = goal[r] /\ idps'[r] = idps[r]
          /\ todo'[r] = todo[r] /\ queue'[r] = queue[r]
      BY <1>w, <2>1 DEF locals, exchange
    <2>3. g \in Grant /\ g \in born /\ goal[r] = {}
      BY <1>0, <1>1, <1>2, <1>4, <1>w DEF RequestInv, ControlOf, UsePc, StoreTypes
    <2>4. list' = list \cup {g}
      BY <1>1, <1>4, <1>w, UpdateFacts
    <2>5. Aged
      BY <1>0, <1>1, <2>4 DEF Aged, StoreTypes
    <2>6. /\ joined \subseteq joined' /\ joined' \subseteq joined \cup {g}
          /\ unseen \subseteq unseen' /\ unseen' \subseteq unseen \cup {g}
      BY <1>1
    <2>7. \A h : OfClient(h)' <=> (OfClient(h) \/ h \in joined')
      BY <1>1, <2>6, SameGroups DEF OfClient
    <2>8. ASSUME NEW q \in Request
          PROVE  NewKeys(q)
      <3>1. stored' \ born = {}
        BY <1>0, <1>1 DEF StoreTypes
      <3>2. ASSUME NEW h \in stored' \cap Grant, Listed(q), OfClient(h)',
                   ~(h \in born /\ OfClient(h))
            PROVE  h \in unseen'
        <4>1. h \in born /\ ~OfClient(h) /\ h \in joined'
          BY <1>0, <1>1, <2>7, <3>2 DEF StoreTypes
        <4>2. h \notin joined
          BY <4>1 DEF OfClient
        <4>3. h = g /\ ofClient
          BY <1>1, <4>1, <4>2
        <4> QED
          BY <1>1, <3>2, <4>1, <4>3
      <3> QED
        BY <2>6, <3>1, <3>2 DEF NewKeys
    <2>9. \A q \in Request \ {r} : RequestInv(q)'
      BY <1>0, <2>1, <2>5, <2>8, SameInv DEF GroupInv
    <2>10. RequestInv(r)'
      <3>1. ControlOf(r)'
        BY <1>1, <2>1, <2>2, <2>3 DEF ControlOf, SignOutPc, TerminatePc, UsePc
      <3>2. BornOf(r)'
        BY <1>0, <1>1, <2>1, <2>2, <2>3 DEF BornOf, RequestInv, CreatePc
      <3>3. SignOutOf(r)' /\ FoundOf(r)' /\ DeadOf(r)' /\ GroupOf(r)' /\ SingleOf(r)'
        BY <2>1, <2>2, <2>3
           DEF SignOutOf, FoundOf, DeadOf, GroupOf, SingleOf, Listed, SignOutPc, UsePc
      <3> QED
        BY <3>1, <3>2, <3>3 DEF RequestInv
    <2>11. CodeIsUsedOnce'
      <3>1. /\ \A q \in Request : held'[q] = held[q]
            /\ \A q \in Request : held[q] # None /\ pc[q] = "issued" => pc'[q] = "issued"
        BY <2>1, <2>2 DEF Same
      <3> QED
        BY <1>0, <1>1, <3>1, SameHolders
    <2>12. StoreInv'
      <3>1. StoreTypes'
        BY <1>0, <1>1, <1>4, <2>3, <2>4, <2>6 DEF StoreTypes, Listable
      <3>2. HistoryTypes'
        BY <1>0, <1>1, <1>2, <2>3, <2>6 DEF HistoryTypes
      <3>3. Lineage'
        BY <1>0, <1>1 DEF Lineage
      <3>4. Entries'
        BY <1>0, <1>1, <2>4 DEF Entries
      <3>5. SignOutIsComplete' /\ SignedOutGroupIsDead'
        BY <1>0, <1>1, <1>2 DEF StoreInv, SignOutIsComplete, SignedOutGroupIsDead
      <3>6. OrphanOnlyByRace'
        BY <1>0, <1>1, SameGroups DEF StoreInv, OrphanOnlyByRace
      <3>7. CodeUsedTwiceOnlyByOverlap'
        BY <1>0, <1>1 DEF StoreInv, CodeUsedTwiceOnlyByOverlap
      <3> QED
        BY <3>1, <3>2, <3>3, <3>4, <3>5, <3>6, <3>7 DEF StoreInv
    <2> QED
      BY <2>1, <2>9, <2>10, <2>11, <2>12 DEF GroupInv
  <1> QED
    BY <1>3, <1>4

----------------------------------------------------------------------------
(* Steps that remove a key *)

\* A key is gone, and the grants that this leaves without their session are known.
Removed(k) ==
    /\ stored' = stored \ {k} /\ list' = list \ {k} /\ joined' = joined \ {k}
    /\ unseen' = unseen \ {k} /\ dropped' = dropped \ {k}
    /\ late \ {k} \subseteq late' /\ late' \subseteq Grant
    /\ \A g \in stored' \cap Grant :
           SSOGroupIDPSessionID(g) = k /\ k # None => g \in late' \cup dropped'
    /\ UNCHANGED <<born, data, origin, signedOut, accepted, shared, failures>>

\* The removal of a key keeps the invariant of the store.
LEMMA RemovedStore ==
    ASSUME StoreInv, NEW k \in born, Removed(k)
    PROVE  StoreInv' /\ Aged /\ \A q \in Request : NewKeys(q)
  <1>1. StoreTypes'
    BY DEF StoreInv, StoreTypes, Removed
  <1>2. HistoryTypes'
    BY DEF StoreInv, HistoryTypes, Removed
  <1>3. Lineage'
    BY DEF StoreInv, Lineage, Removed
  <1>4. SignOutIsComplete' /\ SignedOutGroupIsDead'
    BY DEF StoreInv, SignOutIsComplete, SignedOutGroupIsDead, Removed
  <1>5. \A g \in Grant : SSOGroupIDPSessionID(g)' = SSOGroupIDPSessionID(g)
    BY SameGroups DEF Removed
  <1>6. OrphanOnlyByRace'
    BY <1>5 DEF StoreInv, OrphanOnlyByRace, Removed
  <1>7. CodeUsedTwiceOnlyByOverlap'
    BY DEF StoreInv, CodeUsedTwiceOnlyByOverlap, Removed
  <1>8. Entries'
    BY DEF StoreInv, Entries, Removed
  <1>9. Aged
    BY DEF StoreInv, StoreTypes, Removed, Aged
  <1>10. \A q \in Request : NewKeys(q)
    <2>1. stored' \subseteq stored /\ stored \subseteq born /\ joined' \subseteq joined
          /\ stored' \cap unseen \subseteq unseen'
      BY DEF StoreInv, StoreTypes, Removed
    <2>2. \A g : OfClient(g)' => OfClient(g)
      BY <2>1, SameGroups DEF OfClient, Removed
    <2> QED
      BY <2>1, <2>2 DEF NewKeys
  <1> QED
    BY <1>1, <1>2, <1>3, <1>4, <1>6, <1>7, <1>8, <1>9, <1>10 DEF StoreInv

\* A sign-out deletes an IdP session last: the grants of the group that are left are late, or
\* were dropped.
LEMMA DeleteOneInv ==
    ASSUME GroupInv, NEW r \in Request, Step(r), NEW t \in Listable, DeleteOne(r, t)
    PROVE  GroupInv'
  <1>0. LocalTypes /\ StoreTypes /\ StoreInv /\ Lineage /\ CodeIsUsedOnce /\ RequestInv(r)
    BY DEF GroupInv, StoreInv
  <1>1. LocalTypes' /\ \A q \in Request \ {r} : Same(q)
    BY <1>0, StepLocals
  <1>w. PICK w : w = who[r]
    OBVIOUS
  <1>2. /\ pc[r] = "delete" /\ pc'[r] = "delete" /\ who'[r] = w
        /\ goal'[r] = goal[r] /\ held'[r] = held[r] /\ idps'[r] = idps[r]
        /\ queue'[r] = queue[r] /\ found'[r] = found[r]
        /\ t \in todo[r] /\ todo'[r] = todo[r] \ {t}
        /\ t \in Grant \/ todo[r] \cap Grant = {}
    BY <1>0, <1>w DEF DeleteOne, MayDelete, LocalTypes, exchange
  <1>3. /\ stored' = stored \ {t} /\ list' = list \ {t} /\ joined' = joined \ {t}
        /\ unseen' = unseen \ {t} /\ dropped' = dropped \ {t} /\ late' = late \ {t}
        /\ UNCHANGED <<born, data, origin, signedOut, accepted, shared, failures>>
    BY DEF DeleteOne, Delete
  <1>4. GroupOf(r) /\ t \in born
    BY <1>0, <1>2 DEF RequestInv, BornOf
  <1>5. ASSUME NEW g \in stored' \cap Grant, SSOGroupIDPSessionID(g) = t, t # None
        PROVE  g \in late' \cup dropped'
    <2>1. t \in Session
      BY <1>0, <1>5, GroupFacts DEF Listable
    <2>2. todo[r] \cap Grant = {} /\ SSOGroupIDPSessionID(t) = t
      BY <1>0, <1>2, <2>1, GroupFacts, Kinds
    <2>3. IsSameSSOGroup(t, w)
      BY <1>2, <1>4, <1>w DEF GroupOf
    <2>4. InGroupOf(g, w)
      BY <1>5, <2>2, <2>3 DEF InGroupOf, IsSameSSOGroup
    <2>5. g \in late \cup dropped /\ g # t
      BY <1>2, <1>3, <1>4, <1>w, <2>2, <2>4 DEF GroupOf
    <2> QED
      BY <1>3, <2>5
  <1>6. Removed(t)
    BY <1>0, <1>3, <1>5 DEF Removed, StoreInv, HistoryTypes
  <1>7. StoreInv' /\ Aged /\ \A q \in Request : NewKeys(q)
    BY <1>0, <1>4, <1>6, RemovedStore
  <1>8. \A q \in Request \ {r} : RequestInv(q)'
    BY <1>0, <1>1, <1>7, SameInv DEF GroupInv
  <1>9. CodeIsUsedOnce'
    <2>1. /\ \A q \in Request : held'[q] = held[q]
          /\ \A q \in Request : held[q] # None /\ pc[q] = "issued" => pc'[q] = "issued"
      BY <1>1, <1>2 DEF Same
    <2> QED
      BY <1>0, <1>3, <2>1, SameHolders
  <1>10. RequestInv(r)'
    <2>1. ControlOf(r)'
      BY <1>0, <1>2, <1>w DEF RequestInv, ControlOf, SignOutPc, TerminatePc, UsePc
    <2>2. BornOf(r)'
      BY <1>0, <1>2, <1>3, <1>w DEF BornOf, RequestInv, CreatePc
    <2>3. \A x, y : /\ IsSameSSOGroup(x, y)' <=> IsSameSSOGroup(x, y)
                    /\ InGroupOf(x, y)' <=> InGroupOf(x, y)
      BY <1>3, SameGroups
    <2>4. SignOutOf(r)'
      <3>1. \A x \in goal[r] : IsSameSSOGroup(x, w)
        BY <1>0, <1>2, <1>w DEF RequestInv, SignOutOf, SignOutPc
      <3>2. goal[r] \cap stored \subseteq todo[r] /\ goal[r] \cap dropped = {}
        BY <1>0, <1>2 DEF RequestInv, SignOutOf
      <3>3. \A x \in goal[r] : IsSameSSOGroup(x, w)'
        BY <2>3, <3>1
      <3> QED
        BY <1>2, <1>3, <3>2, <3>3 DEF SignOutOf
    <2>5. FoundOf(r)'
      BY <1>0, <1>2, <1>3, <1>w DEF RequestInv, FoundOf
    <2>6. GroupOf(r)'
      <3>1. \A x \in todo[r] : IsSameSSOGroup(x, w)'
        BY <1>2, <1>4, <1>w, <2>3 DEF GroupOf
      <3>2. \A g \in stored' \cap Grant :
                InGroupOf(g, w)' => g \in todo'[r] \cup late' \cup dropped'
        BY <1>2, <1>3, <1>4, <1>w, <2>3 DEF GroupOf
      <3> QED
        BY <1>2, <3>1, <3>2 DEF GroupOf
    <2>7. SingleOf(r)'
      <3>1. SingleOf(r) /\ (Listed(r)' => Listed(r))
        BY <1>0, <1>2 DEF RequestInv, Listed
      <3>2. \A g : OfClient(g)' => OfClient(g)
        BY <1>3, SameGroups DEF OfClient
      <3> QED
        BY <1>2, <1>3, <3>1, <3>2 DEF SingleOf
    <2>8. DeadOf(r)'
      BY <1>2 DEF DeadOf, UsePc
    <2> QED
      BY <2>1, <2>2, <2>4, <2>5, <2>6, <2>7, <2>8 DEF RequestInv
  <1> QED
    BY <1>1, <1>7, <1>8, <1>9, <1>10 DEF GroupInv

\* A termination may leave a grant without its session; the grant is then late.
LEMMA TerminateDeleteInv ==
    ASSUME GroupInv, NEW r \in Request, Step(r), NEW t \in Listable, TerminateDelete(r, t)
    PROVE  GroupInv'
  <1>0. LocalTypes /\ StoreTypes /\ StoreInv /\ Lineage /\ CodeIsUsedOnce /\ RequestInv(r)
    BY DEF GroupInv, StoreInv
  <1>1. LocalTypes' /\ \A q \in Request \ {r} : Same(q)
    BY <1>0, StepLocals
  <1>w. PICK w : w = who[r]
    OBVIOUS
  <1>2. /\ pc[r] \in {"terminateIdP", "terminateGrants"} /\ pc'[r] = pc[r]
        /\ who'[r] = w /\ goal'[r] = goal[r] /\ held'[r] = held[r] /\ idps'[r] = idps[r]
        /\ queue'[r] = queue[r] /\ t \in todo[r] /\ todo'[r] = todo[r] \ {t}
    BY <1>0, <1>w DEF TerminateDelete, LocalTypes, exchange
  <1>3. /\ Delete(t) /\ late' = (late \cup (Members(t) \cap stored)) \ {t}
        /\ UNCHANGED <<born, data, origin, signedOut, accepted, shared, failures>>
    BY DEF TerminateDelete
  <1>4. Removed(t) /\ t \in born
    BY <1>0, <1>2, <1>3
       DEF Removed, Delete, Members, StoreInv, HistoryTypes, RequestInv, BornOf
  <1>5. StoreInv' /\ Aged /\ \A q \in Request : NewKeys(q)
    BY <1>0, <1>4, RemovedStore
  <1>6. \A q \in Request \ {r} : RequestInv(q)'
    BY <1>0, <1>1, <1>5, SameInv DEF GroupInv
  <1>7. CodeIsUsedOnce'
    <2>1. /\ \A q \in Request : held'[q] = held[q]
          /\ \A q \in Request : held[q] # None /\ pc[q] = "issued" => pc'[q] = "issued"
      BY <1>1, <1>2 DEF Same
    <2> QED
      BY <1>0, <1>4, <2>1, SameHolders DEF Removed
  <1>8. RequestInv(r)'
    <2>0. held[r] = None
      BY <1>0, <1>2 DEF RequestInv, ControlOf, TerminatePc
    <2>1. ControlOf(r)'
      BY <1>2, <2>0 DEF RequestInv, ControlOf, SignOutPc, TerminatePc, UsePc
    <2>2. BornOf(r)'
      BY <1>0, <1>2, <1>4, <1>w DEF BornOf, RequestInv, CreatePc, Removed
    <2>3. SignOutOf(r)'
      <3>1. /\ goal[r] \cap dropped = {}
            /\ pc[r] = "terminateIdP" => w = None \/ \A x \in goal[r] : ~IsSameSSOGroup(x, w)
        BY <1>0, <1>w DEF RequestInv, SignOutOf
      <3>2. pc[r] = "terminateIdP" => w = None \/ \A x \in goal[r] : ~IsSameSSOGroup(x, w)'
        BY <1>4, <3>1, SameGroups DEF Removed
      <3>3. /\ pc[r] = "terminateIdP" => goal[r] \cap stored \cap Session \subseteq todo[r]
            /\ pc[r] = "terminateGrants" => goal[r] \cap stored \subseteq todo[r]
        BY <1>0 DEF RequestInv, SignOutOf
      <3>4. stored' = stored \ {t} /\ dropped' \subseteq dropped
        BY <1>4 DEF Removed
      <3> QED
        BY <1>2, <3>1, <3>2, <3>3, <3>4 DEF SignOutOf, SignOutPc
    <2>4. FoundOf(r)' /\ DeadOf(r)' /\ GroupOf(r)' /\ SingleOf(r)'
      BY <1>2, <2>0 DEF FoundOf, DeadOf, GroupOf, SingleOf, Listed, UsePc
    <2> QED
      BY <2>1, <2>2, <2>3, <2>4 DEF RequestInv
  <1> QED
    BY <1>1, <1>5, <1>6, <1>7, <1>8 DEF GroupInv

\* So may the end of a session.
LEMMA ExpireInv ==
    ASSUME GroupInv, NEW k \in Key, Expire(k)
    PROVE  GroupInv'
  <1>0. LocalTypes /\ StoreTypes /\ StoreInv /\ Lineage /\ CodeIsUsedOnce
    BY DEF GroupInv, StoreInv
  <1>1. LocalTypes' /\ \A q \in Request : Same(q)
    BY <1>0 DEF Expire, locals, exchange, LocalTypes, Same
  <1>2. Removed(k) /\ k \in born
    BY <1>0 DEF Expire, Delete, Removed, Members, StoreInv, HistoryTypes, StoreTypes
  <1>3. StoreInv' /\ Aged /\ \A q \in Request : NewKeys(q)
    BY <1>0, <1>2, RemovedStore
  <1>4. \A q \in Request : RequestInv(q)'
    BY <1>0, <1>1, <1>3, SameInv DEF GroupInv
  <1>5. CodeIsUsedOnce'
    BY <1>0, <1>1, <1>2, SameHolders DEF Same, Removed
  <1> QED
    BY <1>1, <1>3, <1>4, <1>5 DEF GroupInv

\* The exchange is over, and its code is gone.
LEMMA DeleteCodeGrantInv ==
    ASSUME GroupInv, NEW r \in Request, DeleteCodeGrant(r)
    PROVE  GroupInv'
  <1>0. /\ LocalTypes /\ StoreTypes /\ StoreInv /\ HistoryTypes /\ Lineage /\ CodeIsUsedOnce
        /\ RequestInv(r)
    BY DEF GroupInv, StoreInv
  <1>c. PICK c : c = held[r]
    OBVIOUS
  <1>1. /\ Return(r) /\ pc[r] = "issued" /\ stored' = stored \ {c}
        /\ UNCHANGED <<list, content, history, failures>>
    BY <1>c DEF DeleteCodeGrant
  <1>2. c \in Code /\ c \in born
    BY <1>0, <1>1, <1>c, Kinds DEF LocalTypes, RequestInv, ControlOf, BornOf
  <1>3. \A g \in Grant : SSOGroupIDPSessionID(g) # c
    BY <1>0, <1>2, GroupFacts, Kinds
  <1>4. Removed(c)
    <2>1. /\ c \notin Listable
          /\ list \subseteq Listable /\ joined \subseteq Grant /\ unseen \subseteq Grant
          /\ dropped \subseteq Listable /\ late \subseteq Grant
      BY <1>0, <1>2, Kinds DEF StoreTypes, HistoryTypes, Listable
    <2>2. /\ UNCHANGED <<born, data, origin, signedOut, accepted, shared, failures>>
          /\ UNCHANGED <<list, joined, unseen, dropped, late>>
      BY <1>1 DEF content, history
    <2>3. /\ list = list \ {c} /\ joined = joined \ {c} /\ unseen = unseen \ {c}
          /\ dropped = dropped \ {c}
      BY <2>1 DEF Listable
    <2> QED
      BY <1>1, <1>3, <2>1, <2>2, <2>3 DEF Removed
  <1>5. StoreInv' /\ Aged /\ \A q \in Request : NewKeys(q)
    BY <1>0, <1>2, <1>4, RemovedStore
  <1>6. /\ LocalTypes' /\ RequestInv(r)' /\ held'[r] = None
        /\ \A q \in Request \ {r} : Same(q)
    BY <1>0, <1>1, ReturnInv
  <1>7. \A q \in Request \ {r} : RequestInv(q)'
    BY <1>0, <1>5, <1>6, SameInv DEF GroupInv
  <1>8. CodeIsUsedOnce'
    <2> SUFFICES ASSUME NEW d \in Code, d \notin shared
                 PROVE  /\ \A p, q \in Request : held'[p] = d /\ held'[q] = d => p = q
                        /\ \A g \in Grant : origin[g] = d =>
                               /\ \A q \in Request : held'[q] = d => pc'[q] = "issued"
                               /\ d \in stored' => \E q \in Request : held'[q] = d
      BY <1>4 DEF CodeIsUsedOnce, Removed
    <2>1. \A q \in Request \ {r} : held'[q] = held[q] /\ pc'[q] = pc[q]
      BY <1>6 DEF Same
    <2>2. d # None
      BY Kinds
    <2>3. CASE d = c
      <3>1. \A p, q \in Request : held[p] = d /\ held[q] = d => p = q
        BY <1>0 DEF CodeIsUsedOnce
      <3>2. \A q \in Request : held'[q] # d
        BY <1>6, <1>c, <2>1, <2>2, <2>3, <3>1
      <3> QED
        BY <1>1, <2>3, <3>2
    <2>4. CASE d # c
      <3>1. \A q \in Request : held'[q] = d <=> held[q] = d
        BY <1>6, <1>c, <2>1, <2>2, <2>4
      <3>2. \A q \in Request : held'[q] = d => pc'[q] = pc[q]
        BY <1>6, <2>1, <2>2
      <3> QED
        BY <1>0, <1>1, <3>1, <3>2 DEF CodeIsUsedOnce
    <2> QED
      BY <2>3, <2>4
  <1> QED
    BY <1>5, <1>6, <1>7, <1>8 DEF GroupInv

----------------------------------------------------------------------------
(* The issue of a grant *)

\* The new grant is late if its session is gone or is being signed out, unseen if another
\* exchange has listed the grants before, and the only one of its code unless that is shared.
LEMMA IssueOfflineGrantInv ==
    ASSUME GroupInv, NEW r \in Request, Step(r), IssueOfflineGrant(r)
    PROVE  GroupInv'
  <1>0. /\ LocalTypes /\ StoreTypes /\ StoreInv /\ Lineage /\ HistoryTypes /\ Entries
        /\ CodeIsUsedOnce /\ RequestInv(r)
    BY DEF GroupInv, StoreInv
  <1>1. LocalTypes' /\ \A q \in Request \ {r} : Same(q)
    BY <1>0, StepLocals
  <1>c. PICK c : c = held[r]
    OBVIOUS
  <1>d. PICK d : d = data[c]
    OBVIOUS
  <1>g. PICK g : g = who[r]
    OBVIOUS
  <1>2. /\ Goto(r, "createGrant", "issued") /\ g \notin born
        /\ stored' = stored \cup {g} /\ born' = born \cup {g}
        /\ origin' = [origin EXCEPT ![g] = c]
        /\ UNCHANGED <<list, data, joined, locals, signedOut, accepted, dropped, shared,
                       failures>>
    BY <1>c, <1>g DEF IssueOfflineGrant
  <1>3. late' = IF /\ d.by \in Session
                   /\ d.by \notin stored \/ \E q \in Request : Invalidating(q, d.by)
                THEN late \cup {g} ELSE late
    BY <1>c, <1>d, <1>g DEF IssueOfflineGrant
  <1>4. unseen' = IF d.single /\ \E q \in Request \ {r} : Listed(q)
                  THEN unseen \cup {g} ELSE unseen
    BY <1>c, <1>d, <1>g DEF IssueOfflineGrant
  <1>5. pc[r] = "createGrant" /\ held[r] # None /\ g \in Grant /\ g \in list \cup dropped
    BY <1>0, <1>2, <1>g DEF Goto, RequestInv, ControlOf, BornOf, CreatePc
  <1>6. c \in Code /\ c \in born /\ c # None /\ goal[r] = {}
    BY <1>0, <1>5, <1>c, Kinds DEF LocalTypes, RequestInv, ControlOf, BornOf
  <1>7. d \in Data
    BY <1>0, <1>6, <1>d DEF StoreTypes
  <1>8. /\ origin'[g] = c /\ \A h \in Grant : h # g => origin'[h] = origin[h]
        /\ data' = data
    BY <1>0, <1>2, <1>5 DEF StoreTypes
  <1>9. DataOf(g)' = d
    BY <1>6, <1>8, <1>d DEF DataOf
  <1>10. late \subseteq late' /\ unseen \subseteq unseen' /\ late' \subseteq Grant
             /\ unseen' \subseteq Grant
    BY <1>0, <1>3, <1>4, <1>5 DEF HistoryTypes
  <1>11. Aged
    BY <1>0, <1>2, <1>8, <1>10 DEF Aged, StoreTypes
  <1>12. /\ \A h \in Grant \cap born : DataOf(h)' = DataOf(h)
         /\ \A s \in Listable \cap born : SSOGroupIDPSessionID(s)' = SSOGroupIDPSessionID(s)
    BY <1>0, <1>11, GroupStays
  <1>13. SSOGroupIDPSessionID(g)' = IF d.by \in Session THEN d.by ELSE None
    BY <1>5, <1>9, Kinds DEF SSOGroupIDPSessionID
  <1>14. /\ pc'[r] = "issued" /\ who' = who /\ held' = held /\ queue' = queue
         /\ idps' = idps /\ todo' = todo /\ goal' = goal
    BY <1>0, <1>2 DEF Goto, locals, exchange, LocalTypes
  <1>15. ASSUME NEW q \in Request \ {r}
         PROVE  NewKeys(q)
    <2>1. \A h \in (stored' \ born) \cap Grant : h = g
      BY <1>0, <1>2 DEF StoreTypes
    <2>2. ASSUME NEW h \in stored' \cap Grant, Listed(q), OfClient(h)',
                 ~(h \in born /\ OfClient(h))
          PROVE  h \in unseen'
      <3>1. h \in born => (OfClient(h)' <=> OfClient(h))
        BY <1>2, <1>12 DEF OfClient
      <3>2. h = g
        BY <2>1, <2>2, <3>1
      <3>3. g \notin joined'
        BY <1>0, <1>2 DEF StoreTypes
      <3> QED
        BY <1>4, <1>9, <2>2, <3>2, <3>3 DEF OfClient
    <2>3. ASSUME pc[q] = "delete", InGroupOf(g, who[q])'
          PROVE  g \in late'
      <3>w. PICK w : w = who[q]
        OBVIOUS
      <3>1. w \in Listable /\ w \in born /\ w # None
        BY <2>3, <3>w, Kinds
           DEF GroupInv, RequestInv, ControlOf, BornOf, SignOutPc, CreatePc, Listable
      <3>2. who'[q] = w
        BY <1>14, <3>w
      <3>3. InGroupOf(g, w)'
        BY <2>3, <3>2
      <3>4. SSOGroupIDPSessionID(w)' = SSOGroupIDPSessionID(w)
        BY <1>12, <3>1
      <3>5. d.by \in Session /\ SSOGroupIDPSessionID(w) = d.by
        BY <1>13, <3>3, <3>4 DEF InGroupOf
      <3>6. Invalidating(q, d.by)
        BY <2>3, <3>1, <3>5, <3>w DEF Invalidating
      <3> QED
        BY <1>3, <3>5, <3>6
    <2> QED
      BY <1>10, <2>1, <2>2, <2>3 DEF NewKeys
  <1>16. \A q \in Request \ {r} : RequestInv(q)'
    BY <1>0, <1>1, <1>11, <1>15, SameInv DEF GroupInv
  <1>17. RequestInv(r)'
    <2>1. ControlOf(r)'
      BY <1>5, <1>6, <1>14 DEF ControlOf, SignOutPc, TerminatePc, UsePc
    <2>2. BornOf(r)'
      BY <1>0, <1>2, <1>14, <1>g DEF RequestInv, BornOf, CreatePc
    <2>3. SignOutOf(r)' /\ FoundOf(r)' /\ DeadOf(r)' /\ GroupOf(r)' /\ SingleOf(r)'
      BY <1>6, <1>14
         DEF SignOutOf, FoundOf, DeadOf, GroupOf, SingleOf, Listed, SignOutPc, UsePc
    <2> QED
      BY <2>1, <2>2, <2>3 DEF RequestInv
  <1>18. StoreInv'
    <2>1. StoreTypes'
      BY <1>0, <1>2, <1>5, <1>6 DEF StoreTypes, Key, Listable
    <2>2. HistoryTypes'
      BY <1>0, <1>2, <1>10 DEF HistoryTypes
    <2>3. Lineage'
      <3>1. \A h \in Grant : origin'[h] # None => h \in born' /\ origin'[h] \in born'
        BY <1>0, <1>2, <1>6, <1>8 DEF Lineage
      <3>2. \A x \in Code : data'[x] = NoData \/ (x \in born' /\ data'[x].by \in born' \cup {None})
        BY <1>0, <1>2, <1>8 DEF Lineage
      <3>3. signedOut' \subseteq born'
        BY <1>0, <1>2 DEF Lineage
      <3> QED
        BY <3>1, <3>2, <3>3 DEF Lineage
    <2>4. SignOutIsComplete' /\ SignedOutGroupIsDead'
      BY <1>0, <1>2 DEF StoreInv, Lineage, SignOutIsComplete, SignedOutGroupIsDead
    <2>5. OrphanOnlyByRace'
      <3> SUFFICES ASSUME NEW h \in stored' \cap Grant, SSOGroupIDPSessionID(h)' # None
                   PROVE  SSOGroupIDPSessionID(h)' \in stored' \/ h \in late' \cup dropped'
        BY DEF OrphanOnlyByRace
      <3>1. CASE h = g
        BY <1>2, <1>3, <1>13, <3>1
      <3>2. CASE h # g
        <4>1. h \in stored \cap Grant /\ h \in born /\ h \in Listable
          BY <1>0, <1>2, <3>2 DEF StoreTypes, Listable
        <4> QED
          BY <1>0, <1>2, <1>10, <1>12, <4>1 DEF StoreInv, OrphanOnlyByRace
      <3> QED
        BY <3>1, <3>2
    <2>6. CodeUsedTwiceOnlyByOverlap'
      <3>1. ASSUME NEW h \in Grant, origin[h] = c, c \notin shared
            PROVE  FALSE
        BY <1>0, <1>5, <1>6, <1>c, <3>1 DEF CodeIsUsedOnce
      <3> QED
        BY <1>0, <1>2, <1>8, <3>1 DEF StoreInv, CodeUsedTwiceOnlyByOverlap
    <2>7. Entries'
      BY <1>0, <1>2, <1>5 DEF Entries
    <2> QED
      BY <2>1, <2>2, <2>3, <2>4, <2>5, <2>6, <2>7 DEF StoreInv
  <1>19. CodeIsUsedOnce'
    <2> SUFFICES ASSUME NEW x \in Code, x \notin shared
                 PROVE  /\ \A p, q \in Request : held[p] = x /\ held[q] = x => p = q
                        /\ \A h \in Grant : origin'[h] = x =>
                               /\ \A q \in Request : held[q] = x => pc'[q] = "issued"
                               /\ x \in stored' => \E q \in Request : held[q] = x
      BY <1>2, <1>14 DEF CodeIsUsedOnce
    <2>1. \A p, q \in Request : held[p] = x /\ held[q] = x => p = q
      BY <1>0 DEF CodeIsUsedOnce
    <2>2. \A q \in Request \ {r} : pc'[q] = pc[q]
      BY <1>1 DEF Same
    <2>3. x \in stored' => x \in stored
      BY <1>2, <1>5, Kinds
    <2>4. ASSUME NEW h \in Grant, origin'[h] = x
          PROVE  /\ \A q \in Request : held[q] = x => pc'[q] = "issued"
                 /\ x \in stored' => \E q \in Request : held[q] = x
      <3>1. CASE h = g
        <4>1. x = c
          BY <1>8, <2>4, <3>1
        <4> QED
          BY <1>14, <1>c, <2>1, <4>1
      <3>2. CASE h # g
        <4>1. origin[h] = x
          BY <1>8, <2>4, <3>2
        <4> QED
          BY <1>0, <1>14, <2>2, <2>3, <4>1 DEF CodeIsUsedOnce
      <3> QED
        BY <3>1, <3>2
    <2> QED
      BY <2>1, <2>4
  <1> QED
    BY <1>1, <1>16, <1>17, <1>18, <1>19 DEF GroupInv

----------------------------------------------------------------------------
(* The invariant *)

\* Initially nothing is stored and nobody is at work.
LEMMA InitInv ==
    ASSUME Init
    PROVE  GroupInv
  <1>1. StoreTypes /\ HistoryTypes
    <2>1. NoData \in Data /\ NoData.by = None /\ None \notin Session
      BY Kinds DEF NoData, Data
    <2> QED
      BY <2>1 DEF Init, StoreTypes, HistoryTypes
  <1>2. LocalTypes
    BY DEF Init, LocalTypes, Label
  <1>3. Lineage /\ Entries
    BY DEF Init, Lineage, Entries
  <1>4. /\ SignOutIsComplete /\ SignedOutGroupIsDead /\ OrphanOnlyByRace
        /\ CodeUsedTwiceOnlyByOverlap
    BY DEF Init, SignOutIsComplete, SignedOutGroupIsDead, OrphanOnlyByRace,
           CodeUsedTwiceOnlyByOverlap
  <1>5. CodeIsUsedOnce
    BY Kinds DEF Init, CodeIsUsedOnce
  <1>6. ASSUME NEW r \in Request
        PROVE  RequestInv(r)
    <2>1. ControlOf(r) /\ BornOf(r)
      BY DEF Init, ControlOf, BornOf, SignOutPc, TerminatePc, UsePc, CreatePc
    <2>2. SignOutOf(r) /\ FoundOf(r) /\ DeadOf(r) /\ GroupOf(r) /\ SingleOf(r)
      BY DEF Init, SignOutOf, FoundOf, DeadOf, GroupOf, SingleOf, Listed, SignOutPc, UsePc
    <2> QED
      BY <2>1, <2>2 DEF RequestInv
  <1> QED
    BY <1>1, <1>2, <1>3, <1>4, <1>5, <1>6 DEF GroupInv, StoreInv

\* Nothing changes.
LEMMA StutterInv ==
    ASSUME GroupInv, UNCHANGED vars
    PROVE  GroupInv'
  <1>1. /\ UNCHANGED <<store, late, unseen, dropped>>
        /\ UNCHANGED <<signedOut, accepted, shared, failures, pc, locals>>
    BY DEF vars, history
  <1>2. Still
    BY <1>1, StoreStill DEF GroupInv, StoreInv
  <1> QED
    BY <1>1, <1>2, StillAll

\* The beginnings of requests, together
LEMMA CallInv ==
    ASSUME GroupInv, NEW r \in Request, Call(r)
    PROVE  GroupInv'
  <1>1. CASE \E s \in Listable : BeginSignOut(r, s)
    BY <1>1, BeginSignOutInv
  <1>2. CASE \E s \in Listable \cup {None} : BeginTerminate(r, s)
    BY <1>2, BeginTerminateInv
  <1>3. CASE \E s \in Session : BeginLogin(r, s)
    BY <1>3, BeginLoginInv
  <1>4. CASE \E c \in Code, refresh \in BOOLEAN : GetCodeGrant(r, c, refresh)
    BY <1>4, GetCodeGrantInv
  <1>5. CASE \E g \in Grant : BeginUse(r, g)
    BY <1>5, BeginUseInv
  <1> QED
    BY <1>1, <1>2, <1>3, <1>4, <1>5 DEF Call

\* The steps of requests, together
LEMMA StepInv ==
    ASSUME GroupInv, NEW r \in Request, Step(r)
    PROVE  GroupInv'
  <1>1. CASE ListIdP(r)
    BY <1>1, ListIdPInv
  <1>2. CASE ListGrants(r)
    BY <1>2, ListGrantsInv
  <1>3. CASE \E t \in Listable : DeleteOne(r, t)
    BY <1>3, DeleteOneInv
  <1>4. CASE SignOutReturns(r)
    BY <1>4, SignOutReturnsInv
  <1>5. CASE LogoutPanics(r)
    BY <1>5, LogoutPanicsInv
  <1>6. CASE Recover(r)
    BY <1>6, RecoverInv
  <1>7. CASE \E t \in Listable : TerminateDelete(r, t)
    BY <1>7, TerminateDeleteInv
  <1>8. CASE TerminateListGrants(r)
    BY <1>8, TerminateListGrantsInv
  <1>9. CASE TerminateReturns(r)
    BY <1>9, TerminateReturnsInv
  <1>10. CASE \E s \in Session \cup {None} : CreateSession(r, s)
    BY <1>10, CreateSessionInv
  <1>11. CASE ListClientOfflineGrants(r)
    BY <1>11, ListClientOfflineGrantsInv
  <1>12. CASE \E g \in Grant : RevokeClientGrant(r, g)
    BY <1>12, RevokeClientGrantInv
  <1>13. CASE ClientGrantRevoked(r)
    BY <1>13, ClientGrantRevokedInv
  <1>14. CASE \E g \in Grant : BeginIssue(r, g)
    BY <1>14, BeginIssueInv
  <1>15. CASE IssueOfflineGrant(r)
    BY <1>15, IssueOfflineGrantInv
  <1>16. CASE IssueNothing(r)
    BY <1>16, IssueNothingInv
  <1>17. CASE DeleteCodeGrant(r)
    BY <1>17, DeleteCodeGrantInv
  <1>18. CASE ExchangeFails(r)
    BY <1>18, ExchangeFailsInv
  <1>19. CASE GetOfflineGrant(r)
    BY <1>19, GetOfflineGrantInv
  <1>20. CASE UpdateGrant(r)
    BY <1>20, UpdateGrantInv
  <1>21. CASE AddRefreshToken(r)
    BY <1>21, AddRefreshTokenInv
  <1>22. CASE Crash(r)
    BY <1>22, CrashInv
  <1> QED
    BY <1>1, <1>2, <1>3, <1>4, <1>5, <1>6, <1>7, <1>8, <1>9, <1>10, <1>11, <1>12, <1>13, <1>14,
       <1>15, <1>16, <1>17, <1>18, <1>19, <1>20, <1>21, <1>22 DEF Step

\* GroupInv is an invariant: it holds at first, and every step keeps it.
LEMMA Invariance == Spec => []GroupInv
  <1>1. Init => GroupInv
    BY InitInv
  <1>2. ASSUME GroupInv, [Next]_vars
        PROVE  GroupInv'
    <2>1. CASE \E r \in Request : Call(r) \/ Step(r)
      BY <1>2, <2>1, CallInv, StepInv
    <2>2. CASE \E c \in Code, d \in CodeData : CreateCodeGrant(c, d)
      BY <1>2, <2>2, CreateCodeGrantInv
    <2>3. CASE \E s \in Session : AccessSession(s)
      BY <1>2, <2>3, AccessSessionInv
    <2>4. CASE List(Session) \/ List(Grant)
      BY <1>2, <2>4, ListInv
    <2>5. CASE \E k \in Key : Expire(k)
      BY <1>2, <2>5, ExpireInv
    <2>6. CASE UNCHANGED vars
      BY <1>2, <2>6, StutterInv
    <2> QED
      BY <1>2, <2>1, <2>2, <2>3, <2>4, <2>5, <2>6 DEF Next
  <1> QED
    BY <1>1, <1>2, PTL DEF Spec

----------------------------------------------------------------------------
(* The theorems *)

\* Every variable keeps its type.
THEOREM TypeCorrect == Spec => []TypeOK
  <1>1. GroupInv => TypeOK
    BY TypeParts DEF GroupInv, StoreInv
  <1> QED
    BY <1>1, Invariance, PTL

\* When a sign-out, a revocation or a termination has returned, what it was about is gone, for
\* any number of requests that sign in, list, exchange and refresh meanwhile; but for sessions
\* that a List had dropped during their creation.
THEOREM SignOutCorrect == Spec => []SignOutIsComplete
  <1>1. GroupInv => SignOutIsComplete
    BY DEF GroupInv, StoreInv
  <1> QED
    BY <1>1, Invariance, PTL

\* A grant of an SSO group that was signed out is not accepted, even one issued afterwards.
THEOREM SignedOutGroupCorrect == Spec => []SignedOutGroupIsDead
  <1>1. GroupInv => SignedOutGroupIsDead
    BY DEF GroupInv, StoreInv
  <1> QED
    BY <1>1, Invariance, PTL

\* A logout panics only when its session is gone from the store, or was dropped from the list.
THEOREM LogoutPanicCorrect == Spec => []LogoutPanicsOnlyIfGone
  <1>1. GroupInv => LogoutPanicsOnlyIfGone
    BY DEF GroupInv, RequestInv, FoundOf, LogoutPanicsOnlyIfGone
  <1> QED
    BY <1>1, Invariance, PTL

\* A grant outlives its IdP session only if its issue met the sign-out, if the session expired
\* or was terminated, or if the grant was dropped from the list.
THEOREM OrphanCorrect == Spec => []OrphanOnlyByRace
  <1>1. GroupInv => OrphanOnlyByRace
    BY DEF GroupInv, StoreInv
  <1> QED
    BY <1>1, Invariance, PTL

\* When an exchange writes the new grant of a client with one session, the others are gone, but
\* for those it could not see.
THEOREM NewGrantReplacesOldCorrect == Spec => []NewGrantReplacesOld
  <1>1. GroupInv => NewGrantReplacesOld
    BY DEF GroupInv, RequestInv, SingleOf, NewGrantReplacesOld
  <1> QED
    BY <1>1, Invariance, PTL

\* A code yields two grants only if it is exchanged by two requests at a time, or after a
\* failed exchange.
THEOREM CodeUseCorrect == Spec => []CodeUsedTwiceOnlyByOverlap
  <1>1. GroupInv => CodeUsedTwiceOnlyByOverlap
    BY DEF GroupInv, StoreInv
  <1> QED
    BY <1>1, Invariance, PTL
=============================================================================
