------------------------- MODULE SubscriptionsProofs -------------------------
(***************************************************************************)
(* Proofs about Subscriptions, for every number of calls, alert mails and  *)
(* versions.                                                               *)
(***************************************************************************)
EXTENDS Subscriptions, TLAPS

-----------------------------------------------------------------------------
(* Type correctness *)

\* Links are what Link makes of a version and a count of subscriptions.
LEMMA LinkType ==
  ASSUME NEW v \in Versions, NEW e \in Nat
  PROVE  Link(v, e) \in Links /\ Link(v, e) # NoLink
         /\ Link(v, e).version = v /\ Link(v, e).epoch = e
  BY SubscriptionsAssumption DEF Link, Links, NoLink, Versions

\* The initial state is typed.
LEMMA TypeInit == Init => TypeOK
<1>1. Init => /\ pc \in [Requests -> Labels] /\ ended \in [Requests -> BOOLEAN]
              /\ got \in [Parties -> Links \cup {NoLink}]
              /\ \A r \in Requests : pc[r] = "mail" => got[r] \in Links
  BY DEF Init, Labels
<1>2. Init => version \in 0 .. MaxVersion /\ epoch \in Nat
  BY SubscriptionsAssumption DEF Init
<1>3. Init => links \in SUBSET Links /\ active \in BOOLEAN /\ (active => version # 0)
  BY DEF Init
<1>. QED  BY <1>1, <1>2, <1>3 DEF TypeOK

\* Every step of a call of subscribe preserves the types.
LEMMA TypeSubscribe ==
  ASSUME TypeOK, NEW r \in Requests, SubscribeStep(r)
  PROVE  TypeOK'
<1> USE SubscriptionsAssumption DEF TypeOK, GoTo, Parties
<1>1. CASE Start(r)
  BY <1>1 DEF Start, Labels
<1>2. CASE Find(r)
  BY <1>2 DEF Find, Labels
<1>3. CASE Activate(r)
  <2>1. version' \in Versions /\ epoch' \in Nat
    BY <1>3 DEF Activate, SetActive, Versions
  <2>2. Link(version', epoch') \in Links
    BY <2>1, LinkType
  <2>. QED  BY <1>3, <2>1, <2>2 DEF Activate, SetActive, Labels, Versions
<1>4. CASE Create(r)
  <2>1. CASE version = 0
    <3>1. epoch' \in Nat /\ 1 \in Versions
      BY <1>4, <2>1 DEF Create, Versions
    <3>2. Link(1, epoch') \in Links
      BY <3>1, LinkType
    <3>. QED  BY <1>4, <2>1, <3>1, <3>2 DEF Create, Labels
  <2>2. CASE version # 0
    BY <1>4, <2>2 DEF Create, Labels
  <2>. QED  BY <2>1, <2>2
<1>5. CASE Reactivate(r)
  BY <1>5 DEF Reactivate, SetActive, Labels
<1>6. CASE Confirm(r)
  BY <1>6 DEF Confirm, Labels
<1>7. CASE Respond(r)
  BY <1>7 DEF Respond, Labels
<1>8. CASE Abort(r)
  BY <1>8 DEF Abort, Labels
<1>. QED
  BY <1>1, <1>2, <1>3, <1>4, <1>5, <1>6, <1>7, <1>8 DEF SubscribeStep

\* Every step preserves the types.
LEMMA TypeStep == TypeOK /\ [Next]_vars => TypeOK'
<1> SUFFICES ASSUME TypeOK, [Next]_vars PROVE TypeOK'
  OBVIOUS
<1>1. ASSUME NEW r \in Requests, SubscribeStep(r) PROVE TypeOK'
  BY <1>1, TypeSubscribe
<1>2. ASSUME NEW l \in links, Unsubscribe(l) \/ LinkExpires(l) PROVE TypeOK'
  <2>1. CASE Unsubscribe(l)
    BY <2>1 DEF TypeOK, Unsubscribe, SetInactive
  <2>2. CASE LinkExpires(l)
    BY <2>2 DEF TypeOK, LinkExpires
  <2>. QED  BY <1>2, <2>1, <2>2
<1>3. CASE AdminRemove
  BY <1>3 DEF TypeOK, AdminRemove, SetInactive
<1>4. ASSUME NEW a \in Senders, ReadSubscriber(a) PROVE TypeOK'
  <2>1. Link(version, epoch) \in Links \cup {NoLink}
    <3>1. version # 0
      BY <1>4 DEF TypeOK, ReadSubscriber
    <3>. QED  BY <3>1, LinkType DEF TypeOK, Versions
  <2>2. a \notin Requests
    BY SubscriptionsAssumption
  <2>. QED  BY <1>4, <2>1, <2>2 DEF TypeOK, ReadSubscriber, Parties
<1>5. ASSUME NEW a \in Senders, MailAlert(a) PROVE TypeOK'
  <2>1. a \notin Requests
    BY SubscriptionsAssumption
  <2>2. got[a] \in Links
    BY <1>5 DEF TypeOK, MailAlert, Parties
  <2>. QED  BY <1>5, <2>1, <2>2 DEF TypeOK, MailAlert, Parties
<1>6. CASE UNCHANGED vars
  BY <1>6 DEF TypeOK, vars
<1>. QED  BY <1>1, <1>2, <1>3, <1>4, <1>5, <1>6 DEF Next

\* The model is typed, in every behaviour.
THEOREM SubscriptionsTypeCorrect == Spec => []TypeOK
  BY TypeInit, TypeStep, PTL DEF Spec

-----------------------------------------------------------------------------
(* Links *)

\* All links are typed.
LEMMA MintedType == TypeOK => Minted \in SUBSET Links
  BY DEF TypeOK, Minted

\* Whatever a step does to the row, the links it leaves are not ahead: an
\* activation moves the version past the old ones, and the one it mints is its own.
LEMMA RowStepKeeps ==
  ASSUME TypeOK, LinksInv,
         \/ SetActive
         \/ UNCHANGED <<version, epoch>> /\ (active' = active \/ active' = FALSE),
         \A l \in Minted' : l \in Minted \/ l = Link(version', epoch')
  PROVE  LinksInv'
<1>t. /\ epoch \in Nat /\ version \in Nat /\ active \in BOOLEAN
      /\ version' \in Nat /\ epoch' \in Nat
  BY SubscriptionsAssumption DEF TypeOK, SetActive
<1> SUFFICES ASSUME NEW l \in Minted' PROVE NotAhead(l)'
  BY DEF LinksInv
<1>1. CASE l = Link(version', epoch')
  BY <1>1, <1>t DEF NotAhead, Link
<1>2. CASE l \in Minted
  <2>1. NotAhead(l) /\ l.version \in Nat
    BY <1>2, MintedType, SubscriptionsAssumption DEF LinksInv, Links, Versions
  <2>2. CASE SetActive
    BY <2>1, <2>2, <1>t DEF SetActive, NotAhead
  <2>3. CASE UNCHANGED <<version, epoch>> /\ (active' = active \/ active' = FALSE)
    BY <2>1, <2>3 DEF NotAhead
  <2>. QED  BY <2>2, <2>3
<1>. QED  BY <1>1, <1>2

\* Every step of a call of subscribe preserves LinksInv.
LEMMA LinksSubscribe ==
  ASSUME TypeOK, LinksInv, NEW r \in Requests, SubscribeStep(r)
  PROVE  LinksInv'
<1>t. got \in [Parties -> Links \cup {NoLink}] /\ r \in Parties
      /\ (pc[r] = "mail" => got[r] \in Links /\ got[r] # NoLink)
  BY SubscriptionsAssumption DEF TypeOK, Parties, Links, NoLink, Link, Versions
<1>1. CASE Start(r) \/ Find(r) \/ Respond(r)
  BY <1>1, RowStepKeeps DEF Start, Find, Respond, Minted
<1>2. CASE Activate(r)
  <2>1. SetActive /\ links' = links /\ got' = [got EXCEPT ![r] = Link(version', epoch')]
    BY <1>2 DEF Activate
  <2>2. \A l \in Minted' : l \in Minted \/ l = Link(version', epoch')
    BY <1>t, <2>1 DEF Minted
  <2>. QED  BY <2>1, <2>2, RowStepKeeps
<1>3. CASE Create(r)
  <2>1. CASE version = 0
    <3>1. /\ version' = 1 /\ active' = TRUE /\ epoch' = epoch + 1 /\ ~ active
          /\ links' = links /\ got' = [got EXCEPT ![r] = Link(version', epoch')]
      BY <1>3, <2>1 DEF Create, TypeOK
    <3>2. SetActive
      BY <2>1, <3>1, SubscriptionsAssumption DEF SetActive
    <3>3. \A l \in Minted' : l \in Minted \/ l = Link(version', epoch')
      BY <1>t, <3>1 DEF Minted
    <3>. QED  BY <3>2, <3>3, RowStepKeeps
  <2>2. CASE version # 0
    BY <1>3, <2>2, RowStepKeeps DEF Create, Minted
  <2>. QED  BY <2>1, <2>2
<1>4. CASE Reactivate(r)
  BY <1>4, RowStepKeeps DEF Reactivate, Minted
<1>5. CASE Confirm(r)
  <2>1. \A l \in Minted' : l \in Minted
    BY <1>5, <1>t DEF Confirm, GoTo, Minted
  <2>. QED  BY <1>5, <2>1, RowStepKeeps DEF Confirm
<1>6. CASE Abort(r)
  <2>1. \A l \in Minted' : l \in Minted
    BY <1>6, <1>t DEF Abort, Minted
  <2>. QED  BY <1>6, <2>1, RowStepKeeps DEF Abort
<1>. QED  BY <1>1, <1>2, <1>3, <1>4, <1>5, <1>6 DEF SubscribeStep

\* Every step preserves LinksInv.
LEMMA LinksStep == TypeOK /\ LinksInv /\ [Next]_vars => LinksInv'
<1> SUFFICES ASSUME TypeOK, LinksInv, [Next]_vars PROVE LinksInv'
  OBVIOUS
<1>1. ASSUME NEW r \in Requests, SubscribeStep(r) PROVE LinksInv'
  BY <1>1, LinksSubscribe
<1>2. ASSUME NEW l \in links, Unsubscribe(l) PROVE LinksInv'
  BY <1>2, RowStepKeeps DEF Unsubscribe, SetInactive, Minted
<1>3. ASSUME NEW l \in links, LinkExpires(l) PROVE LinksInv'
  BY <1>3, RowStepKeeps DEF LinkExpires, Minted
<1>4. CASE AdminRemove
  BY <1>4, RowStepKeeps DEF AdminRemove, SetInactive, Minted
<1>5. ASSUME NEW a \in Senders, ReadSubscriber(a) PROVE LinksInv'
  <2>1. \A l \in Minted' : l \in Minted \/ l = Link(version', epoch')
    BY <1>5 DEF ReadSubscriber, Minted, TypeOK, Parties
  <2>. QED  BY <1>5, <2>1, RowStepKeeps DEF ReadSubscriber
<1>6. ASSUME NEW a \in Senders, MailAlert(a) PROVE LinksInv'
  <2>1. \A l \in Minted' : l \in Minted
    BY <1>6 DEF MailAlert, Minted, TypeOK, Parties
  <2>. QED  BY <1>6, <2>1, RowStepKeeps DEF MailAlert
<1>7. CASE UNCHANGED vars
  BY <1>7, RowStepKeeps DEF vars, Minted
<1>. QED  BY <1>1, <1>2, <1>3, <1>4, <1>5, <1>6, <1>7 DEF Next

\* What an earlier subscription has left in a mailbox cannot end a later one.
THEOREM OldLinksStayDead == Spec => []OldLinksAreDead
<1>1. Init => LinksInv
  BY DEF Init, LinksInv, Minted
<1>2. LinksInv => OldLinksAreDead
  BY DEF LinksInv, Minted, NotAhead, OldLinksAreDead
<1>. QED  BY SubscriptionsTypeCorrect, <1>1, LinksStep, <1>2, PTL DEF Spec

-----------------------------------------------------------------------------
(* Calls *)

\* Every step preserves TakesInv: only the ends of a subscription make the row
\* inactive, and they are noted by every call that runs.
LEMMA TakesStep == TypeOK /\ TakesInv /\ [Next]_vars => TakesInv'
<1> SUFFICES ASSUME TypeOK, TakesInv, [Next]_vars PROVE TakesInv'
  OBVIOUS
<1> USE DEF TypeOK, TakesInv, GoTo
<1>1. ASSUME NEW r \in Requests, SubscribeStep(r) PROVE TakesInv'
  <2>1. CASE Start(r)
    BY <2>1 DEF Start
  <2>2. CASE Find(r)
    BY <2>2 DEF Find
  <2>3. CASE Activate(r) \/ Reactivate(r)
    BY <2>3 DEF Activate, Reactivate, SetActive
  <2>4. CASE Create(r)
    BY <2>4 DEF Create
  <2>5. CASE Confirm(r) \/ Respond(r) \/ Abort(r)
    BY <2>5 DEF Confirm, Respond, Abort
  <2>. QED  BY <1>1, <2>1, <2>2, <2>3, <2>4, <2>5 DEF SubscribeStep
<1>2. ASSUME NEW l \in links, Unsubscribe(l) \/ LinkExpires(l) PROVE TakesInv'
  BY <1>2 DEF Unsubscribe, LinkExpires, SetInactive
<1>3. CASE AdminRemove
  BY <1>3 DEF AdminRemove, SetInactive
<1>4. ASSUME NEW a \in Senders, ReadSubscriber(a) \/ MailAlert(a) PROVE TakesInv'
  BY <1>4 DEF ReadSubscriber, MailAlert
<1>5. CASE UNCHANGED vars
  BY <1>5 DEF vars
<1>. QED  BY <1>1, <1>2, <1>3, <1>4, <1>5 DEF Next

\* A call of subscribe that answers leaves the address subscribed, unless the
\* subscription was ended while the call ran.
THEOREM SubscribeIsEffective == Spec => []SubscribeTakes
<1>1. Init => TakesInv
  BY DEF Init, TakesInv
<1>2. TakesInv => SubscribeTakes
  BY DEF TakesInv, SubscribeTakes
<1>. QED  BY SubscriptionsTypeCorrect, <1>1, TakesStep, <1>2, PTL DEF Spec

=============================================================================
