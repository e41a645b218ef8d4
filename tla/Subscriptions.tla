---------------------------- MODULE Subscriptions ----------------------------
(***************************************************************************)
(* The alert subscription of one e-mail address: calls of                  *)
(* NotificationsService.subscribe and unsubscribe, the admin's removal, and*)
(* the mails that carry a one-click unsubscribe link, sent by the API on   *)
(* subscription and by the worker with every alert.                        *)
(*                                                                         *)
(* A call of subscribe is a chain of queries between which other calls,    *)
(* removals and mails fall.  A link is a signed token with the subscriber's*)
(* unsubscribeVersion at the time the row was read; an expired token is a  *)
(* link that is no longer there.                                           *)
(***************************************************************************)
EXTENDS Naturals

CONSTANTS
    Requests,    \* concurrent calls of subscribe for the address
    Senders,     \* concurrent alert mails to the address
    MaxVersion   \* bound: the last unsubscribeVersion

ASSUME SubscriptionsAssumption ==
    /\ MaxVersion \in Nat \ {0}
    /\ Requests \cap Senders = {}

VARIABLES
    version,     \* unsubscribeVersion of the row, 0 when there is no row
    active,      \* status = "active" and buyAlertEnabled, always set together
    links,       \* the unexpired links in the subscriber's mailbox
    pc,          \* where each call of subscribe stands
    got,         \* the row a call or an alert has read, as the link it mints
    \* observations, not part of the program
    epoch,       \* how often the subscription has begun
    ended        \* the subscription was ended while the call ran

vars == <<version, active, links, pc, got, epoch, ended>>

Versions == 1 .. MaxVersion

\* A link, and the subscription it was minted in.
Link(v, e) == [version |-> v, epoch |-> e]
Links == [version : Versions, epoch : Nat]
NoLink == Link(0, 0)

Parties == Requests \cup Senders

Labels == {"idle", "find", "activate", "create", "reactivate", "mail", "respond"}

Init ==
    /\ version = 0 /\ active = FALSE
    /\ links = {}
    /\ pc = [r \in Requests |-> "idle"]
    /\ got = [p \in Parties |-> NoLink]
    /\ epoch = 0
    /\ ended = [r \in Requests |-> FALSE]

-----------------------------------------------------------------------------
(* subscribe *)

GoTo(r, from, to) ==
    /\ pc[r] = from
    /\ pc' = [pc EXCEPT ![r] = to]

Start(r) ==
    /\ GoTo(r, "idle", "find")
    /\ ended' = [ended EXCEPT ![r] = FALSE]
    /\ UNCHANGED <<version, active, links, got, epoch>>

\* Faulty variant: any row counts as a subscription.
FindAnyRow(r) ==
    /\ GoTo(r, "find", IF version # 0 THEN "respond" ELSE "create")
    /\ UNCHANGED <<version, active, links, got, epoch, ended>>

\* findUnique: already active, known but not active, or unknown.
Find(r) ==
    /\ GoTo(r, "find", IF version # 0 /\ active THEN "respond"
                       ELSE IF version # 0 THEN "activate" ELSE "create")
    /\ UNCHANGED <<version, active, links, got, epoch, ended>>

\* Faulty variant: the version is not incremented.
SetActiveOnly ==
    /\ active' = TRUE
    /\ UNCHANGED version
    /\ epoch' = IF active THEN epoch ELSE epoch + 1

\* activateSubscriber: active again, under the next version, whatever the row is
\* by now.
SetActive ==
    /\ version < MaxVersion
    /\ active' = TRUE
    /\ version' = version + 1
    /\ epoch' = IF active THEN epoch ELSE epoch + 1

Activate(r) ==
    /\ GoTo(r, "activate", "mail")
    /\ SetActive
    /\ got' = [got EXCEPT ![r] = Link(version', epoch')]
    /\ UNCHANGED <<links, ended>>

\* create: the email is unique, so the row may have appeared meanwhile (P2002).
Create(r) ==
    IF version = 0
    THEN /\ GoTo(r, "create", "mail")
         /\ version' = 1 /\ active' = TRUE /\ epoch' = epoch + 1
         /\ got' = [got EXCEPT ![r] = Link(1, epoch')]
         /\ UNCHANGED <<links, ended>>
    ELSE /\ GoTo(r, "create", "reactivate")
         /\ UNCHANGED <<version, active, links, got, epoch, ended>>

\* Faulty variant: a confirmation of a row that was never read.
ReactivateAndMail(r) ==
    /\ GoTo(r, "reactivate", "mail")
    /\ SetActive
    /\ UNCHANGED <<links, got, ended>>

\* After P2002 the row is activated and reported as already subscribed: no mail.
Reactivate(r) ==
    /\ GoTo(r, "reactivate", "respond")
    /\ SetActive
    /\ UNCHANGED <<links, got, ended>>

\* sendSubscriptionConfirmation: sent with a link, or an error that is caught.
Confirm(r) ==
    /\ GoTo(r, "mail", "respond")
    /\ links' \in {links, links \cup {got[r]}}
    /\ got' = [got EXCEPT ![r] = NoLink]
    /\ UNCHANGED <<version, active, epoch, ended>>

Respond(r) ==
    /\ GoTo(r, "respond", "idle")
    /\ UNCHANGED <<version, active, links, got, epoch, ended>>

\* A query throws or the process crashes, before or after its effect.
Abort(r) ==
    /\ pc[r] # "idle"
    /\ pc' = [pc EXCEPT ![r] = "idle"]
    /\ got' = [got EXCEPT ![r] = NoLink]
    /\ UNCHANGED <<version, active, links, epoch, ended>>

-----------------------------------------------------------------------------
(* The ends of a subscription *)

SetInactive ==
    /\ active' = FALSE
    /\ ended' = [r \in Requests |-> TRUE]
    /\ UNCHANGED <<version, links, pc, got, epoch>>

\* unsubscribe with a token that verifies: updateMany where version and status match.
Unsubscribe(l) ==
    /\ version = l.version /\ active
    /\ SetInactive

\* removeNotificationSubscriber: the version stays as it is.
AdminRemove ==
    /\ version # 0
    /\ SetInactive

\* A token is 30 days old.
LinkExpires(l) ==
    /\ links' = links \ {l}
    /\ UNCHANGED <<version, active, pc, got, epoch, ended>>

-----------------------------------------------------------------------------
(* Alert mails: sendBuyAlerts reads the subscribers, and mails them later *)

ReadSubscriber(a) ==
    /\ got[a] = NoLink
    /\ active
    /\ got' = [got EXCEPT ![a] = Link(version, epoch)]
    /\ UNCHANGED <<version, active, links, pc, epoch, ended>>

\* The mail arrives with its link, or it is not sent.
MailAlert(a) ==
    /\ got[a] # NoLink
    /\ links' \in {links, links \cup {got[a]}}
    /\ got' = [got EXCEPT ![a] = NoLink]
    /\ UNCHANGED <<version, active, pc, epoch, ended>>

-----------------------------------------------------------------------------
(* The specification *)

SubscribeStep(r) ==
    \/ Start(r) \/ Find(r) \/ Activate(r) \/ Create(r) \/ Reactivate(r)
    \/ Confirm(r) \/ Respond(r) \/ Abort(r)

Next ==
    \/ \E r \in Requests : SubscribeStep(r)
    \/ \E l \in links : Unsubscribe(l) \/ LinkExpires(l)
    \/ AdminRemove
    \/ \E a \in Senders : ReadSubscriber(a) \/ MailAlert(a)

Spec == Init /\ [][Next]_vars

-----------------------------------------------------------------------------
(* Properties *)

TypeOK ==
    /\ version \in 0 .. MaxVersion
    /\ active \in BOOLEAN /\ (active => version # 0)
    /\ links \in SUBSET Links
    /\ pc \in [Requests -> Labels]
    /\ got \in [Parties -> Links \cup {NoLink}]
    /\ \A r \in Requests : pc[r] = "mail" => got[r] \in Links
    /\ epoch \in Nat
    /\ ended \in [Requests -> BOOLEAN]

\* A link that unsubscribes now was minted in the very subscription it ends:
\* what an earlier subscription has left in a mailbox, or still on its way,
\* cannot end a later one.
OldLinksAreDead ==
    \A l \in links : version = l.version /\ active => l.epoch = epoch

\* A call of subscribe that is about to answer leaves the address subscribed,
\* unless somebody ended the subscription while the call ran.
SubscribeTakes ==
    \A r \in Requests : pc[r] = "respond" => active \/ ended[r]

\* README: the tokens in delivered mails remain valid.  A link that was minted in
\* the subscription that is still active unsubscribes.
DeliveredLinksWork ==
    \A l \in links : active /\ l.epoch = epoch => l.version = version

\* The inductive form of OldLinksAreDead: links still to be mailed are included,
\* and no link is ahead of the row.
NotAhead(l) ==
    /\ l.version <= version
    /\ version = l.version /\ active => l.epoch = epoch

Minted == links \cup ({got[p] : p \in Parties} \ {NoLink})

LinksInv == \A l \in Minted : NotAhead(l)

\* The inductive form of SubscribeTakes.
TakesInv == \A r \in Requests : pc[r] \in {"mail", "respond"} => active \/ ended[r]

IInv == TypeOK /\ LinksInv /\ TakesInv
=============================================================================
