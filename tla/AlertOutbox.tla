----------------------------- MODULE AlertOutbox -----------------------------
(***************************************************************************)
(* What the alert sender promises its subscribers, without its lock, its   *)
(* runs or its failures: an event may be mailed to a subscriber as long as *)
(* it is not recorded as delivered, and it is recorded only once a mail    *)
(* has carried it.  A record is final.                                     *)
(***************************************************************************)
EXTENDS Naturals

CONSTANTS Subscribers,   \* who can be mailed
          Fingerprints   \* the identities of the alert events

VARIABLES mailed,        \* mails that carried an event to a subscriber, counted
          recorded       \* the events recorded as delivered, per subscriber

outboxVars == <<mailed, recorded>>

OutboxInit ==
    /\ mailed = [s \in Subscribers |-> [e \in Fingerprints |-> 0]]
    /\ recorded = [s \in Subscribers |-> {}]

\* One grouped mail: it carries only events that are not recorded yet.
Mail(s, E) ==
    /\ E # {}
    /\ E \cap recorded[s] = {}
    /\ mailed' = [mailed EXCEPT ![s] =
                    [e \in Fingerprints |-> IF e \in E THEN @[e] + 1 ELSE @[e]]]
    /\ UNCHANGED recorded

\* The record of a mail: only events a mail has carried.
Record(s, E) ==
    /\ \A e \in E : mailed[s][e] > 0
    /\ recorded' = [recorded EXCEPT ![s] = @ \cup E]
    /\ UNCHANGED mailed

OutboxNext ==
    \E s \in Subscribers, E \in SUBSET Fingerprints : Mail(s, E) \/ Record(s, E)

OutboxSpec == OutboxInit /\ [][OutboxNext]_outboxVars
=============================================================================
