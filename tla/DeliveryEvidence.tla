-------------------------- MODULE DeliveryEvidence --------------------------
(***************************************************************************)
(* The evidence a send record accumulates while its signed message is on   *)
(* its way (cc-wallet-domain/src/journal.rs, DeliveryEvidence) and the     *)
(* transitions the Journal accepts between two pieces of evidence.         *)
(*                                                                         *)
(* A piece of evidence is its tag and the attempt number it is bound to;   *)
(* evidence that is not attempt-bound has attempt 0.  Route ids, request   *)
(* ids, proof references and texts are left out: no rule about ordering    *)
(* depends on them once they equal the frozen values of the ticket.        *)
(***************************************************************************)
EXTENDS Naturals

CONSTANT MaxAttemptNo   \* the largest attempt_no: a u32 in the code

ASSUME MaxAttemptNoAssumption == MaxAttemptNo \in Nat \ {0}

BlockingTags == {"Prepared", "AttemptStarted", "MayHaveBroadcast",
                 "NodeResponseObserved", "EndpointReportedSuccess",
                 "EndpointReportedFailedOnChain"}

TerminalTags == {"VerifiedTerminalSuccess", "VerifiedTerminalFailedOnChain",
                 "NotBroadcast"}

EvidenceTags == BlockingTags \cup TerminalTags

AttemptTags == {"AttemptStarted", "MayHaveBroadcast", "NodeResponseObserved"}

EndpointTags == {"EndpointReportedSuccess", "EndpointReportedFailedOnChain"}

VerifiedTags == {"VerifiedTerminalSuccess", "VerifiedTerminalFailedOnChain"}

\* DeliveryEvidence::validate: attempt-bound evidence names a positive attempt.
WellFormed(e) == e.tag \in AttemptTags <=> e.attempt # 0

Evidence == {e \in [tag : EvidenceTags, attempt : 0..MaxAttemptNo] : WellFormed(e)}

Ev(tag, n) == [tag |-> tag, attempt |-> n]

Prepared == Ev("Prepared", 0)
NotBroadcast == Ev("NotBroadcast", 0)
AttemptStarted(n) == Ev("AttemptStarted", n)
MayHaveBroadcast(n) == Ev("MayHaveBroadcast", n)
NodeResponseObserved(n) == Ev("NodeResponseObserved", n)

\* A plausible slip: "may have been broadcast" no longer blocks signing.
MutUnknownDoesNotBlock(tag) == tag \in BlockingTags \ {"MayHaveBroadcast"}

\* EvidenceTag::is_blocking
IsBlocking(tag) == tag \in BlockingTags

\* A plausible slip in the match arms: any attempt number may follow another.
MutAnyAttempt(p, n) ==
    \/ p.tag = "Prepared" /\ (n.tag = "AttemptStarted" \/ n.tag = "NotBroadcast")
    \/ p.tag = "AttemptStarted" /\ n.tag \in EvidenceTags \ {"Prepared"}
    \/ p.tag \in AttemptTags /\ n.tag \in EndpointTags
    \/ p.tag \in AttemptTags \cup EndpointTags /\ n.tag \in VerifiedTags

\* valid_delivery_transition
ValidDeliveryTransition(p, n) ==
    \/ p.tag = "Prepared" /\ (n = AttemptStarted(1) \/ n.tag = "NotBroadcast")
    \/ /\ p.tag = "AttemptStarted"
       /\ \/ /\ n.tag = "AttemptStarted"
             /\ n.attempt = p.attempt + 1
             /\ p.attempt < MaxAttemptNo
          \/ /\ n.tag \in {"MayHaveBroadcast", "NodeResponseObserved"}
             /\ n.attempt = p.attempt
          \/ n.tag = "NotBroadcast"
    \/ p.tag \in AttemptTags /\ n.tag \in EndpointTags
    \/ p.tag \in AttemptTags \cup EndpointTags /\ n.tag \in VerifiedTags
=============================================================================
