---------------------------- MODULE EntryCustody ----------------------------
(***************************************************************************)
(* What the entry pause promises, whatever it is called meanwhile: who may *)
(* take entries into custody and who may give them back.  The machine (the *)
(* recovery thread, reconciliation, the runtime, the heartbeat) never      *)
(* displaces a human and never ends a human's custody; every change of     *)
(* hands takes a new ticket (pause_generation), and entries are given back *)
(* under the ticket they are held with.                                    *)
(***************************************************************************)
EXTENDS Naturals

VARIABLES
    custodian,  \* who holds the entries: "nobody", "machine" or "human"
    ticket,     \* pause_generation
    resuming    \* an operator's resume is about to release

custodyVars == <<custodian, ticket, resuming>>

Custodians == {"nobody", "machine", "human"}

CustodyInit ==
    /\ custodian \in Custodians
    /\ ticket \in Nat
    /\ resuming = FALSE

NewTicket == ticket' \in Nat /\ ticket' > ticket

MachineTakes ==
    /\ custodian = "nobody" /\ custodian' = "machine"
    /\ NewTicket /\ UNCHANGED resuming

HumanTakes ==
    /\ custodian' = "human"
    /\ NewTicket /\ UNCHANGED resuming

\* the pause gets another cause or policy, in the same hands
Reissue ==
    /\ custodian # "nobody" /\ NewTicket
    /\ UNCHANGED <<custodian, resuming>>

ResumeBegins ==
    /\ ~resuming /\ resuming'
    /\ UNCHANGED <<custodian, ticket>>

ResumeEnds ==
    /\ resuming /\ ~resuming'
    /\ UNCHANGED <<custodian, ticket>>

MachineGivesBack ==
    /\ custodian = "machine" /\ custodian' = "nobody"
    /\ UNCHANGED <<ticket, resuming>>

HumanGivesBack ==
    /\ resuming /\ ~resuming'
    /\ custodian # "nobody" /\ custodian' = "nobody"
    /\ UNCHANGED ticket

CustodyNext ==
    \/ MachineTakes \/ HumanTakes \/ Reissue
    \/ ResumeBegins \/ ResumeEnds
    \/ MachineGivesBack \/ HumanGivesBack

CustodySpec == CustodyInit /\ [][CustodyNext]_custodyVars
=============================================================================
