----------------------------- MODULE ExitCustody ----------------------------
(***************************************************************************)
(* What the exit of a position is promised, whoever sells it: one sell at  *)
(* a time, and never two stops or closes, whatever was lost; proceeds only *)
(* of shares that were sold; and a latched stop that stays latched.        *)
(***************************************************************************)
EXTENDS Naturals

CONSTANTS Sells, Lot

VARIABLES
    orderly,  \* no order that stands can have been lost from sight
    selling,  \* the sells that may still be filled
    exits,    \* those of them that are no take-profits
    sold,     \* shares sold
    booked,   \* shares whose proceeds are booked
    stop      \* the stop is latched

custodyVars == <<selling, exits, sold, booked, stop>>

CustodyInit == selling = {} /\ exits = {} /\ sold = 0 /\ booked = 0 /\ stop = FALSE

\* a sell; beside another only when that one was lost from sight, and beside
\* an exit only as a take-profit
Offer ==
    /\ orderly => selling = {}
    /\ \E s \in Sells :
        /\ selling' = selling \cup {s}
        /\ exits' = exits \/ (exits = {} /\ exits' = {s})
    /\ UNCHANGED <<sold, booked, stop>>

\* some of it is sold; a sell ends when it is, or for another reason
Trade ==
    /\ selling # {}
    /\ sold' \in sold..Lot
    /\ selling' \in SUBSET selling
    /\ exits' = exits \cap selling'
    /\ UNCHANGED <<booked, stop>>

\* what was sold is booked; an exit that was a stop stays one
Book ==
    /\ UNCHANGED <<selling, exits, sold>>
    /\ booked' \in booked..sold
    /\ stop => stop'

CustodySpec == CustodyInit /\ [][Book \/ Trade \/ Offer]_custodyVars
=============================================================================
