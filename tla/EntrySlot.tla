------------------------------ MODULE EntrySlot ------------------------------
(***************************************************************************)
(* What the entry path promises about money, whatever the code does to     *)
(* keep it: one entry order at a time may buy, none is sent while shares   *)
(* are held, and an event that was bought is not bought again.             *)
(***************************************************************************)
CONSTANT Entries  \* pairs <<event, attempt>>

VARIABLES
    out,     \* the entries whose order may still buy
    bought,  \* the entries whose order bought shares
    held     \* the events with shares

slotVars == <<out, bought, held>>

SlotInit == out = {} /\ bought = {} /\ held = {}

\* an order goes out
Place(o) ==
    /\ out = {} /\ held = {} /\ \A b \in bought : b[1] # o[1]
    /\ out' = {o}
    /\ UNCHANGED <<bought, held>>

Buy(o) ==
    /\ o \in out
    /\ out' = {} /\ bought' = bought \cup {o} /\ held' = {o[1]}

\* the order died unfilled
Lapse(o) ==
    /\ o \in out
    /\ out' = {} /\ UNCHANGED <<bought, held>>

Sell ==
    /\ held' = {} /\ UNCHANGED <<out, bought>>

SlotNext == Sell \/ \E o \in Entries : Place(o) \/ Buy(o) \/ Lapse(o)

SlotSpec == SlotInit /\ [][SlotNext]_slotVars
=============================================================================
