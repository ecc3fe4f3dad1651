---------------------------- MODULE MCFrameQueue -----------------------------
(***************************************************************************)
(* The frames of one market, whose two tokens both have stop edges.        *)
(***************************************************************************)
EXTENDS FrameQueue

OneMarket == [t \in Tokens |-> CHOOSE c \in Conditions : TRUE]
=============================================================================
