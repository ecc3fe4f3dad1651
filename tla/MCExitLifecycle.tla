-------------------------- MODULE MCExitLifecycle ---------------------------
(***************************************************************************)
(* Instances of ExitLifecycle for TLC: what may go wrong together in one   *)
(* behaviour.                                                              *)
(***************************************************************************)
EXTENDS ExitLifecycle

OneAtATime ==
    {{}, {"lost_reply"}, {"crash"}, {"delayed", "unreadable"}, {"late_trades"}, {"late_positions"}}
LostCancel == {{"lost_cancel"}}
=============================================================================
