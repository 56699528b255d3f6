---------------------------- MODULE MCBackground -----------------------------
(* What the agent does in the background: the refresh of cached DIDs and the  *)
(* interval of the sync engine.  They share nothing, so a behaviour has one   *)
(* of them and leaves the other where it starts.                              *)
EXTENDS DidResolverCache, SyncTimer

VARIABLE shown

MCInit == Init /\ TimerInit /\ shown \in {"cache", "timer"}
MCNext ==
    \/ shown = "cache" /\ Next /\ UNCHANGED <<timerVars, shown>>
    \/ shown = "timer" /\ TimerNext /\ UNCHANGED <<vars, shown>>

\* Fairness is asked of the part that is shown.
MCSpec ==
    /\ MCInit /\ [][MCNext]_<<vars, timerVars, shown>>
    /\ shown = "cache" => Fairness
    /\ shown = "timer" => TimerFairness
=============================================================================
