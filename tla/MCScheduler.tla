----------------------------- MODULE MCScheduler -----------------------------
EXTENDS Scheduler, TLC

CONSTANTS w1, w2

TwoWorkers == {w1, w2}
TwoIds     == {1, 2}
LastFails  == {2}

\* A target of its own, run once; a template with credentials, every two ticks.
SmallPlan ==
  1 :> [period |-> Once, template |-> FALSE, creds |-> FALSE] @@
  2 :> [period |-> 2, template |-> TRUE, creds |-> TRUE]

=============================================================================
