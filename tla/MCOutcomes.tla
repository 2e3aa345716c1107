----------------------------- MODULE MCOutcomes -----------------------------
(* Instances of Outcomes for TLC; the bounds are in the .cfg files.        *)
EXTENDS Outcomes

CONSTANTS bot, script

MCWorkers == {bot, script}
MCStuck == {1}
=============================================================================
