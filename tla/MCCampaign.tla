----------------------------- MODULE MCCampaign -----------------------------
(* Instances of Campaign for TLC; every constant has its value in the cfg.   *)
EXTENDS Campaign
=============================================================================
