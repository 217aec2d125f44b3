------------------------------ MODULE MCCoreCalls ------------------------------
(* One thread that polls and one for the user's calls; four messages in     *)
(* pages of two, the third of media alone and the fourth malformed.         *)
EXTENDS CoreCalls, TLC
CONSTANTS poller, poller2, user, asset, unset
================================================================================
