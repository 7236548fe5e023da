-------------------------- MODULE MCStreamingCall --------------------------
(* A call whose guests compete with a guest of one other call.             *)
EXTENDS StreamingCall

MCOthers == {"other"}
MCStrangers == {0}
MCCallOf == [g \in MCStrangers |-> "other"]
=============================================================================
