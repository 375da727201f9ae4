------------------------------ MODULE MCOnDevice ------------------------------
(***************************************************************************)
(* The instance of OnDevice.cfg: two agents, whose model configs differ.   *)
(***************************************************************************)
EXTENDS OnDevice

CONSTANTS a1, a2

MCMaxTokens == "good" :> 2 @@ "bad" :> 2
MCConfigOf == a1 :> "good" @@ a2 :> "bad"
===============================================================================
