---------------------------- MODULE MCDeployChain ----------------------------
(* DeployChain over all the records of Candidates.                         *)
EXTENDS DeployChain, Candidates

ChainShipped == [m \in ChainModule |-> "stock"]

-----------------------------------------------------------------------------
\* "Drops usb4_protocol_probe=1 and usb4_native_dpin=1 from the module options"
\* (manage-0140.py): with 0140 installed, no boot gets either.
DroppedFlags ==
  done # 0 /\ Scripts[done].id = "0140" =>
    LiveFlags(image) \cap {"usb4_protocol_probe", "usb4_native_dpin"} = {}
=============================================================================
