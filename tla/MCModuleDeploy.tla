--------------------------- MODULE MCModuleDeploy ---------------------------
(* Instances of ModuleDeploy for TLC, over the records of Candidates.      *)
EXTENDS ModuleDeploy

C == INSTANCE Candidates

ConfsOf(scripts) == {scripts[i].own : i \in DOMAIN scripts} \ {C!NoConf}

\* Three scripts in a row: the last of the first generation, the first cleanup
\* cut down to one leftover, and the one that takes the last conf away, which
\* here is the first one's.
Small == << C!S0135,
            [C!S0136 EXCEPT !.clears = {"0126"}],
            [C!S0143 EXCEPT !.absent = {"0126"}, !.prior = "0135"] >>
SmallConf == {"0126"} \cup ConfsOf(Small)
SmallFlags == [f \in SmallConf |-> IF f = "0126" THEN C!Granted ELSE C!Scored]
SmallModule == {"appledrm"}
SmallShipped == [m \in SmallModule |-> "2d0b5f"]
-----------------------------------------------------------------------------
Whole == INSTANCE DeployChain WITH
  Scripts <- C!Chain, Conf <- C!ChainConf, Flags <- C!ChainFlags,
  Module <- C!ChainModule, Shipped <- [m \in C!ChainModule |-> "stock"],
  Leftover <- {}, LeftArmed <- C!ChainLeftArmed, LastCleanup <- C!SecondCleanup

\* The tables of the 53 scripts meet the condition under which DeployChainProofs
\* proves that any chain is legal and clean.
ASSUME TablesFit == Whole!ChainFits
=============================================================================
