----------------------------- MODULE MCCampaign ------------------------------
(* Instances of Campaign for TLC.                                           *)
EXTENDS Campaign

MCScenarios == <<1>>
MCPolicies == <<"fifo", "sff">>

(* A server whose port is 10000 only as an unsigned short, one whose        *)
(* directory does not exist, and a command line that is refused.            *)
MCByHand ==
  { [program |-> "CodeBase", args |-> <<Opt("p", 75536)>>],
    [program |-> "wserver", args |-> <<Opt("d", "nowhere")>>],
    [program |-> "CodeBase", args |-> <<Opt("s", "sff")>>] }
=============================================================================
