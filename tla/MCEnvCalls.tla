----------------------------- MODULE MCEnvCalls -----------------------------
(* EnvCalls on a machine with short names: six characters, so that vxlan9   *)
(* is the last numbered VXLAN name, vxlan10 is too long to claim, eth0.1    *)
(* fits and eth0.10 does not, and no gretap name fits at all.               *)
EXTENDS EnvCalls

MCStems   == {"eth", "vxlan", "gretap"}
MCStemLen == [s \in MCStems |-> CASE s = "eth"    -> 3
                                  [] s = "vxlan"  -> 5
                                  [] s = "gretap" -> 6]
MCTens == <<10, 100, 1000>>
MCRoot == [stem |-> "eth", num |-> 0, tags |-> << >>, len |-> 4]

============================================================================
