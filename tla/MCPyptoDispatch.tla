--------------------------- MODULE MCPyptoDispatch ---------------------------
(* The distributed programs and the probes, compiled with tokens where a      *)
(* rank's wait and send are different dispatches that nothing else orders.    *)
EXTENDS PyptoDispatch

AsNeeded ==
  {<<p, FALSE>> : p \in {"allscan", "allscan_backward", "forward", "stub_reverse",
                         "stub_forward"} \cup (Probes \ {"both", "sendfirst"})}
  \cup {<<p, TRUE>> : p \in {"backward", "both", "sendfirst"}}
NoTokens == {<<"backward", FALSE>>}
=============================================================================
