----------------------------- MODULE MCWatchdog -----------------------------
(* Constants of the Watchdog runs: a sensor node and the runtime node.     *)
EXTENDS Watchdog

MCNodes == {"sensor_sim_node", "runtime_node"}
MCRuntime == "runtime_node"
=============================================================================
