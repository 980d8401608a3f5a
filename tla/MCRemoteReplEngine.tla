-------------------------- MODULE MCRemoteReplEngine --------------------------
(* Instances of RemoteReplEngine for TLC. *)
EXTENDS EngineQueue, TLC

CONSTANTS Beats, Ttls, Lapses, Losses, Crashes, Chunks, Faults

MCBudget == [k \in Kind |->
    CASE k = "beat"  -> Beats   [] k = "ttl"   -> Ttls    [] k = "lapse" -> Lapses
      [] k = "loss"  -> Losses  [] k = "crash" -> Crashes [] k = "chunk" -> Chunks
      [] k = "fault" -> Faults]

Symmetry == Permutations(Instance) \cup Permutations(Command)

=============================================================================
