-------------------------- MODULE MCMutationMatrix --------------------------
(* The instance TLC checks: four mutators, a phase boundary inside a wave.  *)
EXTENDS MutationMatrix
MCPlan == <<"create", "create", "update", "destructive">>
MCKeys == {1, Seed}
(* The impact map names the table of the first create and has a gap at the second. *)
MCTableOf == <<"messages", "drafts", "calls", "calls">>
MCImpact == << {"messages"}, {}, {}, {} >>
=============================================================================
