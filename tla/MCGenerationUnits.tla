-------------------------- MODULE MCGenerationUnits --------------------------
(* The packages on sale in the model-checked instance of GenerationUnits. *)
EXTENDS GenerationUnits

SomePackages == {[bucket |-> "flexible", units |-> 2]}

=============================================================================
