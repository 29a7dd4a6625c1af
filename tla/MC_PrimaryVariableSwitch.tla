---------------------- MODULE MC_PrimaryVariableSwitch ----------------------
(* The box method: three elements around an inner vertex i and a vertex d  *)
(* on the boundary; the element "middle" touches the boundary in d alone.  *)
EXTENDS PrimaryVariableSwitch

BoxOrder == <<"left", "middle", "right">>
BoxDofs == [e \in {"left", "middle", "right"} |-> {"d", "i"}]
NoStencil == [f \in {} |-> {}]
=============================================================================
