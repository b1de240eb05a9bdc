------------------------- MODULE MCModelTaskService -------------------------
(* A small machine for ModelTaskService: two workers, a light model and a  *)
(* heavy one, and reserves that leave room for one job.                    *)
EXTENDS ModelTaskService, TLC

CONSTANTS light, heavy

\* Light and heavy fit beside each other, two heavy ones do not.
LightAndHeavy == light :> 1 @@ heavy :> 3
OneEach       == [f \in Foreground |-> 1]
OneToRender   == "Realtime" :> 0 @@ "Render" :> 1
NoneOrBoth    == {{}, Foreground}
=============================================================================
