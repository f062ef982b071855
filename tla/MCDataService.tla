--------------------------- MODULE MCDataService ---------------------------
(***************************************************************************)
(* Two jobs, one of which needs a config the service could derive, and an  *)
(* input dataset of each kind; the config is there or not, for good or     *)
(* until a time.                                                           *)
(***************************************************************************)
EXTENDS DataService, TLC

CONSTANTS j1, j2, forcing, config, out1, out2

MCJobs == {j1, j2}
MCInputs == {forcing, config}
MCOutputs == {out1, out2}
MCOutputOf == j1 :> out1 @@ j2 :> out2
MCKindOf == forcing :> "forcing" @@ config :> "config"
MCNeeds == j1 :> {"forcing"} @@ j2 :> {"forcing", "config"}
MCStores == {out1 :> Absent @@ out2 :> Absent @@ forcing :> Never @@ config :> e :
                e \in {Absent, Never} \union 0 .. MaxTime}
=============================================================================
