----------------------------- MODULE MCCampaign -----------------------------
(* Two campaigns on the same cards: one screens a changed source and serves it,
   the other serves the selected one.                                        *)
EXTENDS Campaign, TLC

CONSTANTS k1, k2, screen, changed, plain, x, y

TwoControllers == {k1, k2}
ThreeJobs == {screen, changed, plain}
Campaigns == (screen :> k1) @@ (changed :> k1) @@ (plain :> k2)
Kinds == (screen :> "component") @@ (changed :> "serving") @@ (plain :> "serving")
Sources == (screen :> x) @@ (changed :> x) @@ (plain :> y)
=============================================================================
