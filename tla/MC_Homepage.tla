---------------------------- MODULE MC_Homepage ----------------------------
(* The three features of the site (FeatureList) as records of model       *)
(* values; the page is rendered for every list of up to four of them.     *)
EXTENDS Homepage, TLC

CONSTANTS tFast, tAccurate, tModular, svgRocket, svgAim, svgModular,
          dFast, dAccurate, dModular

MC_Features ==
  { [title |-> tFast,     Svg |-> svgRocket,  description |-> dFast],
    [title |-> tAccurate, Svg |-> svgAim,     description |-> dAccurate],
    [title |-> tModular,  Svg |-> svgModular, description |-> dModular] }
=============================================================================
