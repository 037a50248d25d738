---------------------------- MODULE MCGraphSplit ----------------------------
(* The walk of every rank over every layer count up to MaxLayers, for      *)
(* every window vector within the bounds of the configuration file.        *)
EXTENDS GraphSplit

=============================================================================
