----------------------------- MODULE MCPlatform -----------------------------
(* Releases with new images, or a new configuration only, of Drive or not. *)
EXTENDS Platform

MCReleases ==
  {[changed |-> {"drive"}, images |-> {"drive"}],
   [changed |-> {"drive"}, images |-> {}],
   [changed |-> {"drive", "tenderdash"}, images |-> {"drive", "tenderdash"}],
   [changed |-> {"drive", "tenderdash", "gateway"}, images |-> {"gateway"}],
   [changed |-> {"tenderdash"}, images |-> {"tenderdash"}]}

\* A dashmate helper that renders another configuration of Drive.
MCHelper == {[changed |-> {"drive"}, images |-> {}]}
=============================================================================
