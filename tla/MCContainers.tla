------------------------------ MODULE MCContainers ------------------------------
(***************************************************************************)
(* An instance of ContainerManager for TLC.                                *)
(***************************************************************************)
EXTENDS ContainerManager, MCDashboard, MCPluginContext

MCPlugins  == {"a", "b"}
\* Two instances of one plugin, so that a spawn or a stop can be cut in two.
MCCount    == [p \in MCPlugins |-> IF p = "a" THEN 2 ELSE 1]
MCNames    == {<<s, s>> : s \in Slots}
MCRequests == {2, 3}
MCIds      == 1..5
\* The file to begin with names an environment variable; a request may bring a
\* configuration that the parser of the file refuses, such as one with no instances.
MCVersions == {"v1", "v2", "${V}"}
MCGiven    == {"v1", "v2"}
MCLoaded   == [v \in MCVersions |-> IF v = "v2" THEN "refused" ELSE "v1"]
MCFiles    == {[p \in MCPlugins |-> IF p = "a" THEN "${V}" ELSE "none"]}
=============================================================================
