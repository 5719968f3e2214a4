------------------------------ MODULE MCScheduler ------------------------------
(***************************************************************************)
(* Instances of ContainerPluginScheduler for TLC.                          *)
(***************************************************************************)
EXTENDS ContainerPluginScheduler

\* Two different files.
MCPaths      == {"a", "b"}
MCHashes     == {"A", "B"}
MCDistinct   == [p \in MCPaths |-> IF p = "a" THEN "A" ELSE "B"]

\* Two copies of one file, and a different file that competes for the slot.
MCThreePaths   == {"a", "b", "c"}
MCCopyAndOther == [p \in MCThreePaths |-> IF p = "c" THEN "B" ELSE "A"]

\* The smallest set of plugins with both queues and a dependency across them.
MCPlugins   == {"info", "tmdb"}
MCOrder     == [x \in MCPlugins |-> IF x = "tmdb" THEN 2 ELSE 1]
MCQueueOf   == [x \in MCPlugins |-> IF x = "tmdb" THEN "background" ELSE "fast"]
MCDependsOn == [x \in MCPlugins |-> IF x = "tmdb" THEN {"info"} ELSE {}]

\* A background plugin alone.
MCBackground      == {"tmdb"}
MCBackgroundOrder == [x \in MCBackground |-> 1]
MCBackgroundQueue == [x \in MCBackground |-> "background"]
MCNoDependencies  == [x \in MCBackground |-> {}]

MCUnstable == {"tmdb"}

\* One slot per phase, so that the second file has to wait for it, and two
\* jobs at a time, so that jobs of one file overlap.
MCOneSlot     == [q \in Queues |-> 1]
MCConcurrency == [q \in Queues |-> 2]
=============================================================================
