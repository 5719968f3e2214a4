---------------------------- MODULE PluginExecutor ----------------------------
(***************************************************************************)
(* The order of the plugins: plugin-engine/PluginExecutor.ts.  deps gives  *)
(* the dependencies of each plugin, in the order of its manifest; active   *)
(* is the set activePluginIds in the order of insertion, on the same as a  *)
(* set.                                                                    *)
(*                                                                         *)
(* The loops are recursive functions of the position, so that what they    *)
(* compute can be proved (PluginsProofs).                                  *)
(*                                                                         *)
(* Not modelled: the messages for the log.                                 *)
(***************************************************************************)
EXTENDS Naturals, FiniteSets, Sequences, SequencesExt

\* Where the depth-first search is; ok is what the last visit returned.
Searches(plugins) ==
    [order : Seq(plugins), visited : SUBSET plugins, visiting : SUBSET plugins, ok : BOOLEAN]

Unvisited == [order |-> <<>>, visited |-> {}, visiting |-> {}, ok |-> TRUE]

Entered(p, search) ==
    [order |-> search.order, visited |-> search.visited,
     visiting |-> search.visiting \cup {p}, ok |-> TRUE]

\* BUG variant: a plugin that was added to the order is not marked as visited.
MutantLeft(p, search) ==
    [order |-> Append(search.order, p), visited |-> search.visited,
     visiting |-> search.visiting \ {p}, ok |-> TRUE]

Left(p, search) ==
    [order |-> Append(search.order, p), visited |-> search.visited \cup {p},
     visiting |-> search.visiting \ {p}, ok |-> TRUE]

\* The loop of visit() over the dependencies of p: one that is not active is skipped,
\* one whose visit fails ends the loop.
VisitDependencies(visit, p, search, deps, on) ==
    LET after[i \in 0..Len(deps[p])] ==
            IF i = 0 THEN Entered(p, search)
            ELSE LET last == after[i - 1]
                     d == deps[p][i]
                 IN  IF last.ok /\ d \in on THEN visit[<<d, last>>] ELSE last
    IN  after[Len(deps[p])]

\* visit() of p, with visit for the visits it makes: a cycle ends the visits on the way
\* to it, which stay in visiting.
VisitOne(visit, p, search, deps, on) ==
    IF p \in search.visited THEN [search EXCEPT !.ok = TRUE]
    ELSE IF p \in search.visiting THEN [search EXCEPT !.ok = FALSE]
    ELSE LET below == VisitDependencies(visit, p, search, deps, on)
         IN  IF below.ok THEN Left(p, below) ELSE below

Visit(deps, on) ==
    LET visit[call \in (DOMAIN deps) \X Searches(DOMAIN deps)] ==
            VisitOne(visit, call[1], call[2], deps, on)
    IN  visit

ResolveDependencyOrder(deps, active) ==
    LET visit == Visit(deps, ToSet(active))
        after[i \in 0..Len(active)] ==
            IF i = 0 THEN Unvisited ELSE visit[<<active[i], after[i - 1]>>]
    IN  after[Len(active)].order

CanActivate(p, deps, active) == ToSet(deps[p]) \subseteq ToSet(active)

CanDeactivate(p, deps, active) ==
    \A q \in ToSet(active) \ {p} : p \notin ToSet(deps[q])

-----------------------------------------------------------------------------
\* What the order is for: every active plugin once and after its active dependencies,
\* but for the plugins that a cycle blocks: those in a set of which each member needs
\* another.
InOrder(order, deps, active) ==
    LET on == ToSet(active)
        needs(p) == on \cap ToSet(deps[p])
        blocked(p) == \E s \in SUBSET on : p \in s /\ \A q \in s : needs(q) \cap s # {}
    IN  /\ IsInjective(order)
        /\ ToSet(order) = {p \in on : ~blocked(p)}
        /\ \A i, j \in DOMAIN order : order[j] \in needs(order[i]) => j < i
=============================================================================
