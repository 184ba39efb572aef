-------------------------- MODULE MCConcurrentBFS --------------------------
(* Three nodes, every graph whose adjacency lists have at most two        *)
(* distinct entries (self-loops included), plus lists that repeat a       *)
(* neighbour; two workers, and three queries with a repeated start.       *)
EXTENDS ConcurrentBFS

MCNodes == {1, 2, 3}

MCLists == {l \in SeqOf(MCNodes, 2) : IsInjective(l)} \cup {<<2, 2>>, <<1, 1>>}

MCAdjacency == [MCNodes -> MCLists]

MCQueries == <<1, 2, 1>>
=============================================================================
