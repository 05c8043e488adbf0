----------------------------- MODULE MCDataSide -----------------------------
(* DataSide for model checking: four lines, of which three share a set and *)
(* two a tag, and the programs that make them meet.                        *)
EXTENDS DataSide

CONSTANTS a, x, y, z

MCTag == [l \in {a, x, y, z} |-> IF l = y THEN a ELSE l]
MCIndex == [l \in {a, x, y, z} |-> IF l = y THEN y ELSE a]
MCWatched == [line |-> a, bank |-> 1, lane |-> 0]

\* A line of the same tag in a set of its own.
TwoSets == [loads |-> {<<a, 1>>, <<x, 1>>},
            stores |-> {<<a, 1, {0}>>, <<y, 1, {0, 1}>>}, prefetched |-> {}]
\* The prefetcher asks for the line that takes the way of the one in use.
Rival == [loads |-> {<<a, 1>>},
          stores |-> {<<a, 1, {0}>>, <<x, 1, {0, 1}>>}, prefetched |-> {x}]
\* It asks for the line in use, whose words are stored to in two parts.
Own == [loads |-> {<<a, 1>>, <<x, 1>>}, prefetched |-> {a},
        stores |-> {<<a, 1, {0}>>, <<a, 1, {1}>>}]
\* Two lines that were stored to wait to be written back for a third.
Crowd == [loads |-> {<<a, 1>>, <<z, 1>>}, stores |-> {<<a, 1, {0}>>, <<x, 1, {0, 1}>>},
          prefetched |-> {}]
MCPrograms == {TwoSets, Rival, Own, Crowd}
\* Two loads and a prefetch are enough to lose a request.
Missing == [loads |-> {<<a, 1>>, <<x, 1>>}, stores |-> {}, prefetched |-> {x}]
Short == {Missing}
=============================================================================
