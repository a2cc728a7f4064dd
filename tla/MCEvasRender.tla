---------------------------- MODULE MCEvasRender ----------------------------
\* The constants of the configurations EvasRender*.cfg.
EXTENDS EvasRender, TLC

OnAndOff == {{0}, {1}}
Overlapping == {{0}, {1, 2}, {2}}
OnOutput12 == {{1}, {2}}
Nested == {{1, 2}, {2}}
OneDamage == {{1}}

Program(objects, translucent, areas, n) ==
  [objects |-> objects, translucent |-> translucent, areas |-> areas,
   calls |-> n, raises |-> TRUE, flushes |-> TRUE, freezes |-> FALSE,
   hidesClips |-> FALSE, clipsDrawn |-> FALSE, rendersFrozen |-> FALSE]

Pairs == {S \in SUBSET Objects : Cardinality(S) = 2}

\* Programs that flush before they render, and those that never do, raise no
\* object and show translucent ones only.
Flushing == {Program(Objects, {}, OnAndOff, 1)}
            \cup UNION {{Program(S, T, OnAndOff, 2) : T \in SUBSET S} : S \in Pairs}
            \cup {[Program(S, {}, OnOutput12, 2) EXCEPT !.freezes = TRUE, !.raises = FALSE] : S \in Pairs}
            \cup UNION {{Program(S, T, Nested, 2) : T \in {{}, S}} : S \in Pairs}
Keeping == {[p EXCEPT !.flushes = FALSE, !.raises = FALSE] :
              p \in {Program(Objects, Objects, OnAndOff, 1)}
                   \cup {Program(S, S, Overlapping, 1) : S \in Pairs}}
Careful == Flushing \cup Keeping

\* The objects are interchangeable.
Symmetry == Permutations(Objects)
=============================================================================
