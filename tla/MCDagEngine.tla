----------------------------- MODULE MCDagEngine -----------------------------
(* Instances of DagEngine for TLC. *)
EXTENDS DagEngine

CONSTANTS a, b, c, d

\* Four-task shapes: a diamond, a chain with a shortcut, two joins of the same
\* roots, and a request the server accepts although it has cycles.
Shapes == { {<<a, b>>, <<a, c>>, <<b, d>>, <<c, d>>},
            {<<a, b>>, <<b, c>>, <<c, d>>, <<a, d>>},
            {<<a, c>>, <<b, c>>, <<a, d>>, <<b, d>>},
            {<<a, b>>, <<b, c>>, <<c, b>>, <<d, d>>} }
===============================================================================
