----------------------------- MODULE MCDagClient -----------------------------
(* Instances of DagClient for TLC. *)
EXTENDS DagClient

CONSTANTS a, b, c, d

\* Four-task shapes that run the engine: a diamond, a chain with a shortcut, two
\* joins of the same roots, and a request with cycles.
Shapes == { {<<a, b>>, <<a, c>>, <<b, d>>, <<c, d>>},
            {<<a, b>>, <<b, c>>, <<c, d>>, <<a, d>>},
            {<<a, c>>, <<b, c>>, <<a, d>>, <<b, d>>},
            {<<a, b>>, <<b, c>>, <<c, b>>, <<d, d>>} }

\* Every graph of three tasks, loops included, next to a task of its own, and a
\* cycle that the first task only leads to.
Checked == Shapes \cup { {<<a, b>>, <<b, c>>, <<c, d>>, <<d, b>>} }
                  \cup SUBSET ({a, b, c} \X {a, b, c})
===============================================================================
