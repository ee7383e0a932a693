---- MODULE CpsMaps ----
(***************************************************************************)
(* Dictionaries (std::map, a Python dict) as functions.                    *)
(***************************************************************************)

\* f with the entries of g that it does not have itself.
Over(f, g) == [k \in DOMAIN f \cup DOMAIN g |-> IF k \in DOMAIN f THEN f[k] ELSE g[k]]

\* The dictionary with one entry.
Entry(key, value) == [k \in {key} |-> value]
====
