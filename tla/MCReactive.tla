------------------------------ MODULE MCReactive ------------------------------
(* Instances of Reactive for TLC.                                            *)
EXTENDS Reactive

CONSTANTS s, t, c, e1, e2

\* A dashboard: e1 shows a computed and writes what the computed reads, draining the
\* queue first, and drops e2; e2 has a cleanup, and unmounts a scope inside a batch.
MCReads == [b \in Bodies |-> CASE b = e1 -> {c} [] b = e2 -> {t} [] b = c -> {s} [] OTHER -> {}]
MCWrites == [b \in Bodies |-> CASE b = Event -> {s, t} [] b \in {e1, e2} -> {s}
                                [] b = Cleanup -> {t} [] OTHER -> {}]
MCMakes == [b \in Bodies |-> IF b = Event THEN {c, e1, e2} ELSE {}]
MCFrees == [b \in Bodies |-> IF b \in {Event, e1} THEN {e2} ELSE {}]
MCCalls == [b \in Bodies |-> CASE b = e1 -> {"drain"} [] b = e2 -> {"batch", "cleanup", "unmount"}
                               [] OTHER -> {}]
=============================================================================
