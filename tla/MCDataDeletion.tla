--------------------------- MODULE MCDataDeletion ---------------------------
(* The view under which TLC explores the unbounded specification.  Tokens  *)
(* and revisions are only ever compared for equality, so two states that   *)
(* differ in the names of the tokens in use, or in revisions with the same *)
(* comparisons, have the same future; and a deletion removes all data of a *)
(* store, so that of the data only counts whether there is any, and whether*)
(* all of it is from writes that did not pin.                              *)
EXTENDS DataDeletion, FiniteSets, TLC

Interchangeable == Permutations(Workers)

(* The tokens somebody may still compare or let run out                    *)
InUse ==
    ({subject.token} \cup {request[r].lease : r \in Requests}
     \cup {request[r].running : r \in Requests} \cup {Token(w) : w \in Workers}
     \cup UNION {{op[r][s].by : s \in {t \in Store : Held(op[r][t])}} : r \in Requests})
    \ {0}

(* A token's name: its rank among those in use, 0 when it is not           *)
Names ==
    LET used == InUse
    IN [k \in 0 .. claims |-> Cardinality({j \in used : j <= k /\ k \in used})]

SeenRequest(r, name) ==
    [request[r] EXCEPT !.lease = name[@], !.running = name[@], !.revision = 0]
SeenOperation(o, name) ==
    [o EXCEPT !.by = name[@], !.live = @ /\ Held(o)]
SeenWorker(w, name) ==
    LET k == worker[w] IN
    IF At(w, "idle") THEN Resting
    ELSE IF At(w, "release") THEN [Resting EXCEPT !.pc = "release", !.token = name[k.token]]
    ELSE [k EXCEPT !.token = name[@],
                   !.revision = IF @ = Mine(w).revision THEN 1 ELSE 0,
                   !.gov = IF k.pc = "act" /\ @ = subject.revision THEN 1 ELSE 0,
                   !.seen = IF k.pc \in {"govern", "act"} THEN @ ELSE 0,
                   !.ok = @ /\ k.pc # "observe",
                   !.stage = IF k.pc = "complete" /\ ~k.ok THEN 1 ELSE @]

Seen ==
    LET name == Names
    IN <<[subject EXCEPT !.token = name[@], !.revision = 0],
         [r \in Requests |-> SeenRequest(r, name)],
         [r \in Requests |-> [s \in Store |-> SeenOperation(op[r][s], name)]],
         [s \in Store |-> <<data[s] = {}, Erased(s)>>],
         write, {name[k] : k \in expired} \ {0},
         [w \in Workers |-> SeenWorker(w, name)]>>
=============================================================================
