--------------------------- MODULE MCProxySession ---------------------------
(***************************************************************************)
(* Three scenes: one flow at a time, with two nodes and the system-proxy   *)
(* switch, while the core may die, answers may be lost, and OS commands    *)
(* and writes of the settings may fail; two flows that overlap, with       *)
(* requests that run late as well; and two flips of the switch that        *)
(* overlap, beside a flow.                                                 *)
(***************************************************************************)
EXTENDS ProxySession

CONSTANTS p1, p2, f1, f2, t1, t2

Alone == [flows |-> {f1}, toggles |-> {t1}, nodes |-> {p1, p2},
          settings |-> BOOLEAN,
          faults |-> {"crash", "command", "save", "answer"}]
Overlap == [flows |-> {f1, f2}, toggles |-> {}, nodes |-> {p1},
            settings |-> {FALSE}, faults |-> {"crash", "answer", "late"}]
Flips == [flows |-> {f1}, toggles |-> {t1, t2}, nodes |-> {p1},
          settings |-> BOOLEAN, faults |-> {"command"}]
MCScenes == {Alone, Overlap, Flips}

=============================================================================
