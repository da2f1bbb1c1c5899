--------------------------- MODULE MCBrowserSafety ---------------------------
(* What a browser keeps.  The parts share no state; a behaviour follows one  *)
(* of them while the others rest:                                            *)
(*   pipeline  one tab and its durable operations;                           *)
(*   spool     two tabs, two raw events and a spool that holds one;          *)
(*   data      two tabs, an archive of one record, and a browser whose data  *)
(*             is lost twice.                                                *)
EXTENDS MCDeliveryPipeline, BrowserSafety, RawSpool, TLC

CONSTANTS s1, s2, r1

TwoOthers == {s1, s2}
OneRecord == {r1}
Symmetry == Permutations(TwoOthers)

VARIABLE part

BrowserInit ==
    /\ Init /\ SpoolInit /\ SafetyInit
    /\ part \in {"pipeline", "spool", "data"}
    /\ part # "data" => ~paired

BrowserNext ==
    /\ UNCHANGED part
    /\ \/ part = "pipeline" /\ Next /\ UNCHANGED <<spoolVars, safetyVars>>
       \/ part = "spool" /\ SpoolNext /\ UNCHANGED <<vars, safetyVars>>
       \/ part = "data" /\ SafetyNext /\ UNCHANGED <<vars, spoolVars>>

BrowserSpec == BrowserInit /\ [][BrowserNext]_<<part, vars, spoolVars, safetyVars>>
=============================================================================
