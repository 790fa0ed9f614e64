--------------------------- MODULE MCRuForwarder ---------------------------
(* Two elements, as the order of their merges and half-applied edits matter. *)
EXTENDS RuForwarder
CONSTANTS uplane, interfaces
MCElement == {uplane, interfaces}
MCStartup == {[e \in MCElement |-> Own], [e \in MCElement |-> IF e = uplane THEN Absent ELSE Own]}
=============================================================================
