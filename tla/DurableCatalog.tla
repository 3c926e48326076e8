--------------------------- MODULE DurableCatalog ---------------------------
(* What the catalog store promises: one catalog that changes by one valid    *)
(* operation at a time, and by nothing else.                                 *)
EXTENDS Catalog

VARIABLE content

Init == content = new

Apply(o) ==
    /\ validate(content, o)
    /\ content' = apply(content, o)

Next == \E o \in CatalogOp : Apply(o)

Spec == Init /\ [][Next]_content
=============================================================================
