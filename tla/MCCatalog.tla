------------------------------- MODULE MCCatalog -------------------------------
(* A small instance of Catalog for TLC.                                      *)
EXTENDS Catalog, TLC

Blank == [category |-> None, picture |-> None, uploaded |-> FALSE,
          available |-> "keep", payer |-> "keep"]

\* Complete inputs with a file: they publish a listing, or edit all of one.
MCComplete ==
    {[Blank EXCEPT !.category = c, !.available = "yes", !.payer = "someone",
                   !.picture = i, !.uploaded = TRUE] :
       c \in Categories, i \in Pictures}

\* Inputs that give one side of the delivery, or the URL of a picture.
MCPartial ==
    {[Blank EXCEPT !.available = "no"], [Blank EXCEPT !.payer = "someone"]}
    \cup {[Blank EXCEPT !.picture = i] : i \in Pictures}

MCInputs == MCComplete \cup MCPartial

\* Categories are interchangeable, and so are handlers.
MCSymmetry == Permutations(Categories) \cup Permutations(Slots)

=============================================================================
