--------------------------- MODULE MCProductMirror ---------------------------
\* Instances of ProductMirror for TLC.  Workers are interchangeable; products
\* are not: Odoo lists them in order.
EXTENDS ProductMirror, TLC

Symmetry == Permutations(Workers)
=============================================================================
