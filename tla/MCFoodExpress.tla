--------------------------- MODULE MCFoodExpress ---------------------------
EXTENDS FoodExpress, TLC

Symmetry == Permutations(Orders)
=============================================================================
