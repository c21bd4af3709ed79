-------------------------- MODULE MCSECBITContracts --------------------------
(***************************************************************************)
(* Shapes for SECBITContracts: nothing, one property, all of them and a    *)
(* mint function, the three ERC20 functions, an interface.                 *)
(***************************************************************************)
EXTENDS SECBITContracts

Shape(has) == [has |-> has, mint |-> FALSE, api |-> FALSE, interface |-> FALSE]

MCShapes ==
  {Shape({}), Shape({"name"}), [Shape(Properties) EXCEPT !.mint = TRUE],
   [Shape({}) EXCEPT !.api = TRUE], [Shape({"symbol"}) EXCEPT !.interface = TRUE]}
=============================================================================
