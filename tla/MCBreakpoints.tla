--------------------------- MODULE MCBreakpoints ---------------------------
(***************************************************************************)
(* Two threads and the three breakpoints of the table: the last two are    *)
(* near each other, as the two of the export function are.                 *)
(***************************************************************************)
EXTENDS Breakpoints

MCTable == <<1, 20, 23>>
=============================================================================
