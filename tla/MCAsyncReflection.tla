------------------------- MODULE MCAsyncReflection -------------------------
(***************************************************************************)
(* Small instances of AsyncReflection.                                     *)
(***************************************************************************)
EXTENDS AsyncReflection, TLC

(* One job of normal and one of low priority. *)
MCPriorityOf == ("j1" :> 2) @@ ("j2" :> 3)
=============================================================================
