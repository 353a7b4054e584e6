---------------------------- MODULE MCIngestion ----------------------------
(***************************************************************************)
(* Five blocks: root <- a, b and x on top of a, and r on top of x.  a and  *)
(* x include the same collection, which arrives for one block while the    *)
(* other waits for its parent.  When b is finalized, x and r are orphaned. *)
(* The root is the block executed at the start, and any known chain may    *)
(* already be finalized, so that the throttle starts up to three blocks    *)
(* behind.                                                                 *)
(***************************************************************************)
EXTENDS Ingestion

CONSTANT c1

MCBlocks == {"root", "a", "b", "x", "r"}
MCParent == [b \in MCBlocks \ {"root"} |->
                CASE b = "a" -> "root" [] b = "r" -> "x" [] OTHER -> "a"]
MCHeight == [b \in MCBlocks |->
                CASE b = "root" -> 0 [] b = "a" -> 1 [] b = "r" -> 3 [] OTHER -> 2]
MCGuarantees == [b \in MCBlocks |-> IF b \in {"a", "x"} THEN {c1} ELSE {}]
=============================================================================
