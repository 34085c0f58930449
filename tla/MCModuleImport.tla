-------------------------- MODULE MCModuleImport --------------------------
(* Instance of ModuleImport for TLC. *)
EXTENDS ModuleImport

CONSTANTS a, b, p, x, y, back, e

\* x is a at the root; y is b at the root and a along the search path; back is the
\* other file, seen from each.
MCWhere ==
  [q \in Place \X Name |->
     CASE q = <<Root, x>> -> a
       [] q = <<Root, y>> -> b
       [] q = <<p, y>> -> a
       [] q = <<a, back>> -> b
       [] q = <<b, back>> -> a
       [] OTHER -> Missing]

\* The directory d holds both files; e is no directory.
MCListing == [q \in Directory |-> IF q = e THEN {y} ELSE {x, y}]
=============================================================================
