------------------------------- MODULE Absent -------------------------------
(* The null of the database and of TypeScript, which the modules on the    *)
(* reports share.                                                          *)
CONSTANT NULL
=============================================================================
