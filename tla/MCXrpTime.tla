------------------------------ MODULE MCXrpTime ------------------------------
(***************************************************************************)
(* All days a field of 32 bits can name, at the borders of the day.        *)
(***************************************************************************)
EXTENDS XrpTime

MCSeconds == {0, 1, 59, 60, 3600, 86399}

=============================================================================
