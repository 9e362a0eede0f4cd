------------------------------ MODULE Requests ------------------------------
(***************************************************************************)
(* What the smaller services share: requests and background tasks run on   *)
(* several workers, and a transaction that has read a row without a lock   *)
(* writes only the attributes that its handler gave another value than the *)
(* one it has read.                                                        *)
(***************************************************************************)
CONSTANT Workers

\* The committed value of an attribute after a handler has set it.
Written(committed, read, set) == IF set = read THEN committed ELSE set
=============================================================================
