---------------------------- MODULE MCAuditLog -----------------------------
(***************************************************************************)
(* Instances of AuditLog for TLC.  Contents are 1 and 2, and the HMAC is a *)
(* number in base 3 with one digit per row it covers, 0 for the genesis    *)
(* value: equal numbers have covered equal things.                         *)
(***************************************************************************)
EXTENDS AuditLog, TLC

HashNumbers == Nat
DigitMac(content, hash) == 3 * hash + content

Symmetry == Permutations(Writers)

=============================================================================
