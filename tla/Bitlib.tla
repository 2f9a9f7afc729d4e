------------------------------- MODULE Bitlib -------------------------------
(***************************************************************************)
(* The integer helpers of sw/bitlib.cpp, and the alignment arithmetic that *)
(* plist.cpp writes out by hand as  (x + 2^w - 1) & (-1 << w).             *)
(***************************************************************************)
EXTENDS Integers, FiniteSets

(* The widest number nextlg() is asked about: TLC's integers have 31 bits. *)
MaxLg == 30

(* nextlg(): the number of bits that addresses vl different locations.     *)
(* Its loop counts the powers of two that are smaller than vl.             *)
NextLg(vl) == Cardinality({r \in 0..MaxLg : 2^r < vl})

(* The first multiple of size that is not below x.                         *)
AlignUp_RoundsDown(x, size) == (x \div size) * size      \* mutant

AlignUp(x, size) == ((x + (size - 1)) \div size) * size

AtLeast(a, b) == IF a < b THEN b ELSE a
=============================================================================
