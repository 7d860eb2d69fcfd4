----------------------------- MODULE MCCreateVC -----------------------------
(* Small instances of CreateVC for TLC.                                    *)
EXTENDS CreateVC, TLC

CONSTANTS c1, c2, s1, s2, a1, a2, photo, broken, note

\* The sheets, the shares and the accounts are interchangeable among
\* themselves; the images and the texts are not.
Symmetry == Permutations(Screen) \cup Permutations(Upload) \cup Permutations(Account)
=============================================================================
