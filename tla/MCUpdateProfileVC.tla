-------------------------- MODULE MCUpdateProfileVC --------------------------
(* Small instances of UpdateProfileVC for TLC.                             *)
EXTENDS UpdateProfileVC, TLC

CONSTANTS c1, c2, s1, s2, a1, a2, face, broken, word

\* The forms, the uploads and the accounts are interchangeable among
\* themselves; the images and the texts are not.
Symmetry == Permutations(Screen) \cup Permutations(Upload) \cup Permutations(Account)

\* The documents a form with one-word fields can make.
Profiles == [username : {Blank, word}, bio : {Blank, word}]
=============================================================================
