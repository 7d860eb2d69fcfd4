------------------------------ MODULE MCTabBar ------------------------------
(* A small instance of TabBar for TLC.                                     *)
EXTENDS TabBar

CONSTANTS ada, bob, cell

\* Two posts of Ada with one of Bob in between, two profiles of Ada, one of Bob.
Emails == <<ada, bob, ada, ada, bob, ada>>
=============================================================================
