--------------------------- MODULE MCEncryptionKeys ---------------------------
(* A small instance of EncryptionKeys: every user has one browser.            *)
EXTENDS EncryptionKeys, TLC

MCOwner == [b \in Browsers |-> b]

\* A browser is its user, and users are interchangeable.
MCSymmetry == Permutations(Users)
================================================================================
