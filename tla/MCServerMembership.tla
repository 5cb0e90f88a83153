-------------------------- MODULE MCServerMembership --------------------------
(* Small instances of ServerMembership: a server with three users around it.  *)
EXTENDS ServerMembership, TLC

\* No step asks how often the keys have rotated, and RotatedOnce looks at single steps,
\* so states that differ in that number only count as one.
MCView == <<live, owner, row, ownerRows, rowsMade, bans, uses, account, handlers, sweeps>>

MCSymmetry == Permutations(Users \ Moderators) \cup Permutations(Handlers) \cup Permutations(Instances)
================================================================================
