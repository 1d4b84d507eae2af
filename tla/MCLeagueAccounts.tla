-------------------------- MODULE MCLeagueAccounts --------------------------
(* Instances of LeagueAccounts for TLC. *)
EXTENDS LeagueAccounts, TLC

CONSTANTS euw, na, kr, anna, top, jungle, middle, s1, s2

\* The summoner is found in two of the three regions.
MCRiot == {<<euw, anna>>, <<na, anna>>}

Interchangeable ==
    Permutations(Slots) \cup Permutations(Positions) \cup Permutations({euw, na})
=============================================================================
