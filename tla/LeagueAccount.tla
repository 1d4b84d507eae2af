---------------------------- MODULE LeagueAccount ----------------------------
(***************************************************************************)
(* The League of Legends account of one user, as the rest of the program   *)
(* relies on it: there is one or there is none, Riot knows it, its two     *)
(* positions differ, and it is created, updated and deleted as a whole.    *)
(* LeagueAccounts is what the code does.                                   *)
(***************************************************************************)
CONSTANTS
    Regions,    \* RIOT_API_REGIONS
    Positions,  \* RIOT_API_POSITIONS
    Summoners,  \* the summoner ids
    Riot        \* the pairs <<region, summoner>> that Riot's API finds

VARIABLE account    \* the set of the user's accounts

Details ==
    [summoner : Summoners, region : Regions, main : Positions, secondary : Positions]

\* What the two services check before they save.
Acceptable(d) ==
    /\ d.main # d.secondary
    /\ <<d.region, d.summoner>> \in Riot

Init == account = {}

Create ==
    /\ account = {}
    /\ \E d \in Details : Acceptable(d) /\ account' = {d}

Update ==
    \E d \in account, e \in Details :
        /\ e.summoner = d.summoner
        /\ Acceptable(e)
        /\ account' = {e}

Delete == account # {} /\ account' = {}

Next == Create \/ Update \/ Delete

Spec == Init /\ [][Next]_account
=============================================================================
