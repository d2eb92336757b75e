------------------------------ MODULE MCMigrator ------------------------------
(* Lists of some roles each, as in the test of the migrator, and the lists of *)
(* mainnet.                                                                   *)
EXTENDS TimelockAuthorizerMigrator, TimelockMigrationInput

Kind(name, n) == [i \in 1..n |-> <<name, i>>]
TestLists ==
    {[roles |-> Kind("role", r), granters |-> Kind("granter", g), revokers |-> Kind("revoker", v)] :
        r \in 0..3, g \in 0..2, v \in 1..2}
MCLists == TestLists \cup {MainnetLists}
==============================================================================
