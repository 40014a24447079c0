-------------------------- MODULE MCRedisProvision --------------------------
\* Model-checking instance of RedisProvision: one namespace begins with another.
EXTENDS RedisProvision, TLC

TwoNamespaces == {<<"a">>, <<"a", "_", "a">>}

Symmetry == Permutations(Admins) \union Permutations(Names)
            \union Permutations(Secrets)
=============================================================================
