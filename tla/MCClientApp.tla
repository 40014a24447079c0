---------------------------- MODULE MCClientApp -----------------------------
\* Model-checking instance: the password of one database before and after its
\* rotation, with pools of one connection and of two.
EXTENDS ClientApp

CONSTANTS w1, w2

TwoWorkers == {w1, w2}
Before == [database |-> "db", password |-> "old", provider |-> "managed",
           sslmode |-> None, pool_size |-> 1, max_overflow |-> 0]
After == [Before EXCEPT !.password = "new", !.sslmode = "require", !.max_overflow = 1]
MCSettings == {Before, After}

MCPrograms ==
    {[uses |-> {"request", "tenant", "tasks"}, settings |-> {}, depth |-> 2, open |-> 2],
     [uses |-> {"request", "set_request_id", "tasks"}, settings |-> {},
      depth |-> 2, open |-> 3],
     [uses |-> {"request", "span", "set_request_id"}, settings |-> {},
      depth |-> 2, open |-> 3],
     [uses |-> {"request", "session", "health"}, settings |-> MCSettings,
      depth |-> 2, open |-> 2],
     [uses |-> {"session"}, settings |-> {Before}, depth |-> 2, open |-> 4]}
=============================================================================
