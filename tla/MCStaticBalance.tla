--------------------------- MODULE MCStaticBalance ---------------------------
\* An analysis, in which nothing moves, of two iterations with load balancing
\* between them, of a single distribution.
EXTENDS Driver

MCJobs ==
  {[format |-> "nchilada", count |-> <<0, 2, 1>>, vel |-> <<"absent", "absent", "absent">>,
    reads |-> FALSE, mode |-> "single", moves |-> FALSE, iterations |-> 2, flush_period |-> 0,
    lb_period |-> 1, deletes |-> {}, output |-> {}]}
=============================================================================
