---------------------------- MODULE MCRevisionCache ----------------------------
EXTENDS RevisionCache

CONSTANTS i1, i2, w1, w2, r1

\* The threads that live in i1; the others live in i2.
In(here) == [t \in {w1, w2, r1} |-> IF t \in here THEN i1 ELSE i2]

\* The reader lives in i1 and instances and writers are alike: both writers
\* with the reader, one of them, or none.  On disk, where what is new is between
\* the threads of one instance, both; a store with invalidations, which may be
\* lost, does all the plain one does.
AllSetups ==
    [kind: {"plain", "etag", "mq"}, layer: {"memory"},
     home: {In({w1, w2, r1}), In({w1, r1}), In({r1})}]
    \cup [kind: {"mq"}, layer: {"disk"}, home: {In({w1, w2, r1})}]

=============================================================================
